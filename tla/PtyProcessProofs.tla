--------------------------- MODULE PtyProcessProofs ---------------------------
(***************************************************************************)
(* Theorems about PtyProcess, for all strings, all output in parts of any  *)
(* size, every exit string and every length of the conversation:           *)
(*                                                                         *)
(* - Flow: nothing that a process prints is dropped, and the child is      *)
(*   signalled for a line that begins with the exit string, however it came;*)
(* - JobTypes and Strings, with Flow: type correctness;                    *)
(* - what writeString() writes of a string is what dequote() makes the string*)
(*   of again (DequoteIs, ReadBack);                                       *)
(* - InStep, with the others: while no line is torn, exec() and the stub are*)
(*   at the same place of the conversation, and the stub gets the strings. *)
(***************************************************************************)
EXTENDS PtyProcess, CharactersProofs

Byte == 0 .. 255

-----------------------------------------------------------------------------
(* Lines.                                                                    *)

HasNewline(text) == IndexOf(text, Newline) > 0

\* Without a newline a text is a line and nothing is left; with one, it is the line,
\* the newline and the rest, each of them shorter.
LEMMA LineParts ==
    ASSUME NEW text \in Bytes
    PROVE  /\ LineOf(text) \in Bytes /\ RestOf(text) \in Bytes
           /\ ~HasNewline(text) => LineOf(text) = text /\ RestOf(text) = <<>>
           /\ HasNewline(text) =>
                 /\ text = LineOf(text) \o (<<Newline>> \o RestOf(text))
                 /\ Len(RestOf(text)) < Len(text)
           /\ Newline \notin ToSet(LineOf(text))
<1>. DEFINE n == IndexOf(text, Newline)
<1>1. /\ n \in 0 .. Len(text)
      /\ n > 0 => text[n] = Newline
      /\ n = 0 => \A i \in 1 .. Len(text) : text[i] /= Newline
      /\ \A i \in 1 .. n - 1 : text[i] /= Newline
  BY FirstPlace DEF Bytes
<1>2. CASE n = 0
  <2>1. LineOf(text) = text /\ RestOf(text) = <<>>
    BY <1>2 DEF LineOf, RestOf
  <2>2. Newline \notin ToSet(text)
    BY <1>1, <1>2 DEF ToSet, Bytes
  <2>3. <<>> \in Bytes
    BY DEF Bytes
  <2>. QED
    BY <1>2, <2>1, <2>2, <2>3 DEF HasNewline
<1>3. CASE n > 0
  <2>1. LineOf(text) = FirstOf(text, n - 1) /\ RestOf(text) = After(text, n)
    BY <1>1, <1>3 DEF LineOf, RestOf
  <2>2. n \in 0 .. Len(text) /\ n - 1 \in 0 .. Len(text)
    BY <1>1, <1>3
  <2>3. /\ FirstOf(text, n - 1) \in Bytes /\ Len(FirstOf(text, n - 1)) = n - 1
        /\ \A i \in 1 .. n - 1 : FirstOf(text, n - 1)[i] = text[i]
    <3>. DEFINE k == n - 1
    <3>1. k \in 0 .. Len(text)
      BY <2>2
    <3>. HIDE DEF k
    <3>2. /\ FirstOf(text, k) \in Bytes /\ Len(FirstOf(text, k)) = k
          /\ \A i \in 1 .. k : FirstOf(text, k)[i] = text[i]
      BY <3>1, CutParts DEF Bytes
    <3>. QED
      BY <3>2 DEF k
  <2>4. After(text, n) \in Bytes /\ Len(After(text, n)) = Len(text) - n
    BY <2>2, Cut
  <2>5. After(text, n - 1) = <<Newline>> \o After(text, n)
    <3>1. n \in 1 .. Len(text) /\ Len(text) \in n .. Len(text) /\ n - 1 + 1 = n
      BY <1>1, <1>3
    <3>2. SubSeq(text, n, Len(text)) = <<text[n]>> \o SubSeq(text, n + 1, Len(text))
      BY <3>1, SubSeqRecursiveFirst DEF Bytes
    <3>. QED
      BY <1>1, <1>3, <3>1, <3>2 DEF After
  <2>6. text = FirstOf(text, n - 1) \o After(text, n - 1)
    BY <2>2, CutJoins DEF Bytes
  <2>7. Newline \notin ToSet(FirstOf(text, n - 1))
    BY <1>1, <2>3 DEF ToSet, Bytes
  <2>8. Len(After(text, n)) < Len(text)
    BY <1>3, <2>2, <2>4
  <2>. QED
    BY <1>3, <2>1, <2>3, <2>4, <2>5, <2>6, <2>7, <2>8 DEF HasNewline
<1>. QED
  BY <1>1, <1>2, <1>3

\* A text that begins with a line is cut behind it.
LEMMA LineIs ==
    ASSUME NEW line \in Bytes, NEW rest \in Bytes, Newline \notin ToSet(line)
    PROVE  /\ line \o (<<Newline>> \o rest) \in Bytes
           /\ HasNewline(line \o (<<Newline>> \o rest))
           /\ LineOf(line \o (<<Newline>> \o rest)) = line
           /\ RestOf(line \o (<<Newline>> \o rest)) = rest
<1>. DEFINE nl == <<Newline>>
            text == line \o (nl \o rest)
            n == Len(line) + 1
<1>1. nl \in Bytes /\ Len(nl) = 1 /\ nl[1] = Newline
  BY DEF Bytes, Newline
<1>2. nl \o rest \in Bytes /\ (nl \o rest)[1] = Newline /\ Len(nl \o rest) = 1 + Len(rest)
  BY <1>1, ConcatProperties DEF Bytes
<1>3. /\ text \in Bytes /\ Len(text) = Len(line) + (1 + Len(rest))
      /\ \A i \in 1 .. Len(line) : text[i] = line[i]
      /\ text[n] = Newline
  BY <1>2, ConcatProperties DEF Bytes
<1>4. \A i \in 1 .. n - 1 : text[i] /= Newline
  BY <1>3 DEF ToSet, Bytes
<1>5. IndexOf(text, Newline) = n
  <2>1. n \in 1 .. Len(text)
    BY <1>3 DEF Bytes
  <2>. QED
    BY <1>3, <1>4, <2>1, FirstPlaceIs DEF Bytes
<1>6. LineOf(text) = FirstOf(text, Len(line)) /\ RestOf(text) = After(text, n)
  <2>1. n /= 0 /\ n - 1 = Len(line)
    BY DEF Bytes
  <2>. HIDE DEF text, n
  <2>. QED
    BY <1>5, <2>1 DEF LineOf, RestOf
<1>7. FirstOf(text, Len(line)) = line
  BY <1>2, CutIs DEF Bytes
<1>8. After(text, n) = rest
  <2>1. text = (line \o nl) \o rest
    BY <1>1, ConcatAssociative DEF Bytes
  <2>2. line \o nl \in Bytes /\ Len(line \o nl) = n
    BY <1>1, ConcatProperties DEF Bytes
  <2>. HIDE DEF text, n
  <2>. QED
    BY <2>1, <2>2, CutIs DEF Bytes
<1>. QED
  BY <1>3, <1>5, <1>6, <1>7, <1>8 DEF HasNewline, Bytes

-----------------------------------------------------------------------------
(* The exit string at the beginning of a line.                               *)

Size == Len(ExitString)

\* The exit string is not empty and has no newline.
LEMMA ExitStringFacts ==
    /\ ExitString \in Bytes /\ Size \in Nat \ {0}
    /\ \A i \in 1 .. Size : ExitString[i] /= Newline
<1>1. ExitString \in Bytes
  BY TextAssumption
<1>. QED
  BY <1>1, PtyAssumption DEF ToSet, Bytes, Size

StartsAt(text, k) == k = 0 \/ text[k] = Newline
HitAt(text, k) ==
    k + Size <= Len(text) /\ \A i \in 1 .. Size : text[k + i] = ExitString[i]

\* A text from k on begins with the exit string if every character is there.
LEMMA PrefixIsHit ==
    ASSUME NEW text \in Bytes, NEW k \in 0 .. Len(text)
    PROVE  IsPrefix(ExitString, After(text, k)) <=> HitAt(text, k)
<1>. DEFINE t == After(text, k)
<1>1. /\ t \in Bytes /\ Len(t) = Len(text) - k
      /\ \A i \in 1 .. Len(text) - k : t[i] = text[k + i]
  BY CutParts DEF Bytes
<1>2. ExitString \in Bytes /\ Size \in Nat
  BY ExitStringFacts
<1>. HIDE DEF t
<1>3. SubSeq(ExitString, 1, Size) = ExitString
  BY <1>2, SubSeqFull DEF Size, Bytes
<1>4. IsPrefix(ExitString, t) <=> Size <= Len(t) /\ ExitString = SubSeq(t, 1, Size)
  BY <1>3 DEF IsPrefix, Size
<1>5. ASSUME Size <= Len(t)
      PROVE  ExitString = SubSeq(t, 1, Size) <=> \A i \in 1 .. Size : t[i] = ExitString[i]
  <2>1. /\ SubSeq(t, 1, Size) \in Bytes /\ Len(SubSeq(t, 1, Size)) = Size
        /\ \A i \in 1 .. Size : SubSeq(t, 1, Size)[i] = t[i]
    <3>1. ASSUME NEW i \in 1 .. Size
          PROVE  t[i] \in 0 .. 255
      <4>1. i \in 1 .. Len(t)
        BY <1>1, <1>2, <1>5
      <4>2. t \in Seq(0 .. 255)
        BY <1>1 DEF Bytes
      <4>. QED
        BY <4>1, <4>2, ElementOfSeq
    <3>. QED
      BY <1>2, <3>1, SubSeqProperties DEF Bytes
  <2>2. ASSUME \A i \in 1 .. Size : t[i] = ExitString[i]
        PROVE  ExitString = SubSeq(t, 1, Size)
    BY <1>2, <2>1, <2>2, SeqEqual DEF Bytes, Size
  <2>. QED
    BY <2>1, <2>2
<1>6. ASSUME Size <= Len(t), NEW i \in 1 .. Size
      PROVE  t[i] = text[k + i]
  BY <1>1, <1>2, <1>6
<1>7. Size <= Len(t) <=> k + Size <= Len(text)
  BY <1>1, <1>2
<1>. QED
  BY <1>4, <1>5, <1>6, <1>7 DEF HitAt, t

\* A line begins with the exit string somewhere: at the beginning or behind a newline.
LEMMA ExitLineAt ==
    ASSUME NEW text \in Bytes
    PROVE  HasExitLine(text) <=> \E k \in 0 .. Len(text) : StartsAt(text, k) /\ HitAt(text, k)
<1>1. LineStarts(text) = {k + 1 : k \in {j \in 0 .. Len(text) : StartsAt(text, j)}}
  BY DEF LineStarts, StartsAt, Bytes
<1>2. ASSUME NEW k \in 0 .. Len(text), StartsAt(text, k), HitAt(text, k)
      PROVE  HasExitLine(text)
  <2>1. k + 1 \in LineStarts(text) /\ k + 1 - 1 = k
    BY <1>1, <1>2
  <2>2. IsPrefix(ExitString, After(text, k + 1 - 1))
    BY <1>2, <2>1, PrefixIsHit
  <2>. QED
    BY <2>1, <2>2 DEF HasExitLine
<1>3. ASSUME HasExitLine(text)
      PROVE  \E k \in 0 .. Len(text) : StartsAt(text, k) /\ HitAt(text, k)
  <2>1. PICK i \in LineStarts(text) : IsPrefix(ExitString, After(text, i - 1))
    BY <1>3 DEF HasExitLine
  <2>2. PICK k \in 0 .. Len(text) : i = k + 1 /\ StartsAt(text, k)
    BY <1>1
  <2>3. i - 1 = k
    BY <2>2
  <2>. QED
    BY <2>1, <2>2, <2>3, PrefixIsHit
<1>. QED
  BY <1>2, <1>3

LineEnd(p) == p = <<>> \/ p[Len(p)] = Newline

\* Behind whole lines an exit string begins a line of what follows, or one of them:
\* it has no newline itself.
LEMMA ExitLineOfJoin ==
    ASSUME NEW a \in Bytes, NEW b \in Bytes, LineEnd(a)
    PROVE  HasExitLine(a \o b) <=> HasExitLine(a) \/ HasExitLine(b)
<1>. DEFINE t == a \o b
            m == Len(a)
<1>1. /\ t \in Bytes /\ Len(t) = m + Len(b) /\ m \in Nat /\ Len(b) \in Nat
      /\ \A i \in 1 .. m + Len(b) : t[i] = IF i <= m THEN a[i] ELSE b[i - m]
  BY ConcatProperties DEF Bytes
<1>2. \A i \in 1 .. m : t[i] = a[i]
  BY <1>1
<1>3. ASSUME NEW i \in 1 .. Len(b)
      PROVE  t[m + i] = b[i]
  <2>1. m + i \in 1 .. m + Len(b) /\ ~(m + i <= m) /\ m + i - m = i
    BY <1>1
  <2>. QED
    BY <1>1, <2>1
<1>4. m > 0 => a[m] = Newline
  BY DEF LineEnd, Bytes
<1>5. Size \in Nat \ {0} /\ \A i \in 1 .. Size : ExitString[i] /= Newline
  BY ExitStringFacts
<1>. HIDE DEF t, m
<1>6. ASSUME NEW k \in 0 .. Len(t), StartsAt(t, k), HitAt(t, k)
      PROVE  HasExitLine(a) \/ HasExitLine(b)
  <2>1. CASE k >= m
    <3>. DEFINE j == k - m
    <3>1. j \in 0 .. Len(b) /\ k = m + j
      BY <1>1, <2>1
    <3>2. StartsAt(b, j)
      <4>1. CASE j = 0
        BY <4>1 DEF StartsAt
      <4>2. CASE j > 0
        <5>1. j \in 1 .. Len(b) /\ k /= 0
          BY <1>1, <3>1, <4>2
        <5>. QED
          BY <1>3, <1>6, <3>1, <5>1 DEF StartsAt
      <4>. QED
        BY <3>1, <4>1, <4>2
    <3>3. j + Size <= Len(b)
      BY <1>1, <1>5, <1>6, <3>1 DEF HitAt
    <3>4. ASSUME NEW i \in 1 .. Size
          PROVE  b[j + i] = ExitString[i]
      <4>1. j + i \in 1 .. Len(b) /\ m + (j + i) = k + i
        BY <1>1, <1>5, <3>1, <3>3
      <4>. QED
        BY <1>3, <1>6, <4>1 DEF HitAt
    <3>. HIDE DEF j
    <3>. QED
      BY <3>1, <3>2, <3>3, <3>4, ExitLineAt DEF HitAt
  <2>2. CASE k < m /\ k + Size <= m
    <3>1. k \in 0 .. m /\ \A i \in 1 .. Size : k + i \in 1 .. m
      BY <1>1, <1>5, <2>2
    <3>2. HitAt(a, k)
      BY <1>2, <1>6, <2>2, <3>1 DEF HitAt, m
    <3>3. StartsAt(a, k)
      BY <1>2, <1>6, <3>1 DEF StartsAt
    <3>. QED
      BY <3>1, <3>2, <3>3, ExitLineAt DEF m
  <2>3. CASE k < m /\ k + Size > m
    <3>1. m - k \in 1 .. Size /\ k + (m - k) = m /\ m \in 1 .. m
      BY <1>1, <1>5, <2>3
    <3>2. t[m] = ExitString[m - k]
      BY <1>6, <3>1 DEF HitAt
    <3>. QED
      BY <1>2, <1>4, <1>5, <3>1, <3>2
  <2>. QED
    BY <1>1, <1>5, <2>1, <2>2, <2>3
<1>7. ASSUME NEW k \in 0 .. m, StartsAt(a, k), HitAt(a, k)
      PROVE  k \in 0 .. Len(t) /\ StartsAt(t, k) /\ HitAt(t, k)
  <2>1. k + Size <= Len(t) /\ \A i \in 1 .. Size : k + i \in 1 .. m
    BY <1>1, <1>5, <1>7 DEF HitAt, m
  <2>2. HitAt(t, k)
    BY <1>2, <1>7, <2>1 DEF HitAt
  <2>3. StartsAt(t, k)
    BY <1>2, <1>7 DEF StartsAt
  <2>. QED
    BY <1>1, <2>2, <2>3
<1>8. ASSUME NEW j \in 0 .. Len(b), StartsAt(b, j), HitAt(b, j)
      PROVE  m + j \in 0 .. Len(t) /\ StartsAt(t, m + j) /\ HitAt(t, m + j)
  <2>1. ASSUME NEW i \in 1 .. Size
        PROVE  t[(m + j) + i] = ExitString[i]
    <3>1. j + i \in 1 .. Len(b) /\ m + (j + i) = (m + j) + i
      BY <1>1, <1>5, <1>8 DEF HitAt
    <3>. QED
      BY <1>3, <1>8, <3>1 DEF HitAt
  <2>2. (m + j) + Size <= Len(t)
    BY <1>1, <1>5, <1>8 DEF HitAt
  <2>3. StartsAt(t, m + j)
    <3>1. CASE j > 0
      <4>1. j \in 1 .. Len(b)
        BY <3>1
      <4>. QED
        BY <1>3, <1>8, <3>1, <4>1 DEF StartsAt
    <3>2. CASE j = 0
      <4>1. m + j = m
        BY <1>1, <3>2
      <4>2. m > 0 => t[m] = Newline
        BY <1>1, <1>2, <1>4
      <4>. QED
        BY <1>1, <4>1, <4>2 DEF StartsAt
    <3>. QED
      BY <3>1, <3>2
  <2>. QED
    BY <1>1, <2>1, <2>2, <2>3 DEF HitAt
<1>9. HasExitLine(t) => HasExitLine(a) \/ HasExitLine(b)
  BY <1>1, <1>6, ExitLineAt
<1>10. HasExitLine(a) => HasExitLine(t)
  BY <1>1, <1>7, ExitLineAt DEF m
<1>11. HasExitLine(b) => HasExitLine(t)
  BY <1>1, <1>8, ExitLineAt
<1>. QED
  BY <1>9, <1>10, <1>11 DEF t

-----------------------------------------------------------------------------
(* What waitForChild() finds in a text, and what it keeps of it.             *)

Behind(t) == IF IsPrefix(ExitString, t) THEN After(t, Size) ELSE t

\* The body of the scan that Matched() is: the function gives what fewer characters do.
Scanned(text, scan, n) ==
    LET t     == After(text, Len(text) - n)
        hit   == IsPrefix(ExitString, t)
        after == IF hit THEN After(t, Len(ExitString)) ELSE t
        next  == scan[Len(RestOf(after))]
    IN  IF n < Len(ExitString) THEN [found |-> FALSE, rest |-> t]
        ELSE IF IndexOf(after, Newline) = 0 THEN [found |-> hit, rest |-> after]
        ELSE [found |-> hit \/ next.found, rest |-> next.rest]

Found == [found : BOOLEAN, rest : Bytes]

\* What is behind the exit string is an end of the text, and its rest is shorter.
LEMMA BehindParts ==
    ASSUME NEW t \in Bytes
    PROVE  /\ Behind(t) \in Bytes
           /\ \E p \in Bytes : t = p \o Behind(t)
           /\ HasNewline(Behind(t)) => Len(RestOf(Behind(t))) < Len(t)
<1>1. CASE IsPrefix(ExitString, t)
  <2>1. Size \in 0 .. Len(t)
    BY <1>1, ExitStringFacts DEF IsPrefix, Size, Bytes
  <2>2. /\ FirstOf(t, Size) \in Bytes /\ After(t, Size) \in Bytes
        /\ Len(After(t, Size)) = Len(t) - Size
    BY <2>1, CutParts DEF Bytes
  <2>3. t = FirstOf(t, Size) \o After(t, Size)
    BY <2>1, CutJoins DEF Bytes
  <2>7. Behind(t) = After(t, Size)
    BY <1>1 DEF Behind
  <2>4. HasNewline(After(t, Size)) => Len(RestOf(After(t, Size))) < Len(After(t, Size))
    BY <2>2, LineParts
  <2>5. RestOf(After(t, Size)) \in Bytes
    BY <2>2, LineParts
  <2>6. Len(t) \in Nat /\ Len(RestOf(After(t, Size))) \in Nat
    BY <2>5 DEF Bytes
  <2>8. HasNewline(Behind(t)) => Len(RestOf(Behind(t))) < Len(t)
    BY <2>1, <2>2, <2>4, <2>6, <2>7
  <2>. QED
    BY <2>2, <2>3, <2>7, <2>8
<1>2. CASE ~IsPrefix(ExitString, t)
  <2>1. <<>> \in Bytes /\ t = <<>> \o t
    BY ConcatEmptySeq DEF Bytes
  <2>. QED
    BY <1>2, <2>1, LineParts DEF Behind
<1>. QED
  BY <1>1, <1>2

\* The loop over the lines of the remainder is what its definition says, at any length.
LEMMA MatchedUnfolds ==
    ASSUME NEW text \in Bytes
    PROVE  \E scan :
               /\ Matched(text) = scan[Len(text)]
               /\ \A n \in 0 .. Len(text) : scan[n] = Scanned(text, scan, n)
<1>. DEFINE S == 0 .. Len(text)
            step == [p \in [S -> Found] \X S |-> Scanned(text, p[1], p[2])]
            size == [n \in S |-> n]
            B(g) == [n \in S |-> Scanned(text, g, n)]
            f == CHOOSE g : g = B(g)
<1>1. ASSUME NEW n \in S
      PROVE  /\ After(text, Len(text) - n) \in Bytes
             /\ Behind(After(text, Len(text) - n)) \in Bytes
             /\ HasNewline(Behind(After(text, Len(text) - n))) =>
                   /\ Len(RestOf(Behind(After(text, Len(text) - n)))) \in S
                   /\ Len(RestOf(Behind(After(text, Len(text) - n)))) < n
  <2>. DEFINE t == After(text, Len(text) - n)
              k == Len(text) - n
  <2>1. k \in 0 .. Len(text) /\ Len(text) - k = n
    BY DEF Bytes
  <2>2. After(text, k) \in Bytes /\ Len(After(text, k)) = n
    <3>. HIDE DEF k
    <3>1. After(text, k) \in Bytes /\ Len(After(text, k)) = Len(text) - k
      BY <2>1, Cut
    <3>. QED
      BY <2>1, <3>1
  <2>3. t \in Bytes /\ Len(t) = n
    BY <2>2
  <2>. HIDE DEF t
  <2>4. Behind(t) \in Bytes /\ (HasNewline(Behind(t)) => Len(RestOf(Behind(t))) < n)
    BY <2>3, BehindParts
  <2>5. Len(RestOf(Behind(t))) \in Nat
    BY <2>4, LineParts DEF Bytes
  <2>6. HasNewline(Behind(t)) => Len(RestOf(Behind(t))) \in S
    BY <2>4, <2>5 DEF Bytes
  <2>. QED
    BY <2>3, <2>4, <2>6 DEF t
<1>2. ASSUME NEW t \in Bytes
      PROVE  (IndexOf(t, Newline) = 0) <=> ~HasNewline(t)
  BY FirstPlace DEF HasNewline, Bytes
<1>3. ASSUME NEW g \in [S -> Found], NEW n \in S
      PROVE  Scanned(text, g, n) \in Found
  <2>. DEFINE t == After(text, Len(text) - n)
              after == Behind(t)
              next == g[Len(RestOf(after))]
  <2>1. t \in Bytes /\ after \in Bytes
        /\ (HasNewline(after) => Len(RestOf(after)) \in S)
    BY <1>1
  <2>2. HasNewline(after) => next \in Found
    BY <2>1
  <2>3. IsPrefix(ExitString, t) \in BOOLEAN
    BY DEF IsPrefix
  <2>4. Scanned(text, g, n) =
            IF n < Size THEN [found |-> FALSE, rest |-> t]
            ELSE IF IndexOf(after, Newline) = 0
                 THEN [found |-> IsPrefix(ExitString, t), rest |-> after]
            ELSE [found |-> IsPrefix(ExitString, t) \/ next.found, rest |-> next.rest]
    BY DEF Scanned, Behind, Size
  <2>5. (IndexOf(after, Newline) = 0) <=> ~HasNewline(after)
    BY <1>2, <2>1
  <2>. HIDE DEF t, after, next
  <2>. QED
    BY <2>1, <2>2, <2>3, <2>4, <2>5 DEF Found
<1>4. step \in [[S -> Found] \X S -> Found]
  BY <1>3
<1>5. ASSUME NEW n \in S, NEW g \in [S -> Found], NEW h \in [S -> Found],
             \A r \in S : size[r] < size[n] => g[r] = h[r]
      PROVE  step[<<g, n>>] = step[<<h, n>>]
  <2>. DEFINE after == Behind(After(text, Len(text) - n))
              m == Len(RestOf(after))
  <2>1. /\ IndexOf(after, Newline) = 0 \/ HasNewline(after)
        /\ HasNewline(after) => m \in S /\ m < n
    BY <1>1, <1>2
  <2>2. HasNewline(after) => g[m] = h[m]
    BY <1>5, <2>1
  <2>3. Scanned(text, g, n) = Scanned(text, h, n)
    BY <2>1, <2>2 DEF Scanned, Behind, Size
  <2>4. step[<<g, n>>] = Scanned(text, g, n) /\ step[<<h, n>>] = Scanned(text, h, n)
    OBVIOUS
  <2>. QED
    BY <2>3, <2>4
<1>6. size \in [S -> Nat]
  BY DEF Bytes
<1>7. Found /= {}
  <2>1. [found |-> TRUE, rest |-> text] \in Found
    BY DEF Found
  <2>. QED
    BY <2>1
<1>8. \E g \in [S -> Found] : g = B(g)
  <2>1. Decides(step, S, Found, size)
    <3>. HIDE DEF step, size, S
    <3>. QED
      BY <1>5 DEF Decides
  <2>2. PICK g \in [S -> Found] : Unfolds(g, step, S)
    <3>. HIDE DEF step, size, S
    <3>. QED
      BY <1>4, <1>6, <1>7, <2>1, Recursion
  <2>3. \A n \in S : g[n] = Scanned(text, g, n)
    BY <2>2 DEF Unfolds
  <2>4. g = B(g)
    <3>. HIDE DEF step, size, S
    <3>. QED
      BY <2>3
  <2>. QED
    BY <2>4
<1>9. f = B(f)
  <2>. HIDE DEF B
  <2>. QED
    BY <1>8
<1>11. Matched(text) = f[Len(text)]
  BY DEF Matched, Scanned
<1>12. Len(text) \in S
  BY DEF Bytes
<1>13. \A n \in S : f[n] = Scanned(text, f, n)
  <2>. HIDE DEF f
  <2>. QED
    BY <1>9
<1>. HIDE DEF f
<1>. QED
  BY <1>11, <1>13

\* What a look at a text has to give.
Judges(result, t) ==
    /\ result.found \in BOOLEAN /\ result.rest \in Bytes
    /\ result.found <=> HasExitLine(t)
    /\ ~result.found => \E p \in Bytes : t = p \o result.rest /\ LineEnd(p)
    /\ Newline \in ToSet(result.rest) => Len(result.rest) < Size

\* A text that begins with the exit string has an exit line.
LEMMA ExitLineFirst ==
    ASSUME NEW t \in Bytes, IsPrefix(ExitString, t)
    PROVE  HasExitLine(t)
<1>1. 0 \in 0 .. Len(t) /\ StartsAt(t, 0)
  BY DEF StartsAt, Bytes
<1>2. After(t, 0) = t
  BY SubSeqFull DEF After, Bytes
<1>3. HitAt(t, 0)
  BY <1>1, <1>2, PrefixIsHit
<1>. QED
  BY <1>1, <1>3, ExitLineAt

\* One line, or a part of one, has an exit string at its beginning only.
LEMMA ExitLineOnlyFirst ==
    ASSUME NEW t \in Bytes, \A i \in 1 .. Len(t) - 1 : t[i] /= Newline, HasExitLine(t)
    PROVE  IsPrefix(ExitString, t)
<1>1. PICK k \in 0 .. Len(t) : StartsAt(t, k) /\ HitAt(t, k)
  BY ExitLineAt
<1>2. Size \in Nat \ {0} /\ Len(t) \in Nat
  BY ExitStringFacts DEF Bytes
<1>3. k + Size <= Len(t)
  BY <1>1 DEF HitAt
<1>4. k = 0
  <2>1. k > 0 => k \in 1 .. Len(t) - 1
    BY <1>2, <1>3
  <2>. QED
    BY <1>1, <2>1 DEF StartsAt
<1>5. After(t, 0) = t
  BY SubSeqFull DEF After, Bytes
<1>. QED
  BY <1>1, <1>4, <1>5, PrefixIsHit

\* A text with an exit line is as long as the exit string.
LEMMA ExitLineLength ==
    ASSUME NEW t \in Bytes, HasExitLine(t)
    PROVE  Size <= Len(t)
<1>1. PICK k \in 0 .. Len(t) : HitAt(t, k)
  BY ExitLineAt
<1>. QED
  BY <1>1, ExitStringFacts DEF HitAt, Bytes

\* Right about a text that is shorter than the exit string: nothing found, all kept.
LEMMA JudgedShort ==
    ASSUME NEW t \in Bytes, Len(t) < Size
    PROVE  Judges([found |-> FALSE, rest |-> t], t)
<1>1. ~HasExitLine(t)
  BY ExitLineLength, ExitStringFacts DEF Bytes
<1>2. <<>> \in Bytes /\ LineEnd(<<>>) /\ t = <<>> \o t
  BY ConcatEmptySeq DEF LineEnd, Bytes
<1>. QED
  BY <1>1, <1>2 DEF Judges

\* Right about a text without a newline behind the exit string.
LEMMA JudgedWhole ==
    ASSUME NEW t \in Bytes, ~HasNewline(Behind(t))
    PROVE  Judges([found |-> IsPrefix(ExitString, t), rest |-> Behind(t)], t)
<1>1. Behind(t) \in Bytes
  BY BehindParts
<1>2. Newline \notin ToSet(Behind(t))
  BY <1>1, LineParts
<1>3. CASE IsPrefix(ExitString, t)
  <2>1. HasExitLine(t)
    BY <1>3, ExitLineFirst
  <2>. QED
    <3>1. IsPrefix(ExitString, t) \in BOOLEAN
      BY DEF IsPrefix
    <3>. QED
      <4>. DEFINE result == [found |-> IsPrefix(ExitString, t), rest |-> Behind(t)]
      <4>1. result.found = TRUE /\ result.rest = Behind(t)
        BY <1>3, <3>1
      <4>. HIDE DEF result
      <4>2. Judges(result, t)
        BY <1>1, <1>2, <2>1, <4>1 DEF Judges
      <4>. QED
        BY <4>2 DEF result
<1>4. CASE ~IsPrefix(ExitString, t)
  <2>1. Behind(t) = t
    BY <1>4 DEF Behind
  <2>2. \A i \in 1 .. Len(t) - 1 : t[i] /= Newline
    BY <1>2, <2>1 DEF ToSet, Bytes
  <2>3. ~HasExitLine(t)
    BY <1>4, <2>2, ExitLineOnlyFirst
  <2>4. <<>> \in Bytes /\ LineEnd(<<>>) /\ t = <<>> \o t
    BY ConcatEmptySeq DEF LineEnd, Bytes
  <2>. DEFINE result == [found |-> IsPrefix(ExitString, t), rest |-> Behind(t)]
  <2>5. result.found = FALSE /\ result.rest = t
    BY <1>4, <2>1 DEF IsPrefix
  <2>. HIDE DEF result
  <2>6. Judges(result, t)
    BY <1>2, <2>1, <2>3, <2>4, <2>5 DEF Judges
  <2>. QED
    BY <2>6 DEF result
<1>. QED
  BY <1>3, <1>4

\* Right about a text when it is right about what is behind its first line.
LEMMA JudgedOn ==
    ASSUME NEW t \in Bytes, HasNewline(Behind(t)), NEW next, Judges(next, RestOf(Behind(t)))
    PROVE  Judges([found |-> IsPrefix(ExitString, t) \/ next.found, rest |-> next.rest], t)
<1>. DEFINE line == LineOf(Behind(t)) \o <<Newline>>
            rest == RestOf(Behind(t))
<1>1. Behind(t) \in Bytes /\ rest \in Bytes /\ LineOf(Behind(t)) \in Bytes
  BY BehindParts, LineParts
<1>2. CASE IsPrefix(ExitString, t)
  BY <1>2, ExitLineFirst DEF Judges
<1>3. CASE ~IsPrefix(ExitString, t)
  <2>1. Behind(t) = t
    BY <1>3 DEF Behind
  <2>2. <<Newline>> \in Bytes /\ Len(<<Newline>>) = 1 /\ <<Newline>>[1] = Newline
    BY DEF Bytes, Newline
  <2>3. t = line \o rest
    <3>1. t = LineOf(t) \o (<<Newline>> \o RestOf(t))
      BY <2>1, LineParts
    <3>. QED
      <4>1. line \o rest = LineOf(t) \o (<<Newline>> \o rest)
        BY <1>1, <2>1, <2>2, Joins
      <4>. QED
        BY <2>1, <3>1, <4>1
  <2>4. /\ line \in Bytes /\ Len(line) = Len(LineOf(t)) + 1
        /\ line[Len(line)] = Newline
        /\ \A i \in 1 .. Len(LineOf(t)) : line[i] = LineOf(t)[i]
    BY <1>1, <2>1, <2>2, ConcatProperties DEF Bytes
  <2>5. LineEnd(line)
    BY <2>4 DEF LineEnd
  <2>6. \A i \in 1 .. Len(line) - 1 : line[i] /= Newline
    <3>1. Newline \notin ToSet(LineOf(t)) /\ Len(LineOf(t)) \in Nat
      BY <1>1, <2>1, LineParts DEF Bytes
    <3>2. \A i \in 1 .. Len(LineOf(t)) : LineOf(t)[i] /= Newline
      BY <3>1, <1>1, <2>1 DEF ToSet, Bytes
    <3>. QED
      BY <2>4, <3>1, <3>2
  <2>. HIDE DEF line, rest
  <2>7. ~HasExitLine(line)
    <3>1. SUFFICES ASSUME IsPrefix(ExitString, line)
                   PROVE  IsPrefix(ExitString, t)
      BY <1>3, <2>4, <2>6, ExitLineOnlyFirst
    <3>2. ExitString \in Bytes /\ rest \in Bytes
      BY <1>1, ExitStringFacts DEF rest
    <3>3. PICK s \in Bytes : line = ExitString \o s
      BY <2>4, <3>1, <3>2, PrefixIsCut
    <3>4. s \o rest \in Bytes /\ t = ExitString \o (s \o rest)
      <4>1. s \o rest \in Bytes /\ (ExitString \o s) \o rest = ExitString \o (s \o rest)
        <5>1. s \o rest \in Bytes
          BY <3>2, <3>3, Join
        <5>2. (ExitString \o s) \o rest = ExitString \o (s \o rest)
          BY <3>2, <3>3, Joins
        <5>. QED
          BY <5>1, <5>2
      <4>. QED
        BY <2>3, <3>3, <4>1
    <3>. QED
      BY <3>2, <3>4, PrefixIsCut
  <2>8. HasExitLine(t) <=> HasExitLine(rest)
    <3>1. rest \in Bytes
      BY <1>1 DEF rest
    <3>. QED
      BY <2>3, <2>4, <2>5, <2>7, <3>1, ExitLineOfJoin
  <2>9. ASSUME ~next.found
        PROVE  \E p \in Bytes : t = p \o next.rest /\ LineEnd(p)
    <3>1. PICK p \in Bytes : rest = p \o next.rest /\ LineEnd(p)
      BY <2>9 DEF Judges, rest
    <3>2. next.rest \in Bytes
      BY DEF Judges
    <3>3. line \o p \in Bytes /\ t = (line \o p) \o next.rest
      <4>1. line \o p \in Bytes /\ (line \o p) \o next.rest = line \o (p \o next.rest)
        <5>. DEFINE r == next.rest
        <5>1. r \in Bytes /\ line \in Bytes /\ p \in Bytes
          BY <2>4, <3>1, <3>2
        <5>. HIDE DEF r
        <5>2. line \o p \in Bytes /\ (line \o p) \o r = line \o (p \o r)
          <6>1. line \o p \in Bytes
            BY <5>1, Join
          <6>2. (line \o p) \o r = line \o (p \o r)
            BY <5>1, Joins
          <6>. QED
            BY <6>1, <6>2
        <5>. QED
          BY <5>2 DEF r
      <4>. QED
        BY <2>3, <3>1, <4>1
    <3>4. LineEnd(line \o p)
      <4>1. CASE p = <<>>
        BY <2>4, <2>5, <4>1, ConcatEmptySeq DEF Bytes
      <4>2. CASE p /= <<>>
        <5>1. (line \o p)[Len(line \o p)] = p[Len(p)]
          BY <2>4, <4>2, Join
        <5>. QED
          BY <3>1, <4>2, <5>1 DEF LineEnd
      <4>. QED
        BY <4>1, <4>2
    <3>. QED
      BY <3>3, <3>4
  <2>. QED
    BY <1>3, <2>8, <2>9 DEF Judges, rest
<1>. QED
  BY <1>2, <1>3

\* Matched() finds an exit string at the beginning of a line, when there is one; what
\* it keeps otherwise begins with a line, and holds none that was not compared.
LEMMA MatchedIs ==
    ASSUME NEW text \in Bytes
    PROVE  Judges(Matched(text), text)
<1>. DEFINE S == 0 .. Len(text)
            tail(n) == After(text, Len(text) - n)
            size == [n \in S |-> n]
<1>1. PICK scan : /\ Matched(text) = scan[Len(text)]
                  /\ \A n \in S : scan[n] = Scanned(text, scan, n)
  BY MatchedUnfolds
<1>. DEFINE T == {n \in S : Judges(scan[n], tail(n))}
<1>2. ASSUME NEW n \in S
      PROVE  tail(n) \in Bytes /\ Len(tail(n)) = n /\ \E p \in Bytes : text = p \o tail(n)
  <2>. DEFINE k == Len(text) - n
  <2>1. k \in 0 .. Len(text) /\ Len(text) - k = n
    BY DEF Bytes
  <2>. HIDE DEF k
  <2>2. FirstOf(text, k) \in Bytes /\ After(text, k) \in Bytes /\ Len(After(text, k)) = n
    BY <2>1, CutParts DEF Bytes
  <2>3. text = FirstOf(text, k) \o After(text, k)
    BY <2>1, CutJoins DEF Bytes
  <2>. QED
    BY <2>2, <2>3 DEF k
<1>3. ASSUME NEW n \in S, NEW p \in Bytes, NEW s \in Bytes, tail(n) = p \o s
      PROVE  Len(s) \in S /\ tail(Len(s)) = s
  <2>1. PICK q \in Bytes : text = q \o tail(n)
    BY <1>2
  <2>2. q \o p \in Bytes /\ text = (q \o p) \o s
    <3>1. q \o p \in Bytes /\ (q \o p) \o s = q \o (p \o s)
      <4>1. q \o p \in Bytes
        BY Join
      <4>2. (q \o p) \o s = q \o (p \o s)
        BY Joins
      <4>. QED
        BY <4>1, <4>2
    <3>. QED
      BY <1>3, <2>1, <3>1
  <2>3. Len(text) = Len(q \o p) + Len(s) /\ After(text, Len(q \o p)) = s
    BY <2>2, Join, CutJoined
  <2>4. Len(q \o p) \in Nat /\ Len(s) \in Nat
    BY <2>2 DEF Bytes
  <2>5. Len(text) - Len(s) = Len(q \o p) /\ Len(s) \in S
    BY <2>3, <2>4
  <2>. QED
    BY <2>3, <2>5
<1>. HIDE DEF tail
<1>4. ASSUME NEW n \in S, \A m \in S : size[m] < size[n] => m \in T
      PROVE  n \in T
  <2>. DEFINE t == tail(n)
              next == scan[Len(RestOf(Behind(t)))]
  <2>1. t \in Bytes /\ Len(t) = n
    BY <1>2
  <2>2. scan[n] =
            IF n < Size THEN [found |-> FALSE, rest |-> t]
            ELSE IF IndexOf(Behind(t), Newline) = 0
                 THEN [found |-> IsPrefix(ExitString, t), rest |-> Behind(t)]
            ELSE [found |-> IsPrefix(ExitString, t) \/ next.found, rest |-> next.rest]
    BY <1>1 DEF Scanned, Behind, Size, tail
  <2>3. Behind(t) \in Bytes
    BY <2>1, BehindParts
  <2>4. (IndexOf(Behind(t), Newline) = 0) <=> ~HasNewline(Behind(t))
    BY <2>3, FirstPlace DEF HasNewline, Bytes
  <2>5. ASSUME HasNewline(Behind(t))
        PROVE  Judges(next, RestOf(Behind(t)))
    <3>. DEFINE line == LineOf(Behind(t)) \o <<Newline>>
                rest == RestOf(Behind(t))
    <3>1. /\ LineOf(Behind(t)) \in Bytes /\ rest \in Bytes
          /\ Behind(t) = LineOf(Behind(t)) \o (<<Newline>> \o rest)
      BY <2>3, <2>5, LineParts
    <3>2. <<Newline>> \in Bytes
      BY DEF Bytes, Newline
    <3>3. line \in Bytes /\ Behind(t) = line \o rest
      <4>1. line \in Bytes /\ line \o rest = LineOf(Behind(t)) \o (<<Newline>> \o rest)
        <5>. DEFINE l == LineOf(Behind(t))
        <5>1. l \in Bytes /\ rest \in Bytes
          BY <3>1
        <5>. HIDE DEF l, rest
        <5>2. l \o <<Newline>> \in Bytes /\ (l \o <<Newline>>) \o rest = l \o (<<Newline>> \o rest)
          <6>1. l \o <<Newline>> \in Bytes
            BY <3>2, <5>1, Join
          <6>2. (l \o <<Newline>>) \o rest = l \o (<<Newline>> \o rest)
            BY <3>2, <5>1, Joins
          <6>. QED
            BY <6>1, <6>2
        <5>. QED
          BY <5>2 DEF l
      <4>. QED
        BY <3>1, <4>1
    <3>. HIDE DEF line, rest
    <3>4. PICK p \in Bytes : t = p \o Behind(t)
      BY <2>1, BehindParts
    <3>5. p \o line \in Bytes /\ t = (p \o line) \o rest
      <4>1. p \o line \in Bytes /\ (p \o line) \o rest = p \o (line \o rest)
        <5>1. p \o line \in Bytes
          BY <3>1, <3>3, Join
        <5>2. (p \o line) \o rest = p \o (line \o rest)
          BY <3>1, <3>3, Joins
        <5>. QED
          BY <5>1, <5>2
      <4>. QED
        BY <3>3, <3>4, <4>1
    <3>6. Len(rest) \in S /\ tail(Len(rest)) = rest
      BY <1>3, <3>1, <3>5
    <3>7. Len(rest) < n
      BY <2>1, <2>5, BehindParts DEF rest
    <3>8. Len(rest) \in T
      BY <1>4, <3>6, <3>7
    <3>. QED
      BY <3>6, <3>8 DEF rest
  <2>6. CASE n < Size
    BY <2>1, <2>2, <2>6, JudgedShort
  <2>7. CASE ~(n < Size) /\ ~HasNewline(Behind(t))
    BY <2>1, <2>2, <2>4, <2>7, JudgedWhole
  <2>8. CASE ~(n < Size) /\ HasNewline(Behind(t))
    <3>. HIDE DEF t, next
    <3>. QED
      BY <2>1, <2>2, <2>4, <2>5, <2>8, JudgedOn DEF t
  <2>. QED
    BY <2>6, <2>7, <2>8
<1>5. S \subseteq T
  <2>1. size \in [S -> Nat]
    BY DEF Bytes
  <2>. HIDE DEF S, T, size
  <2>2. Hereditary(T, S, size)
    BY <1>4 DEF Hereditary
  <2>. QED
    BY <2>1, <2>2, Induction
<1>6. Len(text) \in S /\ tail(Len(text)) = text
  <2>1. <<>> \in Bytes /\ Len(text) \in S
    BY DEF Bytes
  <2>2. Len(text) - Len(text) = 0
    BY <2>1 DEF Bytes
  <2>3. After(text, 0) = text
    BY SubSeqFull DEF After, Bytes
  <2>. QED
    BY <2>1, <2>2, <2>3 DEF tail
<1>. QED
  BY <1>1, <1>5, <1>6

-----------------------------------------------------------------------------
(* Ends of what was printed.                                                 *)

Ends(s, t) == \E p \in Bytes : t = p \o s

\* An end of a text without its first part is an end of it.
LEMMA EndsLess ==
    ASSUME NEW a \in Bytes, NEW s \in Bytes, NEW t, Ends(a \o s, t)
    PROVE  Ends(s, t)
<1>1. PICK p \in Bytes : t = p \o (a \o s)
  BY DEF Ends
<1>2. p \o a \in Bytes /\ (p \o a) \o s = p \o (a \o s)
  <2>1. p \o a \in Bytes
    BY Join
  <2>2. (p \o a) \o s = p \o (a \o s)
    BY Joins
  <2>. QED
    BY <2>1, <2>2
<1>. QED
  BY <1>1, <1>2 DEF Ends

\* An end of a text stays one when both get longer.
LEMMA EndsMore ==
    ASSUME NEW s \in Bytes, NEW u \in Bytes, NEW t, Ends(s, t)
    PROVE  Ends(s \o u, t \o u)
<1>1. PICK p \in Bytes : t = p \o s
  BY DEF Ends
<1>2. (p \o s) \o u = p \o (s \o u)
  BY Joins
<1>. QED
  BY <1>1, <1>2 DEF Ends

\* A text is an end of itself.
LEMMA EndsAll ==
    ASSUME NEW t \in Bytes
    PROVE  Ends(t, t)
BY Empty DEF Ends

\* What is left behind a line is the end of what was there.
LEMMA EndsRest ==
    ASSUME NEW text \in Bytes, NEW u \in Bytes, NEW t, Ends(text \o u, t)
    PROVE  Ends(RestOf(text) \o u, t)
<1>. DEFINE rest == RestOf(text)
<1>1. rest \in Bytes /\ LineOf(text) \in Bytes
  BY LineParts
<1>2. CASE HasNewline(text)
  <2>1. text = LineOf(text) \o (<<Newline>> \o rest)
    BY <1>2, LineParts
  <2>. DEFINE line == LineOf(text)
              nl == <<Newline>>
  <2>2. nl \in Bytes /\ line \in Bytes /\ rest \in Bytes
    BY <1>1, One DEF Newline
  <2>3. text = line \o (nl \o rest)
    BY <2>1
  <2>. HIDE DEF rest, line, nl
  <2>8. line \o nl \in Bytes
    BY <2>2, Join
  <2>9. (line \o nl) \o rest = line \o (nl \o rest)
    BY <2>2, Joins
  <2>. DEFINE front == line \o nl
  <2>4. front \in Bytes /\ text = front \o rest
    BY <2>3, <2>8, <2>9
  <2>. HIDE DEF front
  <2>5. (front \o rest) \o u = front \o (rest \o u) /\ rest \o u \in Bytes
    <3>1. rest \o u \in Bytes
      BY <1>1, <2>4, Join
    <3>2. (front \o rest) \o u = front \o (rest \o u)
      BY <1>1, <2>4, Joins
    <3>. QED
      BY <3>1, <3>2
  <2>6. Ends(front \o (rest \o u), t)
    BY <2>4, <2>5
  <2>7. Ends(rest \o u, t)
    BY <2>4, <2>5, <2>6, EndsLess
  <2>. QED
    BY <2>7 DEF rest
<1>3. CASE ~HasNewline(text)
  <2>1. rest = <<>> /\ rest \o u = u
    BY <1>3, LineParts, Empty
  <2>2. Ends(u, t)
    BY EndsLess
  <2>. QED
    BY <2>1, <2>2
<1>. QED
  BY <1>2, <1>3

\* read() takes from the terminal what readAll() puts behind the buffered part.
LEMMA AllIsRead ==
    ASSUME buffer \in Bytes, tty \in Bytes, NEW n \in Chunks
    PROVE  /\ ReadAll(n) \in Bytes /\ After(tty, n) \in Bytes
           /\ ReadAll(n) \o After(tty, n) = buffer \o tty
           /\ FirstOf(tty, n) \in Bytes /\ tty = FirstOf(tty, n) \o After(tty, n)
<1>1. n \in 0 .. Len(tty)
  BY DEF Chunks, Bytes
<1>2. /\ FirstOf(tty, n) \in Bytes /\ After(tty, n) \in Bytes
      /\ tty = FirstOf(tty, n) \o After(tty, n)
  BY <1>1, Cut
<1>. DEFINE a == FirstOf(tty, n)
            b == After(tty, n)
<1>3. a \in Bytes /\ b \in Bytes /\ tty = a \o b
  BY <1>2
<1>. HIDE DEF a, b
<1>4. buffer \o a \in Bytes /\ (buffer \o a) \o b = buffer \o (a \o b)
  <2>1. buffer \o a \in Bytes
    BY <1>3, Join
  <2>2. (buffer \o a) \o b = buffer \o (a \o b)
    BY <1>3, Joins
  <2>. QED
    BY <2>1, <2>2
<1>. QED
  BY <1>2, <1>3, <1>4 DEF ReadAll, a, b

\* A text with an exit line keeps it when more comes.
LEMMA ExitLineStays ==
    ASSUME NEW a \in Bytes, NEW b \in Bytes, HasExitLine(a)
    PROVE  HasExitLine(a \o b)
<1>. DEFINE t == a \o b
<1>1. /\ t \in Bytes /\ Len(t) = Len(a) + Len(b) /\ Len(a) \in Nat /\ Len(b) \in Nat
      /\ \A i \in 1 .. Len(a) : t[i] = a[i]
  BY Join
<1>2. PICK k \in 0 .. Len(a) : StartsAt(a, k) /\ HitAt(a, k)
  BY ExitLineAt
<1>3. Size \in Nat
  BY ExitStringFacts
<1>. HIDE DEF t
<1>4. k + Size <= Len(t) /\ \A i \in 1 .. Size : k + i \in 1 .. Len(a)
  BY <1>1, <1>2, <1>3 DEF HitAt
<1>5. HitAt(t, k)
  BY <1>1, <1>2, <1>4 DEF HitAt
<1>6. StartsAt(t, k) /\ k \in 0 .. Len(t)
  BY <1>1, <1>2 DEF StartsAt
<1>. QED
  BY <1>1, <1>5, <1>6, ExitLineAt DEF t

-----------------------------------------------------------------------------
(* Nothing is dropped on the way, and the exit string is found.              *)

FlowTypes ==
    /\ tty \in Bytes /\ printed \in Bytes /\ buffer \in Bytes
    /\ copied \in Bytes /\ remainder \in Bytes
    /\ at \in {"header", "login", "talk", "failed", "select", "drain", "check", "returned"}
    /\ signalled \in BOOLEAN

\* The header that was put back is no output: behind it the output goes on.
PutBack == \E r \in Bytes :
    buffer = Header \o (<<Newline>> \o r) /\ Ends(r \o tty, printed)

Kept == Ends(copied \o (buffer \o tty), printed)

\* What is kept for the next look begins with a line, as long as nothing was found.
Remembered ==
    ~signalled => \E p \in Bytes : copied = p \o remainder /\ LineEnd(p)

Flow ==
    /\ FlowTypes
    /\ at = "login" => PutBack
    /\ at /= "login" => Kept
    /\ at \in {"header", "login", "talk", "failed"} =>
          copied = <<>> /\ remainder = <<>> /\ ~signalled
    /\ signalled <=> HasExitLine(copied)
    /\ Remembered
    /\ Newline \in ToSet(remainder) => Len(remainder) < Size

\* Nothing was read or printed at first.
LEMMA FlowInit == Init => Flow
<1>. SUFFICES ASSUME Init
              PROVE  Flow
  OBVIOUS
<1>1. <<>> \in Bytes /\ <<>> \o <<>> = <<>>
  BY Empty
<1>2. ~HasExitLine(<<>>)
  <2>1. Len(<<>>) = 0
    OBVIOUS
  <2>. QED
    BY <1>1, <2>1, ExitLineLength, ExitStringFacts
<1>3. FlowTypes
  BY <1>1 DEF Init, FlowTypes
<1>4. Kept
  BY <1>1, EndsAll DEF Init, Kept
<1>5. Remembered
  BY <1>1 DEF Init, Remembered, LineEnd
<1>6. Newline \notin ToSet(remainder)
  BY DEF Init, ToSet
<1>. QED
  BY <1>2, <1>3, <1>4, <1>5, <1>6 DEF Init, Flow

\* More output, of whatever program.
LEMMA FlowPrints ==
    ASSUME Flow, NEW text \in Bytes, Prints(text), UNCHANGED parentVars
    PROVE  Flow'
<1>1. tty' = tty \o text /\ printed' = printed \o text
  BY DEF Prints
<1>2. FlowTypes
  BY DEF Flow
<1>3. FlowTypes'
  <2>1. tty \o text \in Bytes /\ printed \o text \in Bytes
    BY <1>2, Join DEF FlowTypes
  <2>. QED
    BY <1>1, <1>2, <2>1 DEF FlowTypes, parentVars
<1>4. ASSUME at = "login"
      PROVE  PutBack'
  <2>1. PICK r \in Bytes : buffer = Header \o (<<Newline>> \o r) /\ Ends(r \o tty, printed)
    BY <1>4 DEF Flow, PutBack
  <2>2. r \o tty \in Bytes /\ (r \o tty) \o text = r \o (tty \o text)
    <3>1. r \o tty \in Bytes
      BY <1>2, Join DEF FlowTypes
    <3>2. (r \o tty) \o text = r \o (tty \o text)
      BY <1>2, Joins DEF FlowTypes
    <3>. QED
      BY <3>1, <3>2
  <2>3. Ends((r \o tty) \o text, printed \o text)
    BY <2>1, <2>2, EndsMore
  <2>4. Ends(r \o tty', printed')
    BY <1>1, <2>2, <2>3
  <2>. QED
    BY <2>1, <2>4 DEF PutBack, parentVars
<1>5. ASSUME at /= "login"
      PROVE  Kept'
  <2>. DEFINE left0 == buffer \o tty
  <2>1. left0 \in Bytes /\ copied \in Bytes /\ copied \o left0 \in Bytes
    BY <1>2, Join DEF FlowTypes
  <2>2. Ends((copied \o left0) \o text, printed \o text)
    BY <1>5, <2>1, EndsMore DEF Flow, Kept
  <2>3. (buffer \o tty) \o text = buffer \o (tty \o text)
    BY <1>2, Joins DEF FlowTypes
  <2>4. left0 \o text = buffer \o (tty \o text)
    BY <2>3
  <2>. HIDE DEF left0
  <2>5. (copied \o left0) \o text = copied \o (left0 \o text)
    BY <2>1, Joins
  <2>. QED
    BY <1>1, <2>2, <2>4, <2>5 DEF Kept, parentVars
<1>. QED
  BY <1>3, <1>4, <1>5 DEF Flow, Remembered, parentVars

\* A step that prints and reads nothing.
LEMMA FlowSame ==
    ASSUME Flow, UNCHANGED <<tty, printed, parentVars>>
    PROVE  Flow'
<1>. USE DEF parentVars
<1>1. FlowTypes' /\ (at' = "login" => PutBack') /\ (at' /= "login" => Kept')
  BY DEF Flow, FlowTypes, PutBack, Kept
<1>. QED
  BY <1>1 DEF Flow, Remembered

\* readLine() takes a line; in the login phase the one that was put back.
LEMMA FlowRead ==
    ASSUME Flow, ReadLine
    PROVE  Flow'
<1>1. PICK n \in Chunks : TakeLine(ReadAll(n)) /\ tty' = After(tty, n)
  BY DEF ReadLine
<1>. DEFINE text == ReadAll(n)
            more == FirstOf(tty, n)
<1>2. /\ at \in {"header", "login", "talk"}
      /\ UNCHANGED <<printed, copied, remainder, signalled>>
  BY DEF ReadLine
<1>3. FlowTypes /\ copied = <<>> /\ remainder = <<>> /\ ~signalled
  BY <1>2 DEF Flow
<1>4. /\ text \in Bytes /\ tty' \in Bytes /\ text \o tty' = buffer \o tty
      /\ more \in Bytes /\ tty = more \o tty'
  BY <1>1, <1>3, AllIsRead DEF FlowTypes
<1>5. RestOf(text) \in Bytes /\ Header \in Bytes /\ Newline \notin ToSet(Header)
  BY <1>4, LineParts, TextAssumption
<1>6. TakeLine(text)
  BY <1>1
<1>7. at \in {"header", "talk"} => Ends(RestOf(text) \o tty', printed)
  <2>. SUFFICES ASSUME at \in {"header", "talk"}
                PROVE  Ends(RestOf(text) \o tty', printed)
    OBVIOUS
  <2>1. Ends(copied \o (buffer \o tty), printed)
    BY DEF Flow, Kept
  <2>2. buffer \o tty \in Bytes
    BY <1>3, Join DEF FlowTypes
  <2>3. Ends(text \o tty', printed)
    BY <1>3, <1>4, <2>1, <2>2, Empty
  <2>. HIDE DEF text
  <2>. QED
    BY <1>4, <2>3, EndsRest
<1>8. ASSUME at = "login"
      PROVE  LineOf(text) = Header /\ Ends(RestOf(text) \o tty', printed)
  <2>1. PICK r \in Bytes : buffer = Header \o (<<Newline>> \o r) /\ Ends(r \o tty, printed)
    BY <1>8 DEF Flow, PutBack
  <2>2. r \o more \in Bytes /\ (r \o more) \o tty' = r \o (more \o tty')
    <3>. HIDE DEF more
    <3>1. r \o more \in Bytes
      BY <1>4, Join
    <3>2. (r \o more) \o tty' = r \o (more \o tty')
      BY <1>4, Joins
    <3>. QED
      BY <3>1, <3>2
  <2>3. text = Header \o (<<Newline>> \o (r \o more))
    <3>1. text = buffer \o more
      BY DEF ReadAll
    <3>. HIDE DEF more, text
    <3>2. <<Newline>> \in Bytes
      BY One DEF Newline
    <3>. DEFINE tail == <<Newline>> \o r
    <3>3. tail \in Bytes /\ tail \o more = <<Newline>> \o (r \o more)
      <4>1. tail \in Bytes
        BY <1>4, <3>2, Join
      <4>2. tail \o more = <<Newline>> \o (r \o more)
        BY <1>4, <3>2, Joins
      <4>. QED
        BY <4>1, <4>2
    <3>4. buffer = Header \o tail
      BY <2>1
    <3>. HIDE DEF tail
    <3>5. (Header \o tail) \o more = Header \o (tail \o more)
      <4>1. Header \in Bytes /\ tail \in Bytes /\ more \in Bytes
        BY <1>4, <1>5, <3>3
      <4>. QED
        BY <4>1, Joins
    <3>. QED
      BY <3>1, <3>3, <3>4, <3>5
  <2>4. LineOf(text) = Header /\ RestOf(text) = r \o more
    <3>. HIDE DEF text, more
    <3>. QED
      BY <1>5, <2>2, <2>3, LineIs
  <2>. QED
    BY <1>4, <2>1, <2>2, <2>4
<1>9. /\ at' = "login" => at = "header" /\ buffer' = Header \o (<<Newline>> \o RestOf(text))
      /\ at' /= "login" => buffer' = RestOf(text)
      /\ at' \in {"header", "login", "talk", "failed", "select"}
  <2>. HIDE DEF text
  <2>1. CASE at = "header"
    <3>1. Header \o <<Newline>> \o RestOf(text) = Header \o (<<Newline>> \o RestOf(text))
      <4>. DEFINE rest == RestOf(text)
      <4>1. <<Newline>> \in Bytes /\ rest \in Bytes
        BY <1>5, One DEF Newline
      <4>. HIDE DEF rest
      <4>2. (Header \o <<Newline>>) \o rest = Header \o (<<Newline>> \o rest)
        BY <1>5, <4>1, Joins
      <4>. QED
        BY <4>2 DEF rest
    <3>. QED
      BY <1>6, <2>1, <3>1 DEF TakeLine
  <2>2. CASE at = "login"
    BY <1>6, <1>8, <2>2 DEF TakeLine
  <2>3. CASE at = "talk"
    BY <1>6, <2>3 DEF TakeLine
  <2>. QED
    BY <1>2, <2>1, <2>2, <2>3
<1>10. buffer' \in Bytes
  <2>. DEFINE rest == RestOf(text)
  <2>1. <<Newline>> \in Bytes /\ rest \in Bytes
    BY <1>5, One DEF Newline
  <2>2. Header \o (<<Newline>> \o rest) \in Bytes
    <3>. HIDE DEF rest
    <3>1. <<Newline>> \o rest \in Bytes
      BY <2>1, Join
    <3>. DEFINE tail == <<Newline>> \o rest
    <3>. HIDE DEF tail
    <3>2. Header \o tail \in Bytes
      BY <1>5, <3>1, Join DEF tail
    <3>. QED
      BY <3>2 DEF tail
  <2>. QED
    BY <1>9, <2>1, <2>2
<1>. HIDE DEF text, more
<1>11. FlowTypes'
  BY <1>2, <1>3, <1>4, <1>9, <1>10 DEF FlowTypes
<1>12. at' = "login" => PutBack'
  BY <1>2, <1>5, <1>7, <1>9 DEF PutBack
<1>13. at' /= "login" => Kept'
  <2>. SUFFICES ASSUME at' /= "login"
                PROVE  Kept'
    OBVIOUS
  <2>1. Ends(RestOf(text) \o tty', printed) /\ buffer' = RestOf(text)
    BY <1>2, <1>7, <1>8, <1>9
  <2>2. RestOf(text) \o tty' \in Bytes
    <3>. DEFINE rest == RestOf(text)
    <3>1. rest \in Bytes
      BY <1>5
    <3>. HIDE DEF rest
    <3>2. rest \o tty' \in Bytes
      BY <1>4, <3>1, Join
    <3>. QED
      BY <3>2 DEF rest
  <2>3. copied' \o (buffer' \o tty') = RestOf(text) \o tty'
    BY <1>2, <1>3, <2>1, <2>2, Empty
  <2>. QED
    BY <1>2, <2>1, <2>3 DEF Kept
<1>14. Remembered'
  BY <1>2 DEF Flow, Remembered
<1>. QED
  BY <1>2, <1>3, <1>9, <1>11, <1>12, <1>13, <1>14 DEF Flow

\* waitForChild() reads, copies and looks for the exit string.
LEMMA FlowDrain ==
    ASSUME Flow, Drain
    PROVE  Flow'
<1>1. PICK n \in Chunks :
          LET output == ReadAll(n)
              match  == Matched(remainder \o output)
          IN  /\ tty' = After(tty, n)
              /\ buffer' = <<>>
              /\ IF output = <<>>
                 THEN at' = "check" /\ UNCHANGED <<copied, remainder, signalled>>
                 ELSE /\ copied' = copied \o output
                      /\ remainder' = match.rest
                      /\ signalled' = (signalled \/ match.found)
                      /\ UNCHANGED at
  BY DEF Drain
<1>. DEFINE output == ReadAll(n)
            text == remainder \o output
            match == Matched(text)
<1>2. at = "drain" /\ UNCHANGED printed
  BY DEF Drain
<1>3. /\ FlowTypes /\ Ends(copied \o (buffer \o tty), printed)
      /\ signalled <=> HasExitLine(copied)
      /\ Remembered
      /\ Newline \in ToSet(remainder) => Len(remainder) < Size
  BY <1>2 DEF Flow, Kept
<1>4. output \in Bytes /\ tty' \in Bytes /\ output \o tty' = buffer \o tty /\ buffer' = <<>>
  BY <1>1, <1>3, AllIsRead DEF FlowTypes
<1>5. text \in Bytes
  <2>. HIDE DEF output
  <2>. QED
    BY <1>3, <1>4, Join DEF FlowTypes
<1>6. Judges(match, text)
  <2>. HIDE DEF text
  <2>. QED
    BY <1>5, MatchedIs
<1>7. <<>> \in Bytes /\ buffer' \o tty' = tty'
  BY <1>4, Empty
<1>8. CASE output = <<>>
  <2>1. at' = "check" /\ UNCHANGED <<copied, remainder, signalled>>
    BY <1>1, <1>8
  <2>2. tty' = buffer \o tty
    BY <1>4, <1>8, Empty
  <2>3. FlowTypes'
    BY <1>2, <1>3, <1>4, <1>7, <2>1 DEF FlowTypes
  <2>4. Kept'
    BY <1>2, <1>3, <1>7, <2>1, <2>2 DEF Kept
  <2>5. Remembered'
    BY <1>3, <2>1 DEF Remembered
  <2>. QED
    BY <1>3, <2>1, <2>3, <2>4, <2>5 DEF Flow
<1>9. CASE output /= <<>>
  <2>1. /\ copied' = copied \o output /\ remainder' = match.rest
        /\ signalled' = (signalled \/ match.found) /\ at' = "drain"
    BY <1>1, <1>2, <1>9
  <2>. HIDE DEF output, match
  <2>2. copied' \in Bytes
    BY <1>3, <1>4, <2>1, Join DEF FlowTypes
  <2>3. FlowTypes'
    BY <1>2, <1>3, <1>4, <1>6, <1>7, <2>1, <2>2 DEF FlowTypes, Judges
  <2>4. Kept'
    <3>1. (copied \o output) \o tty' = copied \o (output \o tty')
      BY <1>3, <1>4, Joins DEF FlowTypes
    <3>. QED
      BY <1>2, <1>3, <1>4, <1>7, <2>1, <3>1 DEF Kept
  <2>5. CASE signalled
    <3>1. HasExitLine(copied \o output)
      BY <1>3, <1>4, <2>5, ExitLineStays DEF FlowTypes
    <3>. QED
      BY <1>6, <2>1, <2>3, <2>4, <2>5, <3>1 DEF Flow, Remembered, Judges
  <2>6. CASE ~signalled
    <3>1. PICK p \in Bytes : copied = p \o remainder /\ LineEnd(p)
      BY <1>3, <2>6 DEF Remembered
    <3>2. ~HasExitLine(p)
      BY <1>3, <2>6, <3>1, ExitLineStays DEF FlowTypes
    <3>3. copied' = p \o text
      <4>1. remainder \in Bytes /\ output \in Bytes
        BY <1>3, <1>4 DEF FlowTypes
      <4>2. (p \o remainder) \o output = p \o (remainder \o output)
        BY <4>1, Joins
      <4>. QED
        BY <2>1, <3>1, <4>2
    <3>. HIDE DEF text
    <3>4. HasExitLine(copied') <=> HasExitLine(text)
      BY <1>5, <3>1, <3>2, <3>3, ExitLineOfJoin
    <3>5. signalled' <=> HasExitLine(copied')
      BY <1>6, <2>1, <2>6, <3>4 DEF Judges
    <3>6. ASSUME ~signalled'
          PROVE  \E q \in Bytes : copied' = q \o remainder' /\ LineEnd(q)
      <4>1. PICK q \in Bytes : text = q \o match.rest /\ LineEnd(q)
        BY <1>6, <2>1, <3>6 DEF Judges
      <4>2. p \o q \in Bytes
        BY <3>1, <4>1, Join
      <4>3. copied' = (p \o q) \o remainder'
        <5>1. remainder' \in Bytes
          BY <2>3 DEF FlowTypes
        <5>2. (p \o q) \o remainder' = p \o (q \o remainder')
          BY <3>1, <4>1, <5>1, Joins
        <5>. QED
          BY <2>1, <3>3, <4>1, <5>2
      <4>4. LineEnd(p \o q)
        <5>1. CASE q = <<>>
          BY <3>1, <5>1, Empty
        <5>2. CASE q /= <<>>
          BY <4>1, <5>2, Join DEF LineEnd
        <5>. QED
          BY <5>1, <5>2
      <4>. QED
        BY <4>2, <4>3, <4>4
    <3>7. Newline \in ToSet(remainder') => Len(remainder') < Size
      BY <1>6, <2>1 DEF Judges
    <3>8. Remembered'
      BY <3>6 DEF Remembered
    <3>. QED
      BY <2>1, <2>3, <2>4, <3>5, <3>7, <3>8 DEF Flow
  <2>. QED
    BY <2>5, <2>6
<1>. QED
  BY <1>8, <1>9

\* The steps of waitForChild() that read nothing.
LEMMA FlowWait ==
    ASSUME Flow, Select \/ TimeOut \/ Check
    PROVE  Flow'
<1>1. /\ at' \in {"select", "drain", "check", "returned"}
      /\ at \in {"select", "drain", "check", "returned"}
      /\ UNCHANGED <<tty, printed, buffer, copied, remainder, signalled>>
  BY DEF Select, TimeOut, Check, WaitFor
<1>2. FlowTypes' /\ Kept' /\ Remembered'
  BY <1>1 DEF Flow, FlowTypes, Kept, Remembered
<1>. QED
  BY <1>1, <1>2 DEF Flow

\* readLine() has nothing to read any more.
LEMMA FlowNoLine ==
    ASSUME Flow, NoLine
    PROVE  Flow'
<1>1. /\ at \in {"header", "login", "talk"} /\ at' = "failed" /\ buffer \o tty = <<>>
      /\ UNCHANGED <<tty, printed, buffer, copied, remainder, signalled>>
  BY DEF NoLine
<1>2. at /= "login"
  <2>. SUFFICES ASSUME at = "login"
                PROVE  FALSE
    OBVIOUS
  <2>1. PICK r \in Bytes : buffer = Header \o (<<Newline>> \o r)
    BY DEF Flow, PutBack
  <2>2. buffer \in Bytes /\ HasNewline(buffer)
    BY <2>1, LineIs, TextAssumption
  <2>3. buffer = LineOf(buffer) \o (<<Newline>> \o RestOf(buffer))
        /\ Len(RestOf(buffer)) < Len(buffer) /\ RestOf(buffer) \in Bytes
    BY <2>2, LineParts
  <2>4. Len(buffer) > 0 /\ Len(tty) \in Nat /\ Len(buffer \o tty) = Len(buffer) + Len(tty)
    BY <2>2, <2>3, Join DEF Flow, FlowTypes, Bytes
  <2>5. Len(<<>>) = 0
    OBVIOUS
  <2>. QED
    BY <1>1, <2>4, <2>5
<1>3. FlowTypes' /\ Kept' /\ Remembered'
  BY <1>1, <1>2 DEF Flow, FlowTypes, Kept, Remembered
<1>. QED
  BY <1>1, <1>3 DEF Flow

\* Every step keeps it.
LEMMA FlowNext == Flow /\ [Next]_vars => Flow'
<1>. SUFFICES ASSUME Flow, [Next]_vars
              PROVE  Flow'
  OBVIOUS
<1>1. ASSUME NEW text \in {Header, AskCommand, AskEnvironment, End}
      PROVE  Append(text, Newline) \in Bytes
  BY TextAssumption, AppendProperties DEF Bytes, Newline
<1>2. CASE Notice
  <2>1. PICK text \in Notices : Prints(text)
    BY <1>2 DEF Notice
  <2>2. text \in Bytes /\ UNCHANGED parentVars
    BY <1>2, TextAssumption DEF Notice
  <2>. QED
    BY <2>1, <2>2, FlowPrints
<1>3. CASE Asks
  <2>1. PICK text \in {Header, AskCommand, AskEnvironment, End} : PrintsLine(text)
    BY <1>3 DEF Asks
  <2>2. Prints(Append(text, Newline)) /\ UNCHANGED parentVars
    BY <1>3, <2>1 DEF Asks, PrintsLine
  <2>3. Append(text, Newline) \in Bytes
    BY <1>1
  <2>. QED
    BY <2>2, <2>3, FlowPrints
<1>4. CASE CommandPrints
  <2>1. PICK text \in Outputs : Prints(text)
    BY <1>4 DEF CommandPrints
  <2>2. text \in Bytes /\ UNCHANGED parentVars
    BY <1>4, TextAssumption DEF CommandPrints
  <2>. QED
    BY <2>1, <2>2, FlowPrints
<1>5. CASE Reads \/ ChildEnds \/ LastCloses \/ UNCHANGED vars
  <2>1. UNCHANGED <<tty, printed, parentVars>>
    BY <1>5 DEF Reads, ChildEnds, LastCloses, vars
  <2>. QED
    BY <2>1, FlowSame
<1>6. CASE ReadLine
  BY <1>6, FlowRead
<1>7. CASE NoLine
  BY <1>7, FlowNoLine
<1>8. CASE Drain
  BY <1>8, FlowDrain
<1>9. CASE Select \/ TimeOut \/ Check
  BY <1>9, FlowWait
<1>. QED
  BY <1>2, <1>3, <1>4, <1>5, <1>6, <1>7, <1>8, <1>9 DEF Next, OtherSide, Process

\* Nothing is dropped on the way, and the exit string is found, in every reachable
\* state (ptyprocess.cpp:175-249, 455-473).
THEOREM FlowHolds == Spec => []Flow
<1>. QED
  BY FlowInit, FlowNext, PTL DEF Spec

\* The child is signalled if and only if a line of what was read begins with the exit
\* string, in however many parts the line came: what is kept of one look begins with
\* a line, so that an exit string begins a line of all that was read if and only if
\* it begins one of what is looked at.
THEOREM SignalledForLineHolds == Spec => []SignalledForLine
<1>1. Flow => SignalledForLine
  BY DEF Flow, SignalledForLine
<1>. QED
  BY <1>1, FlowHolds, PTL

\* What waitForChild() has read and what is left is the end of all output: readLine()
\* and unreadLine() lose nothing that they had read ahead.
THEOREM NothingDroppedHolds == Spec => []NothingDropped
<1>1. ASSUME Flow, Waiting \/ at = "returned"
      PROVE  IsSuffix(copied \o buffer \o tty, printed)
  <2>1. Ends(copied \o (buffer \o tty), printed) /\ FlowTypes
    BY <1>1 DEF Flow, Kept, Waiting
  <2>2. copied \o buffer \in Bytes
    BY <2>1, Join DEF FlowTypes
  <2>3. (copied \o buffer) \o tty \in Bytes
    BY <2>1, <2>2, Join DEF FlowTypes
  <2>4. (copied \o buffer) \o tty = copied \o (buffer \o tty)
    BY <2>1, Joins DEF FlowTypes
  <2>5. PICK p \in Bytes : printed = p \o ((copied \o buffer) \o tty)
    BY <2>1, <2>4 DEF Ends
  <2>. QED
    BY <2>3, <2>5, SuffixOfJoin DEF Bytes
<1>2. Flow => NothingDropped
  BY <1>1 DEF NothingDropped
<1>. QED
  BY <1>2, FlowHolds, PTL

-----------------------------------------------------------------------------
(* What writeString() writes.                                                *)

Written(str) == [i \in DOMAIN str |-> WrittenChar(str[i])]

\* What writeString() makes of one character has no newline, and no Delete of its own.
LEMMA WrittenCharIs ==
    ASSUME NEW c \in Byte
    PROVE  /\ WrittenChar(c) \in Bytes
           /\ Newline \notin ToSet(WrittenChar(c))
           /\ c /= Delete => Delete \notin ToSet(WrittenChar(c))
<1>1. CASE c < 32
  <2>1. WrittenChar(c) = <<Backslash, c + At>> /\ c + At \in 64 .. 95
    <3>1. WrittenChar(c) = <<Backslash, c + At>>
      <4>1. c /= Backslash
        BY <1>1 DEF Backslash, Byte
      <4>. QED
        BY <1>1, <4>1 DEF WrittenChar
    <3>2. c + At \in 64 .. 95
      BY <1>1 DEF Byte, At
    <3>. QED
      BY <3>1, <3>2
  <2>2. Backslash = 92 /\ Backslash \in 0 .. 255 /\ c + At \in 0 .. 255
    BY <2>1 DEF Backslash
  <2>3. ToSet(WrittenChar(c)) = {Backslash, c + At}
    BY <2>1 DEF ToSet
  <2>4. WrittenChar(c) \in Bytes
    BY <2>1, <2>2 DEF Bytes
  <2>. QED
    BY <2>1, <2>2, <2>3, <2>4 DEF Newline, Delete
<1>2. CASE c = Backslash
  <2>1. WrittenChar(c) = <<Backslash, Slash>>
    BY <1>2 DEF WrittenChar, Backslash
  <2>2. ToSet(WrittenChar(c)) = {Backslash, Slash}
    BY <2>1 DEF ToSet
  <2>3. WrittenChar(c) \in Bytes
    BY <2>1 DEF Bytes, Backslash, Slash
  <2>. QED
    BY <2>2, <2>3 DEF Newline, Delete, Backslash, Slash
<1>3. CASE ~(c < 32) /\ c /= Backslash
  <2>1. WrittenChar(c) = <<c>>
    BY <1>3 DEF WrittenChar, Byte
  <2>2. ToSet(WrittenChar(c)) = {c}
    BY <2>1 DEF ToSet
  <2>3. WrittenChar(c) \in Bytes
    BY <2>1 DEF Bytes, Byte
  <2>. QED
    BY <1>3, <2>2, <2>3 DEF Newline, Byte
<1>. QED
  BY <1>1, <1>2, <1>3

\* A string is written character by character, and a newline behind it.
LEMMA WrittenIs ==
    ASSUME NEW str \in Bytes
    PROVE  /\ Written(str) \in Seq(Bytes) /\ Len(Written(str)) = Len(str)
           /\ \A i \in 1 .. Len(str) : Written(str)[i] = WrittenChar(str[i]) /\ str[i] \in Byte
           /\ WriteString(str) = FlattenSeq(Written(str)) \o <<Newline>>
<1>1. DOMAIN str = 1 .. Len(str) /\ Len(str) \in Nat
  BY DEF Bytes
<1>2. ASSUME NEW i \in 1 .. Len(str)
      PROVE  str[i] \in Byte /\ WrittenChar(str[i]) \in Bytes
  <2>1. str[i] \in Byte
    BY ElementOfSeq DEF Bytes, Byte
  <2>. QED
    BY <2>1, WrittenCharIs
<1>3. Written(str) = [i \in 1 .. Len(str) |-> WrittenChar(str[i])]
  BY <1>1 DEF Written
<1>4. Written(str) \in Seq(Bytes)
  BY <1>1, <1>2, <1>3, IsASeq
<1>5. Len(Written(str)) = Len(str)
  BY <1>1, <1>3, <1>4
<1>. QED
  BY <1>2, <1>3, <1>4, <1>5 DEF WriteString, Written

\* No character of the joined texts that none of them has.
LEMMA FlattenedFree ==
    ASSUME NEW texts \in Seq(Bytes), NEW joined, IsFlattened(joined, texts, 0 .. 255), NEW c,
           \A i \in 1 .. Len(texts) : c \notin ToSet(texts[i])
    PROVE  FlattenSeq(texts) \in Bytes /\ c \notin ToSet(FlattenSeq(texts))
<1>. DEFINE T == {i \in 0 .. Len(texts) : c \notin ToSet(joined[i])}
<1>1. 0 \in T
  BY DEF IsFlattened, ToSet
<1>2. ASSUME NEW i \in 1 .. Len(texts), i - 1 \in T
      PROVE  i \in T
  <2>. DEFINE a == joined[i - 1]
              b == texts[i]
  <2>1. joined[i] = a \o b
    BY DEF IsFlattened, Bytes
  <2>2. a \in Bytes /\ b \in Bytes
    <3>1. i - 1 \in 0 .. Len(texts)
      OBVIOUS
    <3>2. b \in Bytes
      BY ElementOfSeq
    <3>. QED
      BY <3>1, <3>2 DEF IsFlattened, Bytes
  <2>3. c \notin ToSet(a) /\ c \notin ToSet(b)
    BY <1>2
  <2>. HIDE DEF a, b
  <2>4. c \notin ToSet(a \o b)
    <3>1. /\ Len(a) \in Nat /\ Len(b) \in Nat /\ Len(a \o b) = Len(a) + Len(b)
          /\ \A k \in 1 .. Len(a) + Len(b) : (a \o b)[k] = IF k <= Len(a) THEN a[k] ELSE b[k - Len(a)]
      BY <2>2, ConcatProperties DEF Bytes
    <3>2. \A k \in 1 .. Len(a) : a[k] /= c
      BY <2>2, <2>3 DEF ToSet, Bytes
    <3>3. \A k \in 1 .. Len(b) : b[k] /= c
      BY <2>2, <2>3 DEF ToSet, Bytes
    <3>4. \A k \in 1 .. Len(a) + Len(b) : (a \o b)[k] /= c
      <4>. TAKE k \in 1 .. Len(a) + Len(b)
      <4>1. CASE k <= Len(a)
        BY <3>1, <3>2, <4>1
      <4>2. CASE ~(k <= Len(a))
        <5>1. k - Len(a) \in 1 .. Len(b)
          BY <3>1, <4>2
        <5>. QED
          BY <3>1, <3>3, <4>2, <5>1
      <4>. QED
        BY <4>1, <4>2
    <3>5. DOMAIN (a \o b) = 1 .. Len(a) + Len(b)
      <4>1. a \o b \in Bytes
        BY <2>2, Join
      <4>. QED
        BY <3>1, <4>1 DEF Bytes
    <3>. QED
      BY <3>4, <3>5 DEF ToSet
  <2>5. i \in 0 .. Len(texts)
    OBVIOUS
  <2>. QED
    BY <2>1, <2>4, <2>5
<1>3. Len(texts) \in Nat
  OBVIOUS
<1>. HIDE DEF T
<1>4. 0 .. Len(texts) \subseteq T
  BY <1>1, <1>2, <1>3, Upward
<1>5. Len(texts) \in T
  BY <1>3, <1>4
<1>. QED
  BY <1>3, <1>5 DEF T, IsFlattened, Bytes

\* writeString() writes one line, and only a string with a Delete makes one in it.
LEMMA WriteStringIs ==
    ASSUME NEW str \in Bytes
    PROVE  /\ FlattenSeq(Written(str)) \in Bytes
           /\ Newline \notin ToSet(FlattenSeq(Written(str)))
           /\ Delete \notin ToSet(str) => Delete \notin ToSet(FlattenSeq(Written(str)))
           /\ WriteString(str) \in Bytes
<1>. DEFINE texts == Written(str)
<1>1. texts \in Seq(Bytes) /\ Len(texts) = Len(str)
      /\ \A i \in 1 .. Len(str) : texts[i] = WrittenChar(str[i]) /\ str[i] \in Byte
  BY WrittenIs
<1>2. WriteString(str) = FlattenSeq(texts) \o <<Newline>> /\ <<Newline>> \in Bytes
  <2>1. <<Newline>> \in Bytes
    BY One DEF Newline
  <2>. QED
    BY <2>1, WrittenIs
<1>. HIDE DEF texts
<1>3. PICK joined : IsFlattened(joined, texts, 0 .. 255)
  BY <1>1, FlattenUnfolds DEF Bytes
<1>4. \A i \in 1 .. Len(texts) : Newline \notin ToSet(texts[i])
  BY <1>1, WrittenCharIs
<1>5. FlattenSeq(texts) \in Bytes /\ Newline \notin ToSet(FlattenSeq(texts))
  BY <1>1, <1>3, <1>4, FlattenedFree
<1>6. ASSUME Delete \notin ToSet(str)
      PROVE  Delete \notin ToSet(FlattenSeq(texts))
  <2>1. \A i \in 1 .. Len(str) : str[i] /= Delete
    BY <1>6 DEF ToSet, Bytes
  <2>2. \A i \in 1 .. Len(texts) : Delete \notin ToSet(texts[i])
    BY <1>1, <2>1, WrittenCharIs
  <2>. QED
    BY <1>1, <1>3, <2>2, FlattenedFree
<1>7. WriteString(str) \in Bytes
  BY <1>2, <1>5, Join
<1>. QED
  BY <1>5, <1>6, <1>7 DEF texts

-----------------------------------------------------------------------------
(* What the line discipline makes of it.                                     *)

\* All but the last character is a cut.
LEMMA FrontIs ==
    ASSUME NEW str \in Bytes, str /= <<>>
    PROVE  Front(str) \in Bytes /\ Front(str) = FirstOf(str, Len(str) - 1)
<1>. DEFINE n == Len(str) - 1
<1>1. n \in 0 .. Len(str)
  BY EmptySeq DEF Bytes
<1>2. Front(str) = SubSeq(str, 1, n)
  BY DEF Front
<1>. HIDE DEF n
<1>3. FirstOf(str, n) \in Bytes /\ FirstOf(str, n) = SubSeq(str, 1, n)
  BY <1>1, Cut
<1>. QED
  BY <1>2, <1>3 DEF n

Edit(line, c) ==
    IF c /= Delete THEN Append(line, c) ELSE IF line = <<>> THEN <<>> ELSE Front(line)

\* One character more of a line that is edited.
LEMMA EditIs ==
    ASSUME NEW line \in Bytes, NEW c \in Byte
    PROVE  Edit(line, c) \in Bytes
<1>1. Append(line, c) \in Bytes
  BY AppendProperties DEF Bytes, Byte
<1>2. line /= <<>> => Front(line) \in Bytes
  BY FrontIs
<1>. QED
  BY <1>1, <1>2 DEF Edit

IsEdited(line, str) ==
    /\ line[0] = <<>>
    /\ \A n \in 1 .. Len(str) : line[n] = Edit(line[n - 1], str[n])
    /\ Edited(str) = line[Len(str)]

\* The line discipline takes one character after the other, at any length.
LEMMA EditedUnfolds ==
    ASSUME NEW str \in Bytes
    PROVE  \E line : IsEdited(line, str)
<1>. DEFINE S == 0 .. Len(str)
            Body(g, n) == IF n = 0 THEN <<>> ELSE Edit(g[n - 1], str[n])
            step == [p \in [S -> Bytes] \X S |-> Body(p[1], p[2])]
            size == [n \in S |-> n]
            B(g) == [n \in S |-> Body(g, n)]
            f == CHOOSE g : g = B(g)
<1>1. ASSUME NEW n \in S, n /= 0
      PROVE  str[n] \in Byte /\ n - 1 \in S /\ n - 1 < n
  <2>1. n \in 1 .. Len(str)
    BY <1>1
  <2>2. str \in Seq(Byte)
    BY DEF Bytes, Byte
  <2>3. str[n] \in Byte
    BY <2>1, <2>2, ElementOfSeq
  <2>. QED
    BY <2>1, <2>3
<1>2. step \in [[S -> Bytes] \X S -> Bytes]
  <2>1. ASSUME NEW g \in [S -> Bytes], NEW n \in S
        PROVE  Body(g, n) \in Bytes
    <3>1. CASE n = 0
      BY <3>1, Empty
    <3>2. CASE n /= 0
      <4>1. g[n - 1] \in Bytes /\ str[n] \in Byte
        BY <1>1, <3>2
      <4>. QED
        BY <3>2, <4>1, EditIs
    <3>. QED
      BY <3>1, <3>2
  <2>. HIDE DEF Body, S
  <2>. QED
    BY <2>1
<1>3. Decides(step, S, Bytes, size)
  <2>1. ASSUME NEW n \in S, NEW g \in [S -> Bytes], NEW h \in [S -> Bytes],
               \A r \in S : size[r] < size[n] => g[r] = h[r]
        PROVE  step[<<g, n>>] = step[<<h, n>>]
    <3>1. n /= 0 => g[n - 1] = h[n - 1]
      BY <1>1, <2>1
    <3>2. Body(g, n) = Body(h, n)
      BY <3>1
    <3>3. step[<<g, n>>] = Body(g, n) /\ step[<<h, n>>] = Body(h, n)
      <4>. HIDE DEF Body, S
      <4>. QED
        OBVIOUS
    <3>. QED
      BY <3>2, <3>3
  <2>. HIDE DEF step, S, size
  <2>. QED
    BY <2>1 DEF Decides
<1>4. \E g : g = B(g)
  <2>1. size \in [S -> Nat] /\ Bytes /= {}
    BY Empty
  <2>. HIDE DEF step, S, size
  <2>2. PICK g \in [S -> Bytes] : Unfolds(g, step, S)
    BY <1>2, <1>3, <2>1, Recursion
  <2>3. \A n \in S : g[n] = step[<<g, n>>]
    BY <2>2 DEF Unfolds
  <2>. HIDE DEF Body
  <2>4. \A n \in S : g[n] = Body(g, n)
    BY <2>3 DEF step
  <2>5. g = B(g)
    BY <2>4
  <2>. QED
    BY <2>5
<1>5. f = B(f)
  <2>. HIDE DEF B
  <2>. QED
    BY <1>4
<1>6. Edited(str) = f[Len(str)]
  BY DEF Edited, Edit
<1>. HIDE DEF f
<1>7. \A n \in S : f[n] = Body(f, n)
  <2>. HIDE DEF Body, S
  <2>. QED
    BY <1>5
<1>8. 0 \in S /\ \A n \in 1 .. Len(str) : n \in S /\ n /= 0
  BY DEF Bytes
<1>9. f[0] = <<>> /\ \A n \in 1 .. Len(str) : f[n] = Edit(f[n - 1], str[n])
  <2>. HIDE DEF S
  <2>. QED
    BY <1>7, <1>8
<1>. QED
  BY <1>6, <1>9 DEF IsEdited

\* A line without a Delete reaches the stub as it was typed.
LEMMA EditedIs ==
    ASSUME NEW str \in Bytes
    PROVE  Edited(str) \in Bytes /\ (Delete \notin ToSet(str) => Edited(str) = str)
<1>. DEFINE n0 == Len(str)
<1>1. PICK line : IsEdited(line, str)
  BY EditedUnfolds
<1>. DEFINE P(n) == line[n] \in Bytes /\ (Delete \notin ToSet(str) => line[n] = FirstOf(str, n))
            T == {n \in 0 .. n0 : P(n)}
<1>2. n0 \in Nat /\ DOMAIN str = 1 .. n0
  BY DEF Bytes
<1>3. 0 \in T
  <2>1. 0 \in 0 .. n0
    BY <1>2
  <2>2. FirstOf(str, 0) = <<>>
    BY <1>2, SubSeqEmpty DEF FirstOf, Bytes
  <2>3. line[0] = <<>> /\ <<>> \in Bytes
    BY <1>1, Empty DEF IsEdited
  <2>. QED
    BY <2>1, <2>2, <2>3
<1>4. ASSUME NEW n \in 1 .. n0, n - 1 \in T
      PROVE  n \in T
  <2>1. n \in 0 .. n0 /\ n - 1 \in 0 .. n0
    BY <1>2
  <2>2. str[n] \in Byte
    <3>1. str \in Seq(Byte) /\ n \in 1 .. Len(str)
      BY DEF Bytes, Byte
    <3>. QED
      BY <3>1, ElementOfSeq
  <2>3. line[n] = Edit(line[n - 1], str[n])
    BY <1>1 DEF IsEdited
  <2>4. line[n - 1] \in Bytes /\ (Delete \notin ToSet(str) => line[n - 1] = FirstOf(str, n - 1))
    <3>1. P(n - 1)
      <4>. HIDE DEF P
      <4>. QED
        BY <1>4
    <3>. QED
      BY <3>1
  <2>5. line[n] \in Bytes
    BY <2>2, <2>3, <2>4, EditIs
  <2>6. ASSUME Delete \notin ToSet(str)
        PROVE  line[n] = FirstOf(str, n)
    <3>1. line[n - 1] = FirstOf(str, n - 1)
      BY <2>4, <2>6
    <3>2. str[n] /= Delete
      BY <1>2, <2>6 DEF ToSet
    <3>3. line[n] = Append(FirstOf(str, n - 1), str[n])
      BY <2>3, <3>1, <3>2 DEF Edit
    <3>4. FirstOf(str, n) = SubSeq(str, 1, n)
      BY <2>1, Cut
    <3>5. FirstOf(str, n - 1) = SubSeq(str, 1, n - 1)
      <4>. DEFINE k == n - 1
      <4>1. k \in 0 .. Len(str)
        BY <2>1
      <4>. HIDE DEF k
      <4>2. FirstOf(str, k) = SubSeq(str, 1, k)
        BY <4>1, Cut
      <4>. QED
        BY <4>2 DEF k
    <3>6. SubSeq(str, 1, n) = SubSeq(str, 1, n - 1) \o <<str[n]>>
      <4>1. 1 \in 1 .. Len(str) /\ n \in 1 .. Len(str)
        BY <1>2
      <4>. QED
        BY <4>1, SubSeqRecursiveSecond DEF Bytes
    <3>7. Append(SubSeq(str, 1, n - 1), str[n]) = SubSeq(str, 1, n - 1) \o <<str[n]>>
      <4>1. SubSeq(str, 1, n - 1) \in Seq(Byte)
        <5>1. line[n - 1] \in Seq(Byte)
          BY <2>4 DEF Bytes, Byte
        <5>. QED
          BY <3>1, <3>5, <5>1
      <4>. QED
        BY <2>2, <4>1, AppendIsConcat
    <3>. QED
      BY <3>3, <3>4, <3>5, <3>6, <3>7
  <2>. QED
    BY <2>1, <2>5, <2>6
<1>. HIDE DEF T
<1>5. 0 .. n0 \subseteq T
  <2>. HIDE DEF n0
  <2>. QED
    BY <1>2, <1>3, <1>4, Upward
<1>6. n0 \in T
  BY <1>2, <1>5
<1>7. FirstOf(str, n0) = str
  BY SubSeqFull DEF FirstOf, Bytes
<1>8. line[n0] \in Bytes /\ (Delete \notin ToSet(str) => line[n0] = FirstOf(str, n0))
  <2>1. P(n0)
    <3>. HIDE DEF P
    <3>. QED
      BY <1>6 DEF T
  <2>. QED
    BY <2>1
<1>. QED
  BY <1>1, <1>7, <1>8 DEF IsEdited

-----------------------------------------------------------------------------
(* What dequote() makes of it.                                               *)

\* A char array without a NUL is all of it.
LEMMA UpToNulIs ==
    ASSUME NEW bytes \in Bytes
    PROVE  UpToNul(bytes) \in Bytes /\ (Nul \notin ToSet(bytes) => UpToNul(bytes) = bytes)
<1>. DEFINE n == IndexOf(bytes, Nul)
<1>1. n \in 0 .. Len(bytes) /\ (n > 0 => bytes[n] = Nul)
  BY FirstPlace DEF Bytes
<1>2. CASE n = 0
  BY <1>2 DEF UpToNul
<1>3. CASE n /= 0
  <2>1. UpToNul(bytes) = FirstOf(bytes, n - 1)
    BY <1>3 DEF UpToNul
  <2>. DEFINE k == n - 1
  <2>2. k \in 0 .. Len(bytes)
    BY <1>1, <1>3
  <2>3. Nul \in ToSet(bytes)
    BY <1>1, <1>3 DEF ToSet, Bytes
  <2>. HIDE DEF n, k
  <2>4. FirstOf(bytes, k) \in Bytes
    BY <2>2, Cut
  <2>. QED
    BY <2>1, <2>3, <2>4 DEF k
<1>. QED
  BY <1>2, <1>3

Dequoted(str, from, i) ==
    IF i > Len(str) THEN <<>>
    ELSE IF str[i] /= Backslash \/ i = Len(str) THEN <<str[i]>> \o from[i + 1]
    ELSE IF str[i + 1] = Slash THEN <<Backslash>> \o from[i + 2]
    ELSE <<(str[i + 1] - At) % 256>> \o from[i + 2]

IsDequoted(from, str) ==
    /\ \A i \in 1 .. Len(str) + 1 : from[i] = Dequoted(str, from, i)
    /\ Dequote(str) = UpToNul(from[1])

\* One step looks at one or two characters, and at what follows them.
LEMMA DequotedStep ==
    ASSUME NEW str \in Bytes, NEW i \in 1 .. Len(str) + 1, NEW from,
           \A r \in 1 .. Len(str) + 1 : r > i => from[r] \in Bytes
    PROVE  Dequoted(str, from, i) \in Bytes
<1>1. \A k \in 1 .. Len(str) : str[k] \in 0 .. 255
  BY ElementOfSeq DEF Bytes
<1>2. Len(str) \in Nat
  BY DEF Bytes
<1>3. CASE i > Len(str)
  BY <1>3, Empty DEF Dequoted
<1>4. CASE ~(i > Len(str)) /\ (str[i] /= Backslash \/ i = Len(str))
  <2>0. i \in 1 .. Len(str) /\ i + 1 \in 1 .. Len(str) + 1 /\ i + 1 > i
    BY <1>2, <1>4
  <2>1. from[i + 1] \in Bytes /\ str[i] \in 0 .. 255
    BY <1>1, <2>0
  <2>2. <<str[i]>> \in Bytes
    BY <2>1, One
  <2>3. <<str[i]>> \o from[i + 1] \in Bytes
    BY <2>1, <2>2, Join
  <2>. QED
    BY <1>4, <2>3 DEF Dequoted
<1>5. CASE ~(i > Len(str)) /\ ~(str[i] /= Backslash \/ i = Len(str))
  <2>0. i + 1 \in 1 .. Len(str) /\ i + 2 \in 1 .. Len(str) + 1 /\ i + 2 > i
    BY <1>2, <1>5
  <2>1. from[i + 2] \in Bytes /\ str[i + 1] \in 0 .. 255
    BY <1>1, <2>0
  <2>. DEFINE c == (str[i + 1] - At) % 256
  <2>2. c \in 0 .. 255
    <3>. DEFINE d == str[i + 1]
    <3>1. d \in 0 .. 255
      BY <2>1
    <3>. HIDE DEF d
    <3>2. d - At \in Int
      BY <3>1 DEF At
    <3>3. (d - At) % 256 \in 0 .. 255
      <4>. DEFINE y == d - At
      <4>1. y \in Int
        BY <3>2
      <4>. HIDE DEF y
      <4>2. y % 256 \in 0 .. 255
        BY <4>1
      <4>. QED
        BY <4>2 DEF y
    <3>. QED
      BY <3>3 DEF d
  <2>3. <<Backslash>> \in Bytes
    BY One DEF Backslash
  <2>. HIDE DEF c
  <2>4. <<c>> \in Bytes
    BY <2>2, One
  <2>5. <<c>> \o from[i + 2] \in Bytes
    BY <2>1, <2>4, Join
  <2>6. <<Backslash>> \o from[i + 2] \in Bytes
    BY <2>1, <2>3, Join
  <2>. QED
    BY <1>5, <2>5, <2>6 DEF Dequoted, c
<1>. QED
  BY <1>3, <1>4, <1>5

\* dequote() goes through the string from the left, at any length.
LEMMA DequoteUnfolds ==
    ASSUME NEW str \in Bytes
    PROVE  \E from : IsDequoted(from, str)
<1>. DEFINE S == 1 .. Len(str) + 1
            step == [p \in [S -> Bytes] \X S |-> Dequoted(str, p[1], p[2])]
            size == [i \in S |-> Len(str) + 1 - i]
            B(g) == [i \in S |-> Dequoted(str, g, i)]
            f == CHOOSE g : g = B(g)
<1>1. Len(str) \in Nat
  BY DEF Bytes
<1>2. step \in [[S -> Bytes] \X S -> Bytes]
  <2>1. ASSUME NEW g \in [S -> Bytes], NEW i \in S
        PROVE  Dequoted(str, g, i) \in Bytes
    BY DequotedStep
  <2>. HIDE DEF S
  <2>. QED
    BY <2>1
<1>3. Decides(step, S, Bytes, size)
  <2>1. ASSUME NEW i \in S, NEW g \in [S -> Bytes], NEW h \in [S -> Bytes],
               \A r \in S : size[r] < size[i] => g[r] = h[r]
        PROVE  step[<<g, i>>] = step[<<h, i>>]
    <3>1. i <= Len(str) => g[i + 1] = h[i + 1]
      <4>. SUFFICES ASSUME i <= Len(str)
                    PROVE  g[i + 1] = h[i + 1]
        OBVIOUS
      <4>1. i + 1 \in S /\ size[i + 1] < size[i]
        BY <1>1
      <4>. QED
        BY <2>1, <4>1
    <3>2. i < Len(str) => g[i + 2] = h[i + 2]
      <4>. SUFFICES ASSUME i < Len(str)
                    PROVE  g[i + 2] = h[i + 2]
        OBVIOUS
      <4>1. i + 2 \in S /\ size[i + 2] < size[i]
        BY <1>1
      <4>. QED
        BY <2>1, <4>1
    <3>3. Dequoted(str, g, i) = Dequoted(str, h, i)
      BY <1>1, <3>1, <3>2 DEF Dequoted
    <3>4. step[<<g, i>>] = Dequoted(str, g, i) /\ step[<<h, i>>] = Dequoted(str, h, i)
      <4>. HIDE DEF S
      <4>. QED
        OBVIOUS
    <3>. QED
      BY <3>3, <3>4
  <2>. HIDE DEF step, S, size
  <2>. QED
    BY <2>1 DEF Decides
<1>4. \E g : g = B(g)
  <2>1. size \in [S -> Nat] /\ Bytes /= {}
    BY <1>1, Empty
  <2>. HIDE DEF step, S, size
  <2>2. PICK g \in [S -> Bytes] : Unfolds(g, step, S)
    BY <1>2, <1>3, <2>1, Recursion
  <2>3. \A i \in S : g[i] = step[<<g, i>>]
    BY <2>2 DEF Unfolds
  <2>4. \A i \in S : g[i] = Dequoted(str, g, i)
    BY <2>3 DEF step
  <2>5. g = B(g)
    BY <2>4
  <2>. QED
    BY <2>5
<1>5. f = B(f)
  <2>. HIDE DEF B
  <2>. QED
    BY <1>4
<1>6. Dequote(str) = UpToNul(f[1])
  BY DEF Dequote, Dequoted
<1>. HIDE DEF f
<1>7. \A i \in S : f[i] = Dequoted(str, f, i)
  <2>. HIDE DEF S
  <2>. QED
    BY <1>5
<1>. QED
  BY <1>6, <1>7 DEF IsDequoted

\* dequote() makes bytes of bytes.
LEMMA DequoteIsBytes ==
    ASSUME NEW str \in Bytes
    PROVE  Dequote(str) \in Bytes
<1>. DEFINE S == 1 .. Len(str) + 1
            size == [i \in S |-> Len(str) + 1 - i]
<1>1. PICK from : IsDequoted(from, str)
  BY DequoteUnfolds
<1>. DEFINE T == {i \in S : from[i] \in Bytes}
<1>2. Len(str) \in Nat
  BY DEF Bytes
<1>3. ASSUME NEW i \in S, \A r \in S : size[r] < size[i] => r \in T
      PROVE  i \in T
  <2>1. ASSUME NEW r \in S, r > i
        PROVE  from[r] \in Bytes
    <3>1. size[r] < size[i]
      BY <1>2, <2>1
    <3>2. r \in T
      BY <1>3, <3>1
    <3>. QED
      BY <3>2
  <2>2. Dequoted(str, from, i) \in Bytes
    BY <2>1, DequotedStep
  <2>3. from[i] = Dequoted(str, from, i)
    BY <1>1 DEF IsDequoted
  <2>. QED
    BY <2>2, <2>3
<1>4. size \in [S -> Nat] /\ 1 \in S
  BY <1>2
<1>. HIDE DEF S, size, T
<1>5. S \subseteq T
  BY <1>3, <1>4, Induction DEF Hereditary
<1>6. from[1] \in Bytes
  BY <1>4, <1>5 DEF T
<1>. QED
  BY <1>1, <1>6, UpToNulIs DEF IsDequoted

\* xstrdup() takes away one newline at the end, and nothing else.
LEMMA StrippedIs ==
    ASSUME NEW str \in Bytes
    PROVE  /\ Stripped(str) \in Bytes
           /\ str = <<>> \/ str[Len(str)] /= Newline => Stripped(str) = str
           /\ Stripped(str \o <<Newline>>) = str
<1>1. Stripped(str) \in Bytes
  BY FrontIs DEF Stripped
<1>2. str = <<>> \/ str[Len(str)] /= Newline => Stripped(str) = str
  BY DEF Stripped, Last
<1>3. Stripped(str \o <<Newline>>) = str
  <2>. DEFINE nl == <<Newline>>
              s == str \o nl
  <2>1. nl \in Bytes /\ Len(nl) = 1 /\ nl /= <<>> /\ nl[Len(nl)] = Newline
    BY One DEF Newline
  <2>. HIDE DEF nl
  <2>2. s \in Bytes /\ s /= <<>> /\ s[Len(s)] = Newline /\ Len(s) = Len(str) + 1 /\ Len(str) \in Nat
    BY <2>1, Join
  <2>3. FirstOf(s, Len(str)) = str
    BY <2>1, CutJoined
  <2>. HIDE DEF s
  <2>4. Front(s) = FirstOf(s, Len(s) - 1) /\ Len(s) - 1 = Len(str)
    BY <2>2, FrontIs
  <2>5. Front(s) = str
    BY <2>3, <2>4
  <2>. QED
    BY <2>2, <2>5 DEF Stripped, Last, s, nl
<1>. QED
  BY <1>1, <1>2, <1>3

-----------------------------------------------------------------------------
(* Types.                                                                    *)

Stage == {"login", "start", "ok", "ask", "command", "environment", "variables",
          "done", "run", "gone"}

JobTypes ==
    /\ torn \in Tearing /\ command \in Commands /\ variable \in Variables \cup {None}
    /\ child \in Stage /\ left \in 0 .. MaxOutputs /\ attached \in BOOLEAN

\* What is typed and what the stub has read are bytes.
Strings == typed \in Bytes /\ got \in Seq(Bytes)

\* What exec() types is bytes.
LEMMA WriteStrings ==
    ASSUME JobTypes
    PROVE  /\ WriteString(command) \in Bytes
           /\ (IF variable = None THEN <<>> ELSE WriteString(variable)) \in Bytes
           /\ <<111, 107, Newline>> \in Bytes
<1>1. command \in Bytes
  BY TextAssumption DEF JobTypes
<1>2. variable /= None => variable \in Bytes
  BY TextAssumption DEF JobTypes
<1>. DEFINE w == IF variable = None THEN <<>> ELSE WriteString(variable)
<1>3. w \in Bytes
  BY <1>2, WriteStringIs, Empty
<1>6. <<111, 107, Newline>> \in Bytes
  BY DEF Bytes, Newline
<1>. QED
  BY <1>1, <1>3, <1>6, WriteStringIs

\* What the stub makes of a line is bytes.
LEMMA ReadIsBytes ==
    ASSUME NEW line \in Bytes
    PROVE  /\ Dequote(Stripped(line)) \in Bytes
           /\ Stripped(Dequote(line)) \in Bytes
BY StrippedIs, DequoteIsBytes

\* Every step keeps the types of what is passed.
LEMMA StringsKept ==
    ASSUME JobTypes, Strings, [Next]_vars
    PROVE  JobTypes' /\ Strings'
<1>1. CASE Notice \/ Asks
  BY <1>1 DEF Notice, Asks, JobTypes, Strings, Stage, job, parentVars
<1>2. CASE Reads
  <2>. DEFINE n == IndexOf(typed, Newline)
              line == Edited(FirstOf(typed, n))
  <2>1. n \in 0 .. Len(typed)
    BY FirstPlace DEF Strings, Bytes
  <2>2. typed \in Bytes /\ got \in Seq(Bytes)
    BY DEF Strings
  <2>3. FirstOf(typed, n) \in Bytes /\ After(typed, n) \in Bytes
    <3>. HIDE DEF n
    <3>. QED
      BY <2>1, <2>2, Cut
  <2>4. line \in Bytes
    BY <2>3, EditedIs
  <2>5. Dequote(Stripped(line)) \in Bytes /\ Stripped(Dequote(line)) \in Bytes
    <3>. HIDE DEF line
    <3>. QED
      BY <2>4, ReadIsBytes
  <2>6. /\ child' \in {"ask", "environment", "done", child}
        /\ got' = got \/ got' = Append(got, Dequote(Stripped(line)))
           \/ got' = Append(got, Stripped(Dequote(line)))
        /\ typed' = After(typed, n)
        /\ UNCHANGED <<job, left, attached>>
    BY <1>2 DEF Reads
  <2>. HIDE DEF line, n
  <2>7. got' \in Seq(Bytes)
    BY <2>2, <2>5, <2>6, AppendProperties
  <2>8. Strings'
    BY <2>3, <2>6, <2>7 DEF Strings
  <2>9. JobTypes'
    BY <2>6 DEF JobTypes, Stage, job
  <2>. QED
    BY <2>8, <2>9
<1>3. CASE CommandPrints
  <2>1. left > 0 /\ left' = left - 1 /\ UNCHANGED <<job, child, attached, got, typed>>
    BY <1>3 DEF CommandPrints
  <2>2. left' \in 0 .. MaxOutputs
    BY <2>1, PtyAssumption DEF JobTypes
  <2>. QED
    BY <2>1, <2>2 DEF JobTypes, Strings, job
<1>4. CASE ChildEnds \/ LastCloses
  BY <1>4 DEF ChildEnds, LastCloses, JobTypes, Strings, Stage, job
<1>5. CASE ReadLine
  <2>1. PICK n \in Chunks : TakeLine(ReadAll(n))
    BY <1>5 DEF ReadLine
  <2>2. UNCHANGED <<job, childVars>>
    BY <1>5 DEF ReadLine
  <2>. DEFINE w == IF variable = None THEN <<>> ELSE WriteString(variable)
  <2>3. \/ UNCHANGED typed
        \/ typed' = typed \o <<111, 107, Newline>>
        \/ typed' = typed \o WriteString(command)
        \/ typed' = typed \o w \o <<Newline>>
    BY <1>5, <2>1 DEF TakeLine, ReadLine
  <2>4. <<111, 107, Newline>> \in Bytes /\ WriteString(command) \in Bytes /\ w \in Bytes
    BY WriteStrings
  <2>. HIDE DEF w
  <2>5. <<Newline>> \in Bytes
    BY One DEF Newline
  <2>6. typed \o w \in Bytes
    BY <2>4, Join DEF Strings
  <2>7. typed \o w \o <<Newline>> \in Bytes
    BY <2>5, <2>6, Join
  <2>8. typed' \in Bytes
    BY <2>3, <2>4, <2>7, Join DEF Strings
  <2>. QED
    BY <2>2, <2>8 DEF JobTypes, Strings, job, childVars
<1>6. CASE NoLine \/ Select \/ TimeOut \/ Drain \/ Check \/ UNCHANGED vars
  <2>1. UNCHANGED <<job, childVars, typed>>
    BY <1>6 DEF NoLine, Select, TimeOut, Drain, Check, vars
  <2>. QED
    BY <2>1 DEF JobTypes, Strings, job, childVars
<1>. QED
  BY <1>1, <1>2, <1>3, <1>4, <1>5, <1>6 DEF Next, OtherSide, Process

\* The types of what is passed, at first.
LEMMA TypesInit == Init => JobTypes /\ Strings
<1>1. ASSUME Init
      PROVE  JobTypes
  <2>1. left \in 0 .. MaxOutputs
    BY <1>1, PtyAssumption DEF Init
  <2>. QED
    BY <1>1, <2>1 DEF Init, JobTypes, Stage
<1>2. ASSUME Init
      PROVE  Strings
  BY <1>2, Empty DEF Init, Strings
<1>. QED
  BY <1>1, <1>2

\* Every text is one of bytes, the strings that the stub has read among them; and the
\* remainder never holds a whole line that was not compared.
THEOREM PtyTypeCorrect == Spec => []TypeOK
<1>1. JobTypes /\ Strings /\ [Next]_vars => JobTypes' /\ Strings'
  BY StringsKept
<1>2. Flow /\ JobTypes /\ Strings => TypeOK
  BY DEF Flow, FlowTypes, JobTypes, Strings, Stage, TypeOK, Size
<1>. QED
  BY <1>1, <1>2, TypesInit, FlowHolds, PTL DEF Spec

-----------------------------------------------------------------------------
(* dequote() undoes writeString().                                           *)

\* dequote() takes back what writeString() made of one character.
LEMMA DequoteChar ==
    ASSUME NEW a \in Bytes, NEW c \in Byte, NEW q \in Bytes, NEW from
    PROVE  Dequoted(a \o (WrittenChar(c) \o q), from, Len(a) + 1)
               = <<c>> \o from[Len(a) + Len(WrittenChar(c)) + 1]
<1>. DEFINE w == WrittenChar(c)
            b == w \o q
            text == a \o b
            m == Len(a)
<1>1. w \in Bytes
  BY WrittenCharIs
<1>2. /\ b \in Bytes /\ Len(b) = Len(w) + Len(q) /\ Len(w) \in Nat /\ Len(q) \in Nat
      /\ \A k \in 1 .. Len(w) : b[k] = w[k]
  <2>. HIDE DEF w
  <2>. QED
    BY <1>1, Join
<1>3. /\ text \in Bytes /\ Len(text) = m + Len(b) /\ m \in Nat
      /\ \A k \in 1 .. Len(b) : text[m + k] = b[k]
  <2>. HIDE DEF b
  <2>1. /\ Len(text) = m + Len(b) /\ m \in Nat /\ Len(b) \in Nat
        /\ \A k \in 1 .. m + Len(b) : text[k] = IF k <= m THEN a[k] ELSE b[k - m]
    BY <1>2, Joined
  <2>2. ASSUME NEW k \in 1 .. Len(b)
        PROVE  text[m + k] = b[k]
    <3>1. m + k \in 1 .. m + Len(b) /\ ~(m + k <= m) /\ m + k - m = k
      BY <2>1
    <3>. QED
      BY <2>1, <3>1
  <2>3. text \in Bytes
    BY <1>2, Join
  <2>. QED
    BY <2>1, <2>2, <2>3
<1>. HIDE DEF text, b, m
<1>4. ASSUME NEW k \in 1 .. Len(w)
      PROVE  text[m + k] = w[k] /\ m + k <= Len(text)
  BY <1>2, <1>3
<1>5. CASE c < 32
  <2>1. w = <<Backslash, c + At>>
    <3>1. c /= Backslash
      BY <1>5 DEF Backslash, Byte
    <3>. QED
      BY <1>5, <3>1 DEF WrittenChar
  <2>2. Len(w) = 2 /\ w[1] = Backslash /\ w[2] = c + At
    BY <2>1
  <2>. HIDE DEF w
  <2>3. /\ text[m + 1] = Backslash /\ text[m + 2] = c + At
        /\ m + 2 <= Len(text) /\ m \in Nat /\ Len(text) \in Nat
    <3>1. 1 \in 1 .. Len(w) /\ 2 \in 1 .. Len(w)
      BY <2>2
    <3>2. text[m + 1] = w[1] /\ text[m + 2] = w[2] /\ m + 2 <= Len(text)
      BY <1>4, <3>1
    <3>. QED
      BY <1>2, <1>3, <2>2, <3>2
  <2>4. c + At /= Slash /\ (c + At - At) % 256 = c
    BY <1>5 DEF At, Slash, Byte
  <2>5. ~(m + 1 > Len(text)) /\ m + 1 /= Len(text) /\ m + 1 + 1 = m + 2 /\ m + 1 + 2 = m + 2 + 1
    BY <2>3
  <2>6. Dequoted(text, from, m + 1) = <<(text[m + 2] - At) % 256>> \o from[m + 2 + 1]
    BY <2>3, <2>4, <2>5 DEF Dequoted
  <2>7. (text[m + 2] - At) % 256 = c
    <3>. DEFINE e == text[m + 2]
    <3>1. e = c + 64 /\ c \in 0 .. 255 /\ c < 32
      BY <1>5, <2>3 DEF At, Byte
    <3>. HIDE DEF e
    <3>2. (e - 64) % 256 = c
      BY <3>1
    <3>. QED
      BY <3>2 DEF e, At
  <2>9. m + 2 + 1 = m + Len(w) + 1
    BY <2>2, <2>3
  <2>8. Dequoted(text, from, m + 1) = <<c>> \o from[m + Len(w) + 1]
    BY <2>6, <2>7, <2>9
  <2>. QED
    BY <2>8 DEF text, b, m, w
<1>6. CASE c = Backslash
  <2>1. w = <<Backslash, Slash>>
    BY <1>6 DEF WrittenChar, Backslash
  <2>2. Len(w) = 2 /\ w[1] = Backslash /\ w[2] = Slash
    BY <2>1
  <2>. HIDE DEF w
  <2>3. /\ text[m + 1] = Backslash /\ text[m + 2] = Slash
        /\ m + 2 <= Len(text) /\ m \in Nat /\ Len(text) \in Nat
    <3>1. 1 \in 1 .. Len(w) /\ 2 \in 1 .. Len(w)
      BY <2>2
    <3>2. text[m + 1] = w[1] /\ text[m + 2] = w[2] /\ m + 2 <= Len(text)
      BY <1>4, <3>1
    <3>. QED
      BY <1>2, <1>3, <2>2, <3>2
  <2>5. ~(m + 1 > Len(text)) /\ m + 1 /= Len(text) /\ m + 1 + 1 = m + 2 /\ m + 1 + 2 = m + 2 + 1
    BY <2>3
  <2>6. Dequoted(text, from, m + 1) = <<Backslash>> \o from[m + 2 + 1]
    BY <2>3, <2>5 DEF Dequoted
  <2>. QED
    BY <1>6, <2>2, <2>6 DEF text, b, m, w
<1>7. CASE ~(c < 32) /\ c /= Backslash
  <2>1. w = <<c>>
    BY <1>7 DEF WrittenChar, Byte
  <2>2. Len(w) = 1 /\ w[1] = c
    BY <2>1
  <2>. HIDE DEF w
  <2>3. text[m + 1] = c /\ m + 1 <= Len(text) /\ m \in Nat /\ Len(text) \in Nat
    <3>1. 1 \in 1 .. Len(w)
      BY <2>2
    <3>2. text[m + 1] = w[1] /\ m + 1 <= Len(text)
      BY <1>4, <3>1
    <3>. QED
      BY <1>2, <1>3, <2>2, <3>2
  <2>4. ~(m + 1 > Len(text))
    BY <2>3
  <2>5. Dequoted(text, from, m + 1) = <<c>> \o from[m + 1 + 1]
    BY <1>7, <2>3, <2>4 DEF Dequoted
  <2>. QED
    BY <2>2, <2>5 DEF text, b, m, w
<1>. QED
  BY <1>5, <1>6, <1>7

\* dequote() takes back what writeString() made of a string, with its newline or without.
LEMMA DequoteIs ==
    ASSUME NEW str \in Bytes, Nul \notin ToSet(str), NEW t \in {<<>>, <<Newline>>}
    PROVE  Dequote(FlattenSeq(Written(str)) \o t) = str \o t
<1>. DEFINE texts == Written(str)
            text == FlattenSeq(texts) \o t
            n0 == Len(str)
<1>1. /\ texts \in Seq(Bytes) /\ Len(texts) = n0 /\ n0 \in Nat
      /\ \A i \in 1 .. n0 : texts[i] = WrittenChar(str[i]) /\ str[i] \in Byte
  BY WrittenIs DEF Bytes
<1>. HIDE DEF texts
<1>2. PICK joined : IsFlattened(joined, texts, 0 .. 255)
  BY <1>1, FlattenUnfolds DEF Bytes
<1>3. t \in Bytes
  <2>1. <<Newline>> \in Bytes
    BY One DEF Newline
  <2>. QED
    BY <2>1, Empty
<1>4. joined[n0] \in Bytes /\ text = joined[n0] \o t
  BY <1>1, <1>2 DEF IsFlattened, Bytes
<1>5. text \in Bytes
  BY <1>3, <1>4, Join
<1>. HIDE DEF text
<1>6. PICK from : IsDequoted(from, text)
  BY <1>5, DequoteUnfolds
<1>. DEFINE P(i) == /\ \E q \in Bytes : text = joined[i] \o q
                    /\ from[Len(joined[i]) + 1] = After(str, i) \o t
            T == {i \in 0 .. n0 : P(i)}
<1>7. P(n0)
  <2>1. After(str, n0) = <<>>
    BY <1>1, SubSeqEmpty DEF After
  <2>2. After(str, n0) \o t = t
    BY <1>3, <2>1, Empty
  <2>. DEFINE m == Len(joined[n0])
  <2>3. m \in Nat /\ Len(text) = m + Len(t)
    BY <1>3, <1>4, Join
  <2>4. m + 1 \in 1 .. Len(text) + 1
    BY <1>3, <2>3 DEF Bytes
  <2>5. from[m + 1] = Dequoted(text, from, m + 1)
    BY <1>6, <2>4 DEF IsDequoted
  <2>6. CASE t = <<>>
    <3>1. Len(text) = m
      BY <2>3, <2>6
    <3>2. m + 1 > Len(text)
      BY <2>3, <3>1
    <3>3. Dequoted(text, from, m + 1) = <<>>
      BY <3>2 DEF Dequoted
    <3>. QED
      BY <1>3, <1>4, <2>2, <2>5, <2>6, <3>3
  <2>7. CASE t = <<Newline>>
    <3>1. Len(t) = 1 /\ t /= <<>> /\ t[1] = Newline
      BY <2>7
    <3>2. Len(text) = m + 1 /\ text[Len(text)] = Newline
      BY <1>3, <1>4, <2>3, <3>1, Join
    <3>3. m + 1 + 1 \in 1 .. Len(text) + 1 /\ m + 1 + 1 > Len(text) /\ ~(m + 1 > Len(text))
      BY <2>3, <3>2
    <3>4. from[m + 1 + 1] = <<>>
      BY <1>6, <3>3 DEF IsDequoted, Dequoted
    <3>5. Dequoted(text, from, m + 1) = <<Newline>> \o from[m + 1 + 1]
      BY <3>2, <3>3 DEF Dequoted
    <3>6. <<Newline>> \o <<>> = <<Newline>>
      BY <1>3, <2>7, Empty
    <3>. QED
      BY <1>3, <1>4, <2>2, <2>5, <2>7, <3>4, <3>5, <3>6
  <2>. QED
    BY <2>6, <2>7
<1>8. ASSUME NEW i \in 0 .. n0 - 1, P(i + 1)
      PROVE  P(i)
  <2>. DEFINE a == joined[i]
              c == str[i + 1]
              w == WrittenChar(c)
              z == After(str, i + 1)
  <2>1. i + 1 \in 1 .. n0 /\ i \in 0 .. n0 /\ i + 1 - 1 = i /\ i + 1 \in 0 .. n0
    BY <1>1
  <2>2. c \in Byte /\ texts[i + 1] = w
    BY <1>1, <2>1
  <2>3. w \in Bytes
    BY <2>2, WrittenCharIs
  <2>4. a \in Bytes /\ joined[i + 1] = a \o w
    <3>1. joined[i] \in Bytes
      BY <1>1, <1>2, <2>1 DEF IsFlattened, Bytes
    <3>2. joined[i + 1] = joined[i] \o texts[i + 1]
      <4>. DEFINE k == i + 1
      <4>1. k \in 1 .. Len(texts) /\ k - 1 = i
        BY <1>1, <2>1
      <4>. HIDE DEF k
      <4>2. joined[k] = joined[k - 1] \o texts[k]
        BY <1>2, <4>1 DEF IsFlattened, Bytes
      <4>3. joined[k] = joined[i] \o texts[k]
        BY <4>1, <4>2
      <4>. QED
        BY <4>3 DEF k
    <3>. QED
      BY <2>1, <2>2, <3>1, <3>2
  <2>5. PICK q \in Bytes : text = joined[i + 1] \o q
    BY <1>8
  <2>6. from[Len(joined[i + 1]) + 1] = z \o t
    BY <1>8
  <2>7. z \in Bytes /\ After(str, i) = <<c>> \o z
    <3>1. After(str, i) = SubSeq(str, i + 1, n0) /\ z = SubSeq(str, i + 1 + 1, n0)
      BY DEF After
    <3>2. SubSeq(str, i + 1, n0) = <<str[i + 1]>> \o SubSeq(str, i + 1 + 1, n0)
      <4>. DEFINE k == i + 1
      <4>1. k \in 1 .. Len(str) /\ Len(str) \in k .. Len(str)
        BY <1>1, <2>1
      <4>. HIDE DEF k
      <4>2. SubSeq(str, k, Len(str)) = <<str[k]>> \o SubSeq(str, k + 1, Len(str))
        BY <4>1, SubSeqRecursiveFirst DEF Bytes
      <4>. QED
        BY <4>2 DEF k
    <3>3. z \in Bytes
      <4>. DEFINE k == i + 1
      <4>1. k \in 0 .. Len(str)
        BY <2>1
      <4>. HIDE DEF k
      <4>2. After(str, k) \in Bytes
        BY <4>1, Cut
      <4>. QED
        BY <4>2 DEF k
    <3>. QED
      BY <3>1, <3>2, <3>3
  <2>. HIDE DEF a, w, c, z
  <2>8. w \o q \in Bytes
    BY <2>3, <2>5, Join
  <2>9. (a \o w) \o q = a \o (w \o q)
    BY <2>3, <2>4, <2>5, Joins
  <2>10. text = a \o (w \o q)
    BY <2>4, <2>5, <2>9
  <2>. DEFINE m == Len(a)
  <2>11. m \in Nat /\ m + 1 \in 1 .. Len(text) + 1 /\ Len(joined[i + 1]) = m + Len(w)
    <3>1. Len(text) = m + Len(w \o q) /\ m \in Nat /\ Len(w \o q) \in Nat
      BY <2>4, <2>8, <2>10, Join
    <3>2. Len(a \o w) = m + Len(w)
      BY <2>3, <2>4, Join
    <3>. QED
      BY <2>4, <3>1, <3>2
  <2>12. from[m + 1] = Dequoted(text, from, m + 1)
    BY <1>6, <2>11 DEF IsDequoted
  <2>13. Dequoted(text, from, m + 1) = <<c>> \o from[m + Len(w) + 1]
    <3>1. Dequoted(a \o (WrittenChar(c) \o q), from, Len(a) + 1)
              = <<c>> \o from[Len(a) + Len(WrittenChar(c)) + 1]
      BY <2>2, <2>4, DequoteChar
    <3>. QED
      BY <2>10, <3>1 DEF w
  <2>14. from[m + 1] = <<c>> \o (z \o t)
    BY <2>6, <2>11, <2>12, <2>13
  <2>15. (<<c>> \o z) \o t = <<c>> \o (z \o t)
    <3>1. <<c>> \in Bytes
      BY <2>2, One DEF Byte
    <3>. QED
      BY <1>3, <2>7, <3>1, Joins
  <2>. QED
    BY <2>7, <2>8, <2>10, <2>14, <2>15 DEF a
<1>9. P(0)
  <2>. HIDE DEF P, n0
  <2>1. n0 \in T
    BY <1>1, <1>7
  <2>2. \A i \in 0 .. n0 - 1 : i + 1 \in T => i \in T
    BY <1>1, <1>8
  <2>. HIDE DEF T
  <2>3. 0 .. n0 \subseteq T
    BY <1>1, <2>1, <2>2, Downward
  <2>4. 0 \in T
    BY <1>1, <2>3
  <2>. QED
    BY <2>4 DEF T
<1>10. from[1] = str \o t
  <2>1. joined[0] = <<>>
    BY <1>2 DEF IsFlattened, Bytes
  <2>2. Len(joined[0]) + 1 = 1
    BY <2>1
  <2>3. After(str, 0) = str
    BY SubSeqFull DEF After, Bytes
  <2>. QED
    BY <1>9, <2>2, <2>3
<1>11. Nul \notin ToSet(str \o t)
  <2>1. /\ Len(str \o t) = Len(str) + Len(t) /\ Len(str) \in Nat /\ Len(t) \in Nat
        /\ \A k \in 1 .. Len(str) + Len(t) :
              (str \o t)[k] = IF k <= Len(str) THEN str[k] ELSE t[k - Len(str)]
    BY <1>3, ConcatProperties DEF Bytes
  <2>2. \A k \in 1 .. Len(str) : str[k] /= Nul
    BY DEF ToSet, Bytes
  <2>3. \A k \in 1 .. Len(t) : t[k] /= Nul
    BY DEF Newline, Nul
  <2>4. \A k \in 1 .. Len(str) + Len(t) : (str \o t)[k] /= Nul
    <3>. TAKE k \in 1 .. Len(str) + Len(t)
    <3>1. CASE k <= Len(str)
      BY <2>1, <2>2, <3>1
    <3>2. CASE ~(k <= Len(str))
      <4>1. k - Len(str) \in 1 .. Len(t)
        BY <2>1, <3>2
      <4>. QED
        BY <2>1, <2>3, <3>2, <4>1
    <3>. QED
      BY <3>1, <3>2
  <2>5. DOMAIN (str \o t) = 1 .. Len(str) + Len(t)
    <3>1. str \o t \in Bytes
      BY <1>3, Join
    <3>. QED
      BY <2>1, <3>1 DEF Bytes
  <2>. QED
    BY <2>4, <2>5 DEF ToSet
<1>12. str \o t \in Bytes
  BY <1>3, Join
<1>13. Dequote(text) = UpToNul(str \o t)
  BY <1>6, <1>10 DEF IsDequoted
<1>. QED
  BY <1>11, <1>12, <1>13, UpToNulIs DEF text, texts

-----------------------------------------------------------------------------
(* Lines that are written and read.                                          *)

LineOut(text) == text \o <<Newline>>

\* A text that begins with a line: what fgets() returns of it, and what it leaves.
LEMMA FirstLine ==
    ASSUME NEW line \in Bytes, NEW rest \in Bytes, Newline \notin ToSet(line),
           NEW text, text = LineOut(line) \o rest
    PROVE  /\ LineOut(line) \in Bytes /\ text \in Bytes
           /\ LineOf(text) = line /\ RestOf(text) = rest
           /\ FirstOf(text, IndexOf(text, Newline)) = LineOut(line)
           /\ After(text, IndexOf(text, Newline)) = rest
           /\ text /= <<>>
<1>. DEFINE nl == <<Newline>>
            out == line \o nl
            k == IndexOf(text, Newline)
<1>1. nl \in Bytes /\ nl /= <<>> /\ Len(nl) = 1
  BY One DEF Newline
<1>2. out \in Bytes /\ out /= <<>> /\ Len(out) = Len(line) + 1 /\ Len(line) \in Nat
  <2>1. nl \in Bytes /\ nl /= <<>> /\ Len(nl) = 1
    BY <1>1
  <2>. HIDE DEF nl
  <2>2. line \o nl \in Bytes /\ line \o nl /= <<>>
    BY <2>1, Join
  <2>3. Len(line \o nl) = Len(line) + 1 /\ Len(line) \in Nat
    <3>1. Len(line \o nl) = Len(line) + Len(nl) /\ Len(line) \in Nat
      BY <2>1, Join
    <3>. QED
      BY <2>1, <3>1
  <2>. QED
    BY <2>2, <2>3
<1>3. text = out \o rest
  BY DEF LineOut
<1>4. out \o rest = line \o (nl \o rest)
  <2>. HIDE DEF nl
  <2>. QED
    BY <1>1, Joins
<1>5. text \in Bytes /\ HasNewline(text) /\ LineOf(text) = line /\ RestOf(text) = rest
  BY <1>3, <1>4, LineIs
<1>6. k \in 0 .. Len(text) /\ k > 0 /\ RestOf(text) = After(text, k)
  <2>1. k \in 0 .. Len(text)
    BY <1>5, FirstPlace DEF Bytes
  <2>2. k > 0
    BY <1>5 DEF HasNewline
  <2>. HIDE DEF k
  <2>3. k /= 0
    BY <2>1, <2>2
  <2>. QED
    BY <2>1, <2>2, <2>3 DEF RestOf, k
<1>. HIDE DEF k, nl, out
<1>7. After(text, k) = rest /\ Len(After(text, k)) = Len(text) - k
  BY <1>5, <1>6, Cut
<1>8. Len(text) = Len(out) + Len(rest) /\ Len(out) \in Nat /\ Len(rest) \in Nat
  <2>1. Len(out \o rest) = Len(out) + Len(rest) /\ Len(out) \in Nat /\ Len(rest) \in Nat
    BY <1>2, Join
  <2>. QED
    BY <1>3, <2>1
<1>9. k = Len(out)
  BY <1>6, <1>7, <1>8
<1>10. FirstOf(text, k) = out
  BY <1>2, <1>3, <1>9, CutJoined
<1>11. text /= <<>>
  <2>1. Len(text) > 0 /\ Len(<<>>) = 0
    BY <1>2, <1>8
  <2>. QED
    BY <2>1
<1>. QED
  BY <1>2, <1>5, <1>7, <1>10, <1>11 DEF k, out, nl, LineOut

\* The stub reads back what writeString() wrote.
LEMMA ReadBack ==
    ASSUME NEW str \in Bytes, {Nul, Delete} \cap ToSet(str) = {}
    PROVE  /\ Stripped(Dequote(Edited(WriteString(str)))) = str
           /\ Dequote(Stripped(Edited(WriteString(str)))) = str
<1>. DEFINE body == FlattenSeq(Written(str))
            nl == <<Newline>>
<1>1. Nul \notin ToSet(str) /\ Delete \notin ToSet(str)
  OBVIOUS
<1>2. body \in Bytes /\ Delete \notin ToSet(body) /\ WriteString(str) = body \o nl
  BY <1>1, WriteStringIs, WrittenIs
<1>3. nl \in Bytes
  BY One DEF Newline
<1>4. Dequote(body \o <<>>) = str \o <<>> /\ Dequote(body \o nl) = str \o nl
  BY <1>1, DequoteIs
<1>. HIDE DEF body
<1>5. body \o nl \in Bytes /\ Delete \notin ToSet(body \o nl)
  <2>1. /\ Len(body \o nl) = Len(body) + 1 /\ Len(body) \in Nat
        /\ \A k \in 1 .. Len(body) + 1 :
              (body \o nl)[k] = IF k <= Len(body) THEN body[k] ELSE nl[k - Len(body)]
    <3>1. Len(nl) = 1
      OBVIOUS
    <3>. HIDE DEF nl
    <3>. QED
      BY <1>2, <1>3, <3>1, ConcatProperties DEF Bytes
  <2>2. \A k \in 1 .. Len(body) : body[k] /= Delete
    BY <1>2 DEF ToSet, Bytes
  <2>3. \A k \in 1 .. Len(body) + 1 : (body \o nl)[k] /= Delete
    <3>. TAKE k \in 1 .. Len(body) + 1
    <3>1. CASE k <= Len(body)
      BY <2>1, <2>2, <3>1
    <3>2. CASE ~(k <= Len(body))
      <4>1. k - Len(body) = 1 /\ nl[1] = Newline
        BY <2>1, <3>2
      <4>2. (body \o nl)[k] = Newline
        BY <2>1, <3>2, <4>1
      <4>. QED
        BY <4>2 DEF Newline, Delete
    <3>. QED
      BY <3>1, <3>2
  <2>4. body \o nl \in Bytes
    BY <1>2, <1>3, Join
  <2>5. DOMAIN (body \o nl) = 1 .. Len(body) + 1
    BY <2>1, <2>4 DEF Bytes
  <2>. QED
    BY <2>3, <2>4, <2>5 DEF ToSet
<1>6. Edited(WriteString(str)) = body \o nl
  BY <1>2, <1>5, EditedIs
<1>7. Stripped(body \o nl) = body /\ Stripped(str \o nl) = str
  BY <1>2, StrippedIs
<1>8. body \o <<>> = body /\ str \o <<>> = str
  BY <1>2, Empty
<1>. QED
  BY <1>4, <1>6, <1>7, <1>8

\* A variable that is none is an empty line, and comes back as nothing.
LEMMA NoString ==
    /\ WriteString(<<>>) = <<Newline>>
    /\ Stripped(Dequote(Edited(<<Newline>>))) = <<>>
<1>1. <<>> \in Bytes
  BY Empty
<1>2. Len(Written(<<>>)) = 0 /\ Written(<<>>) \in Seq(Bytes)
  BY <1>1, WrittenIs
<1>3. FlattenSeq(Written(<<>>)) = <<>>
  BY <1>2, EmptySeq DEF FlattenSeq
<1>4. WriteString(<<>>) = <<>> \o <<Newline>>
  BY <1>1, <1>3, WrittenIs
<1>5. <<Newline>> \in Bytes
  BY One DEF Newline
<1>6. WriteString(<<>>) = <<Newline>>
  BY <1>4, <1>5, Empty
<1>7. {Nul, Delete} \cap ToSet(<<>>) = {}
  BY DEF ToSet
<1>. QED
  BY <1>1, <1>6, <1>7, ReadBack

-----------------------------------------------------------------------------
(* What comes before the stub.                                               *)

\* Whole lines behind whole lines are whole lines.
LEMMA LineEnds ==
    ASSUME NEW a \in Bytes, NEW b \in Bytes, LineEnd(a), LineEnd(b)
    PROVE  LineEnd(a \o b)
<1>1. CASE b = <<>>
  BY <1>1, Empty
<1>2. CASE b /= <<>>
  <2>1. (a \o b)[Len(a \o b)] = b[Len(b)]
    BY <1>2, Join
  <2>. QED
    BY <1>2, <2>1 DEF LineEnd
<1>. QED
  BY <1>1, <1>2

\* A line that is written ends with its newline.
LEMMA LineOutIs ==
    ASSUME NEW line \in Bytes
    PROVE  LineOut(line) \in Bytes /\ LineOut(line) /= <<>> /\ LineEnd(LineOut(line))
<1>. DEFINE nl == <<Newline>>
<1>1. nl \in Bytes /\ nl /= <<>> /\ nl[Len(nl)] = Newline
  BY One DEF Newline
<1>. HIDE DEF nl
<1>2. line \o nl \in Bytes /\ line \o nl /= <<>> /\ (line \o nl)[Len(line \o nl)] = Newline
  BY <1>1, Join
<1>. QED
  BY <1>2 DEF LineOut, LineEnd, nl

\* Whole lines, and none of them is the header.
Quiet(p) ==
    /\ p \in Bytes /\ LineEnd(p)
    /\ \A q, line, rest \in Bytes :
          p = q \o (LineOut(line) \o rest) /\ LineEnd(q) /\ Newline \notin ToSet(line)
              => line /= Header

\* Nothing is quiet.
LEMMA QuietNothing == Quiet(<<>>)
<1>1. ASSUME NEW q \in Bytes, NEW line \in Bytes, NEW rest \in Bytes
      PROVE  <<>> /= q \o (LineOut(line) \o rest)
  <2>. DEFINE out == LineOut(line)
  <2>1. out \in Bytes /\ out /= <<>>
    BY LineOutIs
  <2>. HIDE DEF out
  <2>2. out \o rest \in Bytes /\ Len(out \o rest) = Len(out) + Len(rest)
        /\ Len(out) \in Nat /\ Len(rest) \in Nat
    BY <2>1, Join
  <2>3. Len(out) > 0
    BY <2>1, <2>2, EmptySeq DEF Bytes
  <2>. DEFINE tail == out \o rest
  <2>4. tail \in Bytes /\ tail /= <<>>
    <3>1. Len(tail) > 0 /\ Len(<<>>) = 0
      BY <2>2, <2>3
    <3>. QED
      BY <2>2, <3>1
  <2>. HIDE DEF tail
  <2>5. q \o tail /= <<>>
    BY <2>4, Join
  <2>. QED
    BY <2>5 DEF tail, out
<1>. QED
  BY <1>1, Empty DEF Quiet, LineEnd

\* A notice of the instance is quiet.
LEMMA QuietNotice ==
    ASSUME QuietNotices, NEW text \in Notices
    PROVE  Quiet(text)
<1>1. text \in Bytes
  BY TextAssumption
<1>2. LineEnd(text)
  BY DEF QuietNotices, LineEnd, Last
<1>3. ASSUME NEW q \in Bytes, NEW line \in Bytes, NEW rest \in Bytes,
             text = q \o (LineOut(line) \o rest), LineEnd(q), Newline \notin ToSet(line)
      PROVE  line /= Header
  <2>. DEFINE tail == LineOut(line) \o rest
  <2>1. tail \in Bytes /\ LineOf(tail) = line
    BY <1>3, FirstLine
  <2>2. text = q \o tail
    BY <1>3
  <2>. HIDE DEF tail
  <2>3. /\ Len(text) = Len(q) + Len(tail) /\ Len(q) \in Nat /\ Len(tail) \in Nat
        /\ \A i \in 1 .. Len(q) : text[i] = q[i]
    BY <2>1, <2>2, Join
  <2>4. After(text, Len(q)) = tail
    BY <2>1, <2>2, CutJoined
  <2>5. Len(q) + 1 \in LineStarts(text)
    <3>1. CASE q = <<>>
      <4>1. Len(q) + 1 = 1
        BY <3>1
      <4>. QED
        BY <4>1 DEF LineStarts
    <3>2. CASE q /= <<>>
      <4>1. Len(q) \in 1 .. Len(q)
        BY <2>3, <3>2, EmptySeq DEF Bytes
      <4>2. text[Len(q)] = Newline
        BY <1>3, <2>3, <3>2, <4>1 DEF LineEnd
      <4>3. Len(q) \in DOMAIN text
        BY <1>1, <2>3, <4>1 DEF Bytes
      <4>. QED
        BY <4>2, <4>3 DEF LineStarts
    <3>. QED
      BY <3>1, <3>2
  <2>6. Len(q) + 1 - 1 = Len(q)
    BY <2>3
  <2>. DEFINE k == Len(q) + 1
  <2>7. k \in LineStarts(text) /\ k - 1 = Len(q)
    BY <2>5, <2>6
  <2>. HIDE DEF k
  <2>8. LineOf(After(text, k - 1)) /= Header
    BY <2>7 DEF QuietNotices
  <2>. QED
    BY <2>1, <2>4, <2>7, <2>8
<1>. QED
  BY <1>1, <1>2, <1>3 DEF Quiet

\* Quiet lines begin with a line that is not the header, and the rest of them is quiet.
LEMMA QuietLine ==
    ASSUME NEW p, Quiet(p), p /= <<>>
    PROVE  \E line, rest \in Bytes :
               /\ p = LineOut(line) \o rest /\ Newline \notin ToSet(line)
               /\ line /= Header /\ Quiet(rest)
<1>1. p \in Bytes /\ p[Len(p)] = Newline
  BY DEF Quiet, LineEnd
<1>2. HasNewline(p)
  <2>1. Len(p) \in 1 .. Len(p)
    BY <1>1, EmptySeq DEF Bytes
  <2>2. IndexOf(p, Newline) \in 0 .. Len(p) /\ IndexOf(p, Newline) /= 0
    BY <1>1, <2>1, FirstPlace DEF Bytes
  <2>. QED
    BY <2>2 DEF HasNewline
<1>. DEFINE line == LineOf(p)
            rest == RestOf(p)
            nl == <<Newline>>
<1>3. /\ line \in Bytes /\ rest \in Bytes /\ Newline \notin ToSet(line)
      /\ p = line \o (nl \o rest)
  BY <1>1, <1>2, LineParts
<1>4. nl \in Bytes
  BY One DEF Newline
<1>5. (line \o nl) \o rest = line \o (nl \o rest)
  <2>. HIDE DEF line, rest, nl
  <2>. QED
    BY <1>3, <1>4, Joins
<1>6. p = LineOut(line) \o rest
  BY <1>3, <1>5 DEF LineOut
<1>. HIDE DEF line, rest, nl
<1>. DEFINE out == LineOut(line)
<1>7. out \in Bytes /\ LineEnd(out) /\ p = out \o rest
  BY <1>3, <1>6, LineOutIs
<1>8. line /= Header
  <2>1. p = <<>> \o (out \o rest) /\ <<>> \in Bytes /\ LineEnd(<<>>)
    BY <1>1, <1>7, Empty DEF LineEnd
  <2>. QED
    BY <1>3, <2>1 DEF Quiet
<1>. HIDE DEF out
<1>9. LineEnd(rest)
  <2>1. rest /= <<>> => p[Len(p)] = rest[Len(rest)]
    BY <1>3, <1>7, Join
  <2>. QED
    BY <1>1, <2>1 DEF LineEnd
<1>10. ASSUME NEW q \in Bytes, NEW l2 \in Bytes, NEW r2 \in Bytes,
              rest = q \o (LineOut(l2) \o r2), LineEnd(q), Newline \notin ToSet(l2)
       PROVE  l2 /= Header
  <2>. DEFINE tail == LineOut(l2) \o r2
  <2>1. tail \in Bytes
    BY <1>10, FirstLine
  <2>2. rest = q \o tail
    BY <1>10
  <2>. HIDE DEF tail
  <2>3. (out \o q) \o tail = out \o (q \o tail)
    BY <1>7, <2>1, Joins
  <2>4. out \o q \in Bytes
    BY <1>7, Join
  <2>5. LineEnd(out \o q)
    BY <1>7, <1>10, LineEnds
  <2>6. p = (out \o q) \o tail
    BY <1>7, <2>2, <2>3
  <2>. DEFINE front == out \o q
  <2>7. front \in Bytes /\ LineEnd(front) /\ p = front \o (LineOut(l2) \o r2)
    BY <2>4, <2>5, <2>6 DEF tail
  <2>. HIDE DEF front
  <2>. QED
    BY <1>10, <2>7 DEF Quiet
<1>11. Quiet(rest)
  BY <1>3, <1>9, <1>10 DEF Quiet
<1>. QED
  BY <1>3, <1>7, <1>8, <1>11 DEF out

-----------------------------------------------------------------------------
(* The conversation stays in step.                                           *)

\* What was printed and not taken by readLine().
Pending == buffer \o tty

Ok == <<111, 107, Newline>>
Input == IF variable = None THEN <<>> ELSE WriteString(variable)

CommandGot == Typable(command) => got = <<command>>
AllGot == Typable(command) /\ (variable = None \/ Typable(variable)) =>
              got = IF variable = None THEN <<command>> ELSE <<command, variable>>

\* exec() has an answer to read, or the stub has one, or neither.
Says(out, in) == at = "talk" /\ Pending = out /\ typed = in

Before == at = "header" /\ typed = <<>> /\ got = <<>>
AtOk ==
    /\ got = <<>>
    /\ \/ at = "header" /\ typed = <<>> /\ \E p : Quiet(p) /\ Pending = p \o LineOut(Header)
       \/ at = "login" /\ typed = <<>> /\ Pending = LineOut(Header)
       \/ Says(<<>>, Ok)
AtCommand == Says(LineOut(AskCommand), <<>>) \/ Says(<<>>, WriteString(command))
AtVariables ==
    \/ Says(LineOut(AskEnvironment), <<>>) /\ CommandGot
    \/ Says(<<>>, LineOut(Input)) /\ CommandGot
    \/ Says(<<>>, <<Newline>>) /\ AllGot
AtRun ==
    \/ at = "talk" /\ \E o \in Bytes : Pending = LineOut(End) \o o
    \/ at \in {"select", "drain", "check"}

InStep ==
    child /= "gone" =>
        /\ ~attached
        /\ child = "login" => Before /\ Pending = <<>>
        /\ child = "start" => Before /\ Quiet(Pending)
        /\ child = "ok" => AtOk
        /\ child = "ask" => Says(<<>>, <<>>) /\ got = <<>>
        /\ child = "command" => AtCommand /\ got = <<>>
        /\ child = "environment" => Says(<<>>, <<>>) /\ CommandGot
        /\ child = "variables" => AtVariables
        /\ child = "done" => at = "talk" /\ Pending = <<>> /\ AllGot
        /\ child = "run" => AtRun /\ AllGot

\* PrintsLine appends what LineOut joins.
LEMMA LineOutAppends ==
    ASSUME NEW line \in Bytes
    PROVE  Append(line, Newline) = LineOut(line)
<1>1. Newline \in 0 .. 255
  BY DEF Newline
<1>. QED
  BY <1>1, AppendIsConcat DEF Bytes, LineOut

\* What is printed comes behind what waits to be read.
LEMMA Printed ==
    ASSUME FlowTypes, NEW text \in Bytes, Prints(text), buffer' = buffer
    PROVE  Pending \in Bytes /\ Pending' = Pending \o text
<1>1. buffer \in Bytes /\ tty \in Bytes
  BY DEF FlowTypes
<1>2. (buffer \o tty) \o text = buffer \o (tty \o text)
  BY <1>1, Joins
<1>3. buffer \o tty \in Bytes
  BY <1>1, Join
<1>4. tty' = tty \o text
  BY DEF Prints
<1>. QED
  BY <1>2, <1>3, <1>4 DEF Pending

\* Not torn, a read() takes all there is.
LEMMA WholeRead ==
    ASSUME FlowTypes, FlowTypes', ~torn, ReadLine
    PROVE  /\ Pending \in Bytes /\ Pending /= <<>>
           /\ TakeLine(Pending) /\ Pending' = buffer'
<1>1. buffer \in Bytes /\ tty \in Bytes /\ buffer' \in Bytes
  BY DEF FlowTypes
<1>2. PICK n \in Chunks : TakeLine(ReadAll(n)) /\ tty' = After(tty, n)
  BY DEF ReadLine
<1>3. n = Len(tty) /\ Len(tty) \in Nat
  <2>1. Len(<<>>) = 0
    OBVIOUS
  <2>. QED
    BY <1>1, <2>1 DEF Chunks, Bytes
<1>4. ReadAll(n) \in Bytes /\ ReadAll(n) \o After(tty, n) = Pending
  BY <1>1, AllIsRead DEF Pending
<1>5. After(tty, n) = <<>>
  <2>1. After(tty, n) \in Bytes /\ Len(After(tty, n)) = Len(tty) - n
    BY <1>1, <1>3, Cut
  <2>. QED
    BY <1>3, <2>1, EmptySeq DEF Bytes
<1>6. ReadAll(n) = Pending
  BY <1>4, <1>5, Empty
<1>7. buffer' \o tty' = buffer'
  BY <1>1, <1>2, <1>5, Empty
<1>. QED
  BY <1>2, <1>4, <1>6, <1>7 DEF Pending, ReadLine

\* A notice, and the lines of the stub.
LEMMA TalkPrints ==
    ASSUME QuietNotices, FlowTypes, InStep, Notice \/ Asks
    PROVE  InStep'
<1>1. /\ child /= "gone" /\ ~attached
      /\ UNCHANGED <<command, variable, attached, got, typed, buffer, at>>
  BY DEF Notice, Asks, InStep, job, parentVars
<1>2. \A line \in {Header, AskCommand, AskEnvironment, End} :
          line \in Bytes /\ LineOut(line) \in Bytes
  BY TextAssumption, LineOutIs
<1>3. CASE Notice
  <2>1. child = "login" /\ child' = "start"
    BY <1>3 DEF Notice
  <2>2. PICK text \in Notices : Prints(text)
    BY <1>3 DEF Notice
  <2>3. text \in Bytes /\ Quiet(text)
    BY QuietNotice, TextAssumption
  <2>4. Before /\ Pending = <<>>
    BY <2>1 DEF InStep
  <2>5. Pending' = <<>> \o text
    BY <1>1, <2>2, <2>3, <2>4, Printed
  <2>6. Pending' = text
    BY <2>3, <2>5, Empty
  <2>7. Before' /\ Quiet(Pending)'
    BY <1>1, <2>3, <2>4, <2>6 DEF Before, Quiet
  <2>. QED
    BY <1>1, <2>1, <2>7 DEF InStep
<1>4. CASE child \in {"login", "start"} /\ PrintsLine(Header) /\ child' = "ok"
  <2>. DEFINE out == LineOut(Header)
  <2>1. out \in Bytes /\ Prints(out)
    BY <1>2, <1>4, LineOutAppends DEF PrintsLine
  <2>. HIDE DEF out
  <2>2. Pending' = Pending \o out
    BY <1>1, <2>1, Printed
  <2>3. Before /\ Quiet(Pending)
    BY <1>1, <1>4, QuietNothing DEF InStep
  <2>4. AtOk'
    BY <1>1, <2>2, <2>3 DEF AtOk, Before, out, LineOut
  <2>. QED
    BY <1>1, <1>4, <2>4 DEF InStep
<1>5. ASSUME NEW line \in {AskCommand, AskEnvironment, End}, PrintsLine(line), Pending = <<>>
      PROVE  Pending' = LineOut(line)
  <2>. DEFINE out == LineOut(line)
  <2>1. out \in Bytes /\ Prints(out)
    BY <1>2, <1>5, LineOutAppends DEF PrintsLine
  <2>. HIDE DEF out
  <2>2. Pending' = <<>> \o out
    BY <1>1, <1>5, <2>1, Printed
  <2>. QED
    BY <2>1, <2>2, Empty DEF out
<1>6. CASE child = "ask" /\ PrintsLine(AskCommand) /\ child' = "command"
  <2>1. Says(<<>>, <<>>) /\ got = <<>>
    BY <1>6 DEF InStep
  <2>2. Pending' = LineOut(AskCommand)
    BY <1>5, <1>6, <2>1 DEF Says
  <2>3. AtCommand' /\ got' = <<>>
    BY <1>1, <2>1, <2>2 DEF AtCommand, Says, LineOut
  <2>. QED
    BY <1>1, <1>6, <2>3 DEF InStep
<1>7. CASE child = "environment" /\ PrintsLine(AskEnvironment) /\ child' = "variables"
  <2>1. Says(<<>>, <<>>) /\ CommandGot
    BY <1>7 DEF InStep
  <2>2. Pending' = LineOut(AskEnvironment)
    BY <1>5, <1>7, <2>1 DEF Says
  <2>3. AtVariables'
    BY <1>1, <2>1, <2>2 DEF AtVariables, Says, LineOut, CommandGot
  <2>. QED
    BY <1>1, <1>7, <2>3 DEF InStep
<1>8. CASE child = "done" /\ PrintsLine(End) /\ child' = "run"
  <2>1. at = "talk" /\ Pending = <<>> /\ AllGot
    BY <1>8 DEF InStep
  <2>2. Pending' = LineOut(End)
    BY <1>5, <1>8, <2>1
  <2>3. Pending' = LineOut(End) \o <<>> /\ <<>> \in Bytes
    BY <1>2, <2>2, Empty
  <2>4. AtRun' /\ AllGot'
    BY <1>1, <2>1, <2>3 DEF AtRun, LineOut, AllGot
  <2>. QED
    BY <1>1, <1>8, <2>4 DEF InStep
<1>. QED
  BY <1>3, <1>4, <1>6, <1>7, <1>8 DEF Asks

\* What the command prints comes behind the line that ends the conversation.
LEMMA TalkOutput ==
    ASSUME FlowTypes, InStep, CommandPrints
    PROVE  InStep'
<1>1. UNCHANGED <<command, variable, child, attached, got, typed, buffer, at>>
  BY DEF CommandPrints, job, parentVars
<1>2. CASE child = "gone"
  BY <1>1, <1>2 DEF InStep
<1>3. CASE child /= "gone"
  <2>1. child = "run" /\ ~attached /\ AtRun /\ AllGot
    BY <1>3 DEF CommandPrints, InStep
  <2>2. PICK text \in Outputs : Prints(text)
    BY DEF CommandPrints
  <2>3. text \in Bytes
    BY TextAssumption
  <2>4. Pending' = Pending \o text
    BY <1>1, <2>2, <2>3, Printed
  <2>5. AtRun'
    <3>1. CASE at = "talk"
      <4>1. PICK o \in Bytes : Pending = LineOut(End) \o o
        BY <2>1, <3>1 DEF AtRun
      <4>. DEFINE out == LineOut(End)
      <4>2. out \in Bytes
        BY TextAssumption, LineOutIs
      <4>. HIDE DEF out
      <4>3. (out \o o) \o text = out \o (o \o text)
        BY <2>3, <4>2, Joins
      <4>4. o \o text \in Bytes
        BY <2>3, Join
      <4>5. Pending' = out \o (o \o text)
        BY <2>4, <4>1, <4>3 DEF out
      <4>. QED
        BY <1>1, <3>1, <4>4, <4>5 DEF AtRun, out, LineOut
    <3>2. CASE at /= "talk"
      BY <1>1, <2>1, <3>2 DEF AtRun
    <3>. QED
      BY <3>1, <3>2
  <2>6. AllGot'
    BY <1>1, <2>1 DEF AllGot
  <2>. QED
    BY <1>1, <2>1, <2>5, <2>6 DEF InStep
<1>. QED
  BY <1>2, <1>3

\* The end of the child, and waitForChild().
LEMMA TalkEnds ==
    ASSUME InStep, ChildEnds \/ LastCloses \/ NoLine
    PROVE  InStep'
<1>1. CASE ChildEnds
  BY <1>1 DEF ChildEnds, InStep
<1>2. CASE LastCloses
  BY <1>2 DEF LastCloses, InStep
<1>3. CASE NoLine
  BY <1>3 DEF NoLine, HungUp, InStep, childVars
<1>. QED
  BY <1>1, <1>2, <1>3

\* waitForChild() starts when the conversation is over, and leaves it alone.
LEMMA TalkWaits ==
    ASSUME JobTypes, InStep, Select \/ TimeOut \/ Drain \/ Check
    PROVE  InStep'
<1>1. /\ UNCHANGED <<command, variable, child, attached, got, typed>>
      /\ at \in {"select", "drain", "check"}
  BY DEF Select, TimeOut, Drain, Check, job, childVars
<1>2. CASE child = "gone"
  BY <1>1, <1>2 DEF InStep
<1>3. CASE child /= "gone"
  <2>1. at \notin {"header", "login", "talk"}
    BY <1>1
  <2>2. child = "run"
    BY <1>3, <2>1 DEF JobTypes, Stage, InStep, Before, AtOk, Says, AtCommand, AtVariables
  <2>3. ~attached /\ AllGot
    BY <2>2 DEF InStep
  <2>4. at' \in {"select", "drain", "check"}
    BY <1>1, <2>2 DEF Select, TimeOut, Drain, Check, WaitFor
  <2>. QED
    BY <1>1, <2>2, <2>3, <2>4 DEF InStep, AtRun, AllGot
<1>. QED
  BY <1>2, <1>3

-----------------------------------------------------------------------------
(* The stub reads.                                                           *)

\* The line that the stub reads, and what it makes of it.
LEMMA StubLine ==
    ASSUME Reads, NEW body \in Bytes, NEW rest \in Bytes, Newline \notin ToSet(body),
           typed = LineOut(body) \o rest, NEW line, line = Edited(LineOut(body))
    PROVE  /\ typed' = rest
           /\ child = "ok" => child' = "ask" /\ got' = got
           /\ child = "command" =>
                 child' = "environment" /\ got' = Append(got, Dequote(Stripped(line)))
           /\ child = "variables" /\ Stripped(Dequote(line)) = <<>> =>
                 child' = "done" /\ got' = got
           /\ child = "variables" /\ Stripped(Dequote(line)) /= <<>> =>
                 child' = child /\ got' = Append(got, Stripped(Dequote(line)))
<1>1. /\ FirstOf(typed, IndexOf(typed, Newline)) = LineOut(body)
      /\ After(typed, IndexOf(typed, Newline)) = rest
  BY FirstLine
<1>2. typed' = rest
  BY <1>1 DEF Reads
<1>3. Edited(FirstOf(typed, IndexOf(typed, Newline))) = line
  BY <1>1
<1>. QED
  BY <1>2, <1>3 DEF Reads

\* What the stub makes of a string that writeString() wrote.
LEMMA StubString ==
    ASSUME NEW str \in Bytes
    PROVE  \E body \in Bytes :
               /\ Newline \notin ToSet(body) /\ WriteString(str) = LineOut(body)
               /\ Typable(str) =>
                     /\ Stripped(Dequote(Edited(LineOut(body)))) = str
                     /\ Dequote(Stripped(Edited(LineOut(body)))) = str
<1>. DEFINE body == FlattenSeq(Written(str))
<1>1. body \in Bytes /\ Newline \notin ToSet(body)
  BY WriteStringIs
<1>2. WriteString(str) = LineOut(body)
  BY WrittenIs DEF LineOut
<1>3. Typable(str) => /\ Stripped(Dequote(Edited(WriteString(str)))) = str
                      /\ Dequote(Stripped(Edited(WriteString(str)))) = str
  BY ReadBack DEF Typable
<1>. HIDE DEF body
<1>. QED
  BY <1>1, <1>2, <1>3

\* A line of nothing.
LEMMA NothingLine ==
    /\ <<>> \in Bytes /\ Newline \notin ToSet(<<>>)
    /\ LineOut(<<>>) = <<Newline>> /\ LineOut(<<>>) \in Bytes
    /\ Stripped(Dequote(Edited(LineOut(<<>>)))) = <<>>
<1>1. <<>> \in Bytes /\ Newline \notin ToSet(<<>>)
  BY Empty DEF ToSet
<1>2. <<Newline>> \in Bytes
  BY One DEF Newline
<1>3. LineOut(<<>>) = <<Newline>>
  BY <1>2, Empty DEF LineOut
<1>. QED
  BY <1>1, <1>2, <1>3, NoString

\* The answer to the header is a line.
LEMMA OkLine ==
    \E body \in Bytes : Newline \notin ToSet(body) /\ Ok = LineOut(body) /\ Ok \in Bytes
<1>. DEFINE body == <<111, 107>>
<1>1. body \in Bytes /\ Newline \notin ToSet(body)
  BY DEF Bytes, ToSet, Newline
<1>2. Ok = LineOut(body)
  BY DEF Ok, LineOut, Newline
<1>. HIDE DEF body
<1>. QED
  BY <1>1, <1>2, LineOutIs

\* Two strings, one after the other.
LEMMA AppendPair ==
    ASSUME NEW S, NEW a \in S, NEW b \in S
    PROVE  Append(<<a>>, b) = <<a, b>>
<1>1. ASSUME NEW one \in Seq(S), Len(one) = 1, one[1] = a
      PROVE  /\ Append(one, b) \in Seq(S) /\ Len(Append(one, b)) = 2
             /\ Append(one, b)[1] = a /\ Append(one, b)[2] = b
  <2>. DEFINE both == Append(one, b)
  <2>1. /\ both \in Seq(S) /\ Len(both) = Len(one) + 1
        /\ \A i \in 1 .. Len(one) : both[i] = one[i]
        /\ both[Len(one) + 1] = b
    BY AppendProperties
  <2>. HIDE DEF both
  <2>2. Len(one) + 1 = 2 /\ 1 \in 1 .. Len(one)
    BY <1>1
  <2>3. both[1] = one[1] /\ both[2] = b /\ Len(both) = 2
    BY <2>1, <2>2
  <2>. QED
    BY <1>1, <2>1, <2>3 DEF both
<1>. DEFINE both == Append(<<a>>, b)
            pair == <<a, b>>
<1>2. both \in Seq(S) /\ Len(both) = 2 /\ both[1] = a /\ both[2] = b
  BY <1>1
<1>3. pair \in Seq(S) /\ Len(pair) = 2 /\ pair[1] = a /\ pair[2] = b
  OBVIOUS
<1>. HIDE DEF both, pair
<1>4. \A i \in 1 .. 2 : both[i] = pair[i]
  BY <1>2, <1>3
<1>. QED
  BY <1>2, <1>3, <1>4, SeqEqual DEF pair, both

\* The stub reads a line, at each of its questions.
LEMMA TalkReads ==
    ASSUME JobTypes, InStep, Reads
    PROVE  InStep'
<1>1. /\ child \in {"ok", "command", "variables"} /\ Newline \in ToSet(typed)
      /\ UNCHANGED <<command, variable, attached, buffer, tty, at>>
  BY DEF Reads, job, parentVars
<1>2. typed /= <<>>
  BY <1>1 DEF ToSet
<1>3. Pending' = Pending
  BY <1>1 DEF Pending
<1>4. command \in Bytes /\ (variable /= None => variable \in Bytes)
  BY TextAssumption DEF JobTypes
<1>5. ~attached
  BY <1>1 DEF InStep
<1>6. CASE child = "ok"
  <2>1. Says(<<>>, Ok) /\ got = <<>>
    BY <1>2, <1>6 DEF InStep, AtOk
  <2>2. PICK body \in Bytes : Newline \notin ToSet(body) /\ Ok = LineOut(body) /\ Ok \in Bytes
    BY OkLine
  <2>3. typed = LineOut(body) \o <<>> /\ <<>> \in Bytes
    BY <2>1, <2>2, Empty DEF Says
  <2>4. typed' = <<>> /\ child' = "ask" /\ got' = got
    BY <1>6, <2>2, <2>3, StubLine
  <2>5. Says(<<>>, <<>>)'
    BY <1>1, <1>3, <2>1, <2>4 DEF Says
  <2>. QED
    BY <1>1, <1>5, <2>1, <2>4, <2>5 DEF InStep
<1>7. CASE child = "command"
  <2>1. Says(<<>>, WriteString(command)) /\ got = <<>>
    BY <1>2, <1>7 DEF InStep, AtCommand, Says
  <2>2. PICK body \in Bytes :
            /\ Newline \notin ToSet(body) /\ WriteString(command) = LineOut(body)
            /\ Typable(command) => Dequote(Stripped(Edited(LineOut(body)))) = command
    BY <1>4, StubString
  <2>3. typed = LineOut(body) \o <<>> /\ <<>> \in Bytes
    BY <2>1, <2>2, Empty, LineOutIs DEF Says
  <2>4. /\ typed' = <<>> /\ child' = "environment"
        /\ got' = Append(<<>>, Dequote(Stripped(Edited(LineOut(body)))))
    BY <1>7, <2>1, <2>2, <2>3, StubLine
  <2>5. CommandGot'
    <3>1. Typable(command) => got' = Append(<<>>, command)
      BY <2>2, <2>4
    <3>2. Append(<<>>, command) = <<command>>
      OBVIOUS
    <3>. QED
      BY <1>1, <3>1, <3>2 DEF CommandGot
  <2>6. Says(<<>>, <<>>)'
    BY <1>1, <1>3, <2>1, <2>4 DEF Says
  <2>. QED
    BY <1>1, <1>5, <2>4, <2>5, <2>6 DEF InStep
<1>8. CASE child = "variables"
  <2>1. at = "talk" /\ Pending = <<>>
    BY <1>2, <1>8 DEF InStep, AtVariables, Says
  <2>2. CASE /\ typed = LineOut(<<>>) \o <<>>
             /\ AllGot
    <3>1. typed' = <<>> /\ child' = "done" /\ got' = got
      BY <1>8, <2>2, NothingLine, StubLine
    <3>2. AllGot'
      BY <1>1, <2>2, <3>1 DEF AllGot
    <3>. QED
      BY <1>1, <1>3, <1>5, <2>1, <3>1, <3>2 DEF InStep
  <2>3. CASE Says(<<>>, LineOut(Input)) /\ CommandGot /\ variable = None
    <3>1. typed = LineOut(<<>>) \o <<>>
      BY <2>3, NothingLine, Empty DEF Says, Input
    <3>2. AllGot
      BY <2>3 DEF AllGot, CommandGot
    <3>. QED
      BY <2>2, <3>1, <3>2
  <2>4. CASE Says(<<>>, <<Newline>>) /\ AllGot
    <3>1. typed = LineOut(<<>>) \o <<>>
      BY <2>4, NothingLine, Empty DEF Says
    <3>. QED
      BY <2>2, <2>4, <3>1
  <2>5. CASE Says(<<>>, LineOut(Input)) /\ CommandGot /\ variable /= None
    <3>1. PICK body \in Bytes :
              /\ Newline \notin ToSet(body) /\ WriteString(variable) = LineOut(body)
              /\ Typable(variable) => Stripped(Dequote(Edited(LineOut(body)))) = variable
      BY <1>4, <2>5, StubString
    <3>2. typed = LineOut(body) \o <<Newline>> /\ <<Newline>> \in Bytes
      BY <2>5, <3>1, NothingLine DEF Says, Input, LineOut
    <3>. DEFINE variab == Stripped(Dequote(Edited(LineOut(body))))
    <3>3. /\ typed' = <<Newline>>
          /\ variab = <<>> => child' = "done" /\ got' = got
          /\ variab /= <<>> => child' = "variables" /\ got' = Append(got, variab)
      BY <1>8, <3>1, <3>2, StubLine
    <3>4. Typable(variable) => variab = variable /\ variable /= <<>>
      BY <3>1 DEF Typable
    <3>. HIDE DEF variab
    <3>5. CASE variab = <<>>
      <4>1. AllGot'
        BY <1>1, <2>5, <3>4, <3>5 DEF AllGot
      <4>. QED
        BY <1>1, <1>3, <1>5, <2>1, <3>3, <3>5, <4>1 DEF InStep
    <3>6. CASE variab /= <<>>
      <4>1. ASSUME Typable(command), Typable(variable)
            PROVE  got' = <<command, variable>>
        <5>1. got = <<command>> /\ got' = Append(got, variable)
          BY <2>5, <3>3, <3>4, <3>6, <4>1 DEF CommandGot
        <5>2. Append(<<command>>, variable) = <<command, variable>>
          <6>1. command \in Bytes /\ variable \in Bytes
            BY <1>4, <2>5
          <6>. QED
            BY <6>1, AppendPair
        <5>. QED
          BY <5>1, <5>2
      <4>2. AllGot'
        BY <1>1, <2>5, <4>1 DEF AllGot
      <4>3. Says(<<>>, <<Newline>>)'
        BY <1>1, <1>3, <2>1, <3>3 DEF Says
      <4>. QED
        BY <1>1, <1>5, <3>3, <3>6, <4>2, <4>3 DEF InStep, AtVariables
    <3>. QED
      BY <3>5, <3>6
  <2>. QED
    BY <1>2, <1>8, <2>3, <2>4, <2>5 DEF InStep, AtVariables, Says
<1>. QED
  BY <1>1, <1>6, <1>7, <1>8

-----------------------------------------------------------------------------
(* exec() reads.                                                             *)

\* The line that readLine() takes, and what exec() makes of it.
LEMMA TakenLine ==
    ASSUME NEW line \in Bytes, NEW rest \in Bytes, Newline \notin ToSet(line),
           NEW text, text = LineOut(line) \o rest, TakeLine(text)
    PROVE  /\ at = "header" /\ line /= Header => buffer' = rest /\ UNCHANGED <<at, typed>>
           /\ at = "header" /\ line = Header =>
                 buffer' = LineOut(Header) \o rest /\ at' = "login" /\ UNCHANGED typed
           /\ at = "login" /\ line = Header =>
                 buffer' = rest /\ at' = "talk" /\ typed' = typed \o Ok
           /\ at = "talk" /\ line = AskCommand =>
                 buffer' = rest /\ at' = "talk" /\ typed' = typed \o WriteString(command)
           /\ at = "talk" /\ line = AskEnvironment =>
                 buffer' = rest /\ at' = "talk" /\ typed' = LineOut(typed \o Input)
           /\ at = "talk" /\ line = End => at' = "select" /\ UNCHANGED typed
<1>1. LineOf(text) = line /\ RestOf(text) = rest
  BY FirstLine
<1>2. CASE at = "header"
  BY <1>1, <1>2 DEF TakeLine, LineOut
<1>3. CASE at = "login"
  BY <1>1, <1>3 DEF TakeLine, Ok
<1>4. CASE at = "talk"
  BY <1>1, <1>4, TextAssumption DEF TakeLine, LineOut, Input
<1>. QED
  BY <1>2, <1>3, <1>4

\* exec() reads a line, at each step of the stub.
LEMMA TalkTakes ==
    ASSUME JobTypes, FlowTypes, FlowTypes', ~torn, InStep, ReadLine
    PROVE  InStep'
<1>1. /\ UNCHANGED <<command, variable, child, attached, got>>
      /\ at \in {"header", "login", "talk"}
  BY DEF ReadLine, job, childVars
<1>2. Pending \in Bytes /\ Pending /= <<>> /\ TakeLine(Pending) /\ Pending' = buffer'
  BY WholeRead
<1>3. \A line \in {Header, AskCommand, AskEnvironment, End} :
          line \in Bytes /\ Newline \notin ToSet(line)
  BY TextAssumption
<1>4. \A line \in {Header, AskCommand, AskEnvironment, End} :
          LineOut(line) \in Bytes /\ LineOut(line) = LineOut(line) \o <<>>
  BY <1>3, Empty, LineOutIs
<1>5. <<>> \in Bytes
  BY Empty
<1>6. CASE child = "gone"
  BY <1>1, <1>6 DEF InStep
<1>7. CASE child = "login"
  BY <1>2, <1>7 DEF InStep
<1>8. CASE child = "start"
  <2>1. Before /\ Quiet(Pending)
    BY <1>8 DEF InStep
  <2>2. PICK line \in Bytes, rest \in Bytes :
            /\ Pending = LineOut(line) \o rest /\ Newline \notin ToSet(line)
            /\ line /= Header /\ Quiet(rest)
    BY <1>2, <2>1, QuietLine
  <2>3. buffer' = rest /\ UNCHANGED <<at, typed>>
    BY <1>2, <2>1, <2>2, TakenLine DEF Before
  <2>4. Before' /\ Pending' = rest
    BY <1>1, <1>2, <2>1, <2>3 DEF Before
  <2>5. Quiet(Pending)'
    BY <2>2, <2>4 DEF Quiet
  <2>. QED
    BY <1>1, <1>8, <2>4, <2>5 DEF InStep
<1>9. CASE child = "ok"
  <2>1. got = <<>> /\ typed = <<>> /\ AtOk
    BY <1>2, <1>9 DEF InStep, AtOk, Says
  <2>2. CASE at = "header"
    <3>1. PICK p : Quiet(p) /\ Pending = p \o LineOut(Header)
      BY <2>1, <2>2 DEF AtOk, Says
    <3>2. CASE p = <<>>
      <4>1. Pending = LineOut(Header) \o <<>>
        BY <1>4, <3>1, <3>2, Empty
      <4>2. buffer' = LineOut(Header) \o <<>> /\ at' = "login" /\ UNCHANGED typed
        BY <1>2, <1>3, <1>5, <2>2, <4>1, TakenLine
      <4>3. Pending' = LineOut(Header)
        BY <1>2, <1>4, <4>2
      <4>4. AtOk'
        BY <1>1, <2>1, <4>2, <4>3 DEF AtOk, LineOut
      <4>. QED
        BY <1>1, <1>9, <4>4 DEF InStep
    <3>3. CASE p /= <<>>
      <4>1. PICK line \in Bytes, rest \in Bytes :
                /\ p = LineOut(line) \o rest /\ Newline \notin ToSet(line)
                /\ line /= Header /\ Quiet(rest)
        BY <3>1, <3>3, QuietLine
      <4>. DEFINE out == LineOut(Header)
                  first == LineOut(line)
      <4>2. out \in Bytes /\ first \in Bytes
        BY <1>3, LineOutIs
      <4>3. p = first \o rest /\ Pending = p \o out
        BY <3>1, <4>1
      <4>. HIDE DEF out, first
      <4>4. (first \o rest) \o out = first \o (rest \o out)
        BY <4>2, Joins
      <4>5. rest \o out \in Bytes
        BY <4>2, Join
      <4>6. Pending = first \o (rest \o out)
        BY <4>3, <4>4
      <4>. DEFINE tail == rest \o out
      <4>7. tail \in Bytes /\ Pending = LineOut(line) \o tail
        BY <4>5, <4>6 DEF first
      <4>. HIDE DEF tail
      <4>8. buffer' = tail /\ UNCHANGED <<at, typed>>
        BY <1>2, <2>2, <4>1, <4>7, TakenLine
      <4>9. Pending' = rest \o out
        BY <1>2, <4>8 DEF tail
      <4>10. AtOk'
        BY <1>1, <2>1, <2>2, <4>1, <4>8, <4>9 DEF AtOk, LineOut, out
      <4>. QED
        BY <1>1, <1>9, <4>10 DEF InStep
    <3>. QED
      BY <3>2, <3>3
  <2>3. CASE at = "login"
    <3>1. Pending = LineOut(Header) \o <<>>
      BY <1>4, <2>1, <2>3 DEF AtOk, Says
    <3>2. buffer' = <<>> /\ at' = "talk" /\ typed' = <<>> \o Ok
      BY <1>2, <1>3, <1>5, <2>1, <2>3, <3>1, TakenLine
    <3>3. typed' = Ok
      BY <3>2, OkLine, Empty
    <3>4. AtOk'
      BY <1>1, <1>2, <2>1, <3>2, <3>3 DEF AtOk, Says, Ok
    <3>. QED
      BY <1>1, <1>9, <3>4 DEF InStep
  <2>. QED
    BY <1>2, <2>1, <2>2, <2>3 DEF AtOk, Says
<1>10. CASE child = "command"
  <2>1. Says(LineOut(AskCommand), <<>>) /\ got = <<>>
    BY <1>2, <1>10 DEF InStep, AtCommand, Says
  <2>2. Pending = LineOut(AskCommand) \o <<>>
    BY <1>4, <2>1 DEF Says
  <2>3. buffer' = <<>> /\ at' = "talk" /\ typed' = <<>> \o WriteString(command)
    BY <1>2, <1>3, <1>5, <2>1, <2>2, TakenLine DEF Says
  <2>4. typed' = WriteString(command)
    BY <2>3, WriteStrings, Empty
  <2>5. AtCommand' /\ got' = <<>>
    BY <1>1, <1>2, <2>1, <2>3, <2>4 DEF AtCommand, Says, WriteString
  <2>. QED
    BY <1>1, <1>10, <2>5 DEF InStep
<1>11. CASE child = "variables"
  <2>1. Says(LineOut(AskEnvironment), <<>>) /\ CommandGot
    BY <1>2, <1>11 DEF InStep, AtVariables, Says
  <2>2. Pending = LineOut(AskEnvironment) \o <<>>
    BY <1>4, <2>1 DEF Says
  <2>3. buffer' = <<>> /\ at' = "talk" /\ typed' = LineOut(<<>> \o Input)
    BY <1>2, <1>3, <1>5, <2>1, <2>2, TakenLine DEF Says
  <2>4. typed' = LineOut(Input)
    BY <2>3, WriteStrings, Empty DEF Input
  <2>5. LineOut(Input)' = LineOut(Input) /\ CommandGot'
    BY <1>1, <2>1 DEF LineOut, Input, WriteString, CommandGot
  <2>6. AtVariables'
    BY <1>2, <2>3, <2>4, <2>5 DEF AtVariables, Says
  <2>. QED
    BY <1>1, <1>11, <2>6 DEF InStep
<1>12. CASE child = "run"
  <2>1. at = "talk" /\ AtRun /\ AllGot
    BY <1>1, <1>12 DEF InStep, AtRun
  <2>2. PICK o \in Bytes : Pending = LineOut(End) \o o
    BY <2>1 DEF AtRun
  <2>3. at' = "select"
    BY <1>2, <1>3, <2>1, <2>2, TakenLine
  <2>4. AtRun' /\ AllGot'
    BY <1>1, <2>1, <2>3 DEF AtRun, AllGot
  <2>. QED
    BY <1>1, <1>12, <2>4 DEF InStep
<1>13. CASE child \in {"ask", "environment", "done"}
  BY <1>2, <1>13 DEF InStep, Says
<1>. QED
  BY <1>6, <1>7, <1>8, <1>9, <1>10, <1>11, <1>12, <1>13 DEF JobTypes, Stage

\* While no line is torn.
Together == Flow /\ JobTypes /\ Strings /\ (~torn => InStep)

\* The inductive invariant holds at first.
LEMMA TogetherInit == Init => Together
<1>. SUFFICES ASSUME Init
              PROVE  Together
  OBVIOUS
<1>1. Flow /\ JobTypes /\ Strings
  BY FlowInit, TypesInit
<1>2. Pending = <<>>
  BY Empty DEF Init, Pending
<1>3. InStep
  BY <1>2 DEF Init, InStep, Before
<1>. QED
  BY <1>1, <1>3 DEF Together

\* Every step keeps it, when the notices are quiet.
LEMMA TogetherNext ==
    QuietNotices => (Together /\ [Next]_vars => Together')
<1>. SUFFICES ASSUME QuietNotices, Together, [Next]_vars
              PROVE  Together'
  OBVIOUS
<1>1. Flow' /\ JobTypes' /\ Strings'
  BY FlowNext, StringsKept DEF Together
<1>2. FlowTypes /\ FlowTypes' /\ JobTypes /\ torn' = torn
  <2>1. FlowTypes /\ FlowTypes'
    BY <1>1 DEF Together, Flow
  <2>2. torn' = torn
    BY DEF Next, OtherSide, Process, Notice, Asks, Reads, CommandPrints, ChildEnds, LastCloses,
           ReadLine, NoLine, Select, TimeOut, Drain, Check, vars, job
  <2>. QED
    BY <2>1, <2>2 DEF Together
<1>3. ASSUME ~torn
      PROVE  InStep'
  <2>1. InStep
    BY <1>3 DEF Together
  <2>2. CASE UNCHANGED vars
    BY <2>1, <2>2 DEF vars, job, childVars, parentVars, InStep, Before, Pending, Quiet, AtOk, Says,
       AtCommand, AtVariables, AtRun, CommandGot, AllGot, Input
  <2>. QED
    BY <1>2, <1>3, <2>1, <2>2, TalkPrints, TalkReads, TalkOutput, TalkEnds, TalkTakes, TalkWaits
       DEF Next, OtherSide, Process
<1>. QED
  BY <1>1, <1>2, <1>3 DEF Together

\* While no line is torn the conversation stays in step, and the stub reads what was
\* written, provided that what comes before the stub is quiet (ptyprocess.cpp:228-272,
\* stubprocess.cpp:76-92, 117-222, kdesu_stub.c:166-237).
THEOREM StubGetsStringsHolds ==
    ASSUME QuietNotices
    PROVE  Spec => []StubGetsStrings
<1>1. Init => Together
  BY TogetherInit
<1>2. Together /\ [Next]_vars => Together'
  BY TogetherNext
<1>3. Together => StubGetsStrings
  <2>. SUFFICES ASSUME Together, ~torn, child /= "gone"
                PROVE  /\ at /= "failed"
                       /\ child = "run" => AllGot
    BY DEF StubGetsStrings, AllGot
  <2>1. InStep /\ child \in Stage
    BY DEF Together, JobTypes
  <2>. QED
    BY <2>1 DEF InStep, Stage, Before, AtOk, Says, AtCommand, AtVariables, AtRun
<1>. QED
  BY <1>1, <1>2, <1>3, PTL DEF Spec
===============================================================================
