------------------------------ MODULE WireProofs ------------------------------
(***************************************************************************)
(* Theorems about a connection to kdesud, for calls and lines of every     *)
(* length, whatever characters they have, and every way to cut them.       *)
(*                                                                         *)
(* The lexer is recursive functions on the places of a line; what they are *)
(* is shown with the lemmas of CharactersProofs, from the end of the line  *)
(* to its beginning.  Then the words that class Client writes are followed *)
(* through the lexer and doCommand(), and come out as they were.  Last are *)
(* the steps: what is on its way between a program and the daemon is whole *)
(* lines, and their calls are the queue of CommandQueue.                   *)
(***************************************************************************)
EXTENDS Wire, CharactersProofs

-----------------------------------------------------------------------------
(* Characters of a line, and runs of them.                                   *)

Symbol == 0 .. 315

\* Every character is one, the NUL behind the line and what follows it too.
LEMMA CharIs ==
    ASSUME NEW line \in Texts, NEW i \in Nat \ {0}
    PROVE  /\ Char(line, i) \in Symbol /\ Len(line) \in Nat
           /\ Char(line, i) /= Nul => i <= Len(line)
<1>1. Len(line) \in Nat
  BY DEF Texts
<1>2. i <= Len(line) => line[i] \in Symbol
  BY <1>1, ElementOfSeq DEF Texts, Symbol
<1>. QED
  BY <1>1, <1>2 DEF Char, Nul, Symbol

\* The first place from i on that is in a set, when there is one.
LEMMA FirstWhere ==
    ASSUME NEW i \in Nat, NEW n \in Nat, i <= n, NEW T, n \in T
    PROVE  \E j \in i .. n : j \in T /\ \A k \in i .. j - 1 : k \notin T
<1>. DEFINE U == {j \in i .. n : j \in T}
<1>1. U \in SUBSET Nat /\ U /= {}
  BY DEF U
<1>2. PICK j \in U : \A m \in U : j <= m
  BY <1>1, Least
<1>3. \A k \in i .. j - 1 : k \notin T
  BY <1>2
<1>. QED
  BY <1>2, <1>3

\* Behind spaces.
LEMMA PastSpaces ==
    ASSUME NEW line \in Texts, NEW i \in 1 .. Len(line) + 1,
           NEW j, j = FirstFrom(line, i, LAMBDA d : ~IsSpace(d))
    PROVE  /\ j \in i .. Len(line) + 1 /\ ~IsSpace(Char(line, j))
           /\ \A k \in i .. j - 1 : IsSpace(Char(line, k))
<1>. DEFINE n == Len(line) + 1
            T == {k \in i .. n : ~IsSpace(Char(line, k))}
<1>1. n \in Nat /\ i \in Nat /\ i <= n
  BY DEF Texts
<1>2. Char(line, n) = Nul
  BY <1>1 DEF Char
<1>3. n \in T
  BY <1>1, <1>2 DEF IsSpace, Nul, Space
<1>4. \E k \in i .. n : k \in T /\ \A m \in i .. k - 1 : m \notin T
  <2>. HIDE DEF n, T
  <2>. QED
    BY <1>1, <1>3, FirstWhere
<1>5. \E k \in i .. n : ~IsSpace(Char(line, k)) /\ \A m \in i .. k - 1 : ~(~IsSpace(Char(line, m)))
  BY <1>1, <1>4
<1>6. j \in i .. n /\ ~IsSpace(Char(line, j)) /\ \A m \in i .. j - 1 : ~(~IsSpace(Char(line, m)))
  BY <1>5 DEF FirstFrom
<1>. QED
  BY <1>6

\* The end of a word: a space or a control character.
LEMMA WordEnd ==
    ASSUME NEW line \in Texts, NEW i \in 1 .. Len(line) + 1,
           NEW j, j = FirstFrom(line, i, LAMBDA c : IsSpace(c) \/ IsControl(c))
    PROVE  /\ j \in i .. Len(line) + 1
           /\ IsSpace(Char(line, j)) \/ IsControl(Char(line, j))
           /\ \A k \in i .. j - 1 : ~(IsSpace(Char(line, k)) \/ IsControl(Char(line, k)))
<1>. DEFINE n == Len(line) + 1
            T == {k \in i .. n : IsSpace(Char(line, k)) \/ IsControl(Char(line, k))}
<1>1. n \in Nat /\ i \in Nat /\ i <= n
  BY DEF Texts
<1>2. Char(line, n) = Nul
  BY <1>1 DEF Char
<1>3. n \in T
  BY <1>1, <1>2 DEF IsControl, Nul
<1>4. \E k \in i .. n : k \in T /\ \A m \in i .. k - 1 : m \notin T
  <2>. HIDE DEF n, T
  <2>. QED
    BY <1>1, <1>3, FirstWhere
<1>5. \E k \in i .. n : /\ IsSpace(Char(line, k)) \/ IsControl(Char(line, k))
                        /\ \A m \in i .. k - 1 : ~(IsSpace(Char(line, m)) \/ IsControl(Char(line, m)))
  BY <1>1, <1>4
<1>. QED
  BY <1>5 DEF FirstFrom

\* The end of a number: whatever is no digit.
LEMMA NumberEnd ==
    ASSUME NEW line \in Texts, NEW i \in 1 .. Len(line) + 1,
           NEW j, j = FirstFrom(line, i, LAMBDA c : ~IsDigit(c))
    PROVE  /\ j \in i .. Len(line) + 1 /\ ~IsDigit(Char(line, j))
           /\ \A k \in i .. j - 1 : IsDigit(Char(line, k))
<1>. DEFINE n == Len(line) + 1
            T == {k \in i .. n : ~IsDigit(Char(line, k))}
<1>1. n \in Nat /\ i \in Nat /\ i <= n
  BY DEF Texts
<1>2. Char(line, n) = Nul
  BY <1>1 DEF Char
<1>3. n \in T
  BY <1>1, <1>2 DEF IsDigit, Nul, Zero
<1>4. \E k \in i .. n : k \in T /\ \A m \in i .. k - 1 : m \notin T
  <2>. HIDE DEF n, T
  <2>. QED
    BY <1>1, <1>3, FirstWhere
<1>5. \E k \in i .. n : ~IsDigit(Char(line, k)) /\ \A m \in i .. k - 1 : ~(~IsDigit(Char(line, m)))
  BY <1>1, <1>4
<1>6. j \in i .. n /\ ~IsDigit(Char(line, j)) /\ \A m \in i .. j - 1 : ~(~IsDigit(Char(line, m)))
  BY <1>5 DEF FirstFrom
<1>. QED
  BY <1>6

-----------------------------------------------------------------------------
(* Strings in quotes.                                                        *)

StringTokens == [kind : {Tok_none, Tok_str}, text : Texts, next : Nat]

QuotedAt(line, rest, i) ==
    LET c == Char(line, i)
        d == Char(line, i + 1)
        e == Char(line, i + 2)
    IN  IF c = Quote THEN Token(Tok_str, <<>>, i + 1)
        ELSE IF IsControl(c) THEN NoToken(i + 1)
        ELSE IF c /= Backslash THEN Prefixed(c, rest[i + 1])
        ELSE IF IsControl(d) THEN NoToken(i + 2)
        ELSE IF d /= Caret THEN Prefixed(d, rest[i + 2])
        ELSE IF e = Quote \/ IsControl(e) THEN NoToken(i + 3)
        ELSE Prefixed((e - At) % 256, rest[i + 3])

\* Texts that are joined, and single characters.
LEMMA TextJoin ==
    ASSUME NEW a \in Texts, NEW b \in Texts
    PROVE  a \o b \in Texts
BY ConcatProperties DEF Texts

\* Short texts.
LEMMA TextOne ==
    /\ <<>> \in Texts
    /\ \A c \in Symbol : <<c>> \in Texts
BY DEF Texts, Symbol

\* A character more in front of a string is a string.
LEMMA PrefixedIs ==
    ASSUME NEW c \in Symbol, NEW token \in StringTokens
    PROVE  /\ Prefixed(c, token) \in StringTokens
           /\ Prefixed(c, token).kind = token.kind /\ Prefixed(c, token).next = token.next
           /\ Prefixed(c, token).text = <<c>> \o token.text
<1>1. token.text \in Texts /\ <<c>> \in Texts
  BY TextOne DEF StringTokens
<1>. DEFINE t == <<c>> \o token.text
<1>2. t \in Texts
  BY <1>1, TextJoin
<1>3. Prefixed(c, token) = [token EXCEPT !.text = t]
  BY DEF Prefixed
<1>. HIDE DEF t
<1>4. Prefixed(c, token) = [kind |-> token.kind, text |-> t, next |-> token.next]
  BY <1>3 DEF StringTokens
<1>. QED
  BY <1>2, <1>4 DEF StringTokens, t

\* A character written as a caret and a letter.
LEMMA Wraps ==
    ASSUME NEW e \in Symbol
    PROVE  (e - At) % 256 \in Symbol
<1>. DEFINE y == e - At
<1>1. y \in Int
  BY DEF Symbol, At
<1>. HIDE DEF y
<1>2. y % 256 \in 0 .. 255
  BY <1>1
<1>3. y % 256 \in Symbol
  BY <1>2 DEF Symbol
<1>. QED
  BY <1>3 DEF y

\* A string ends where one of its characters ends it, or where the rest of it does.
LEMMA QuotedStep ==
    ASSUME NEW line \in Texts, NEW i \in 1 .. Len(line) + 1, NEW rest,
           \A r \in 1 .. Len(line) + 1 : r > i => rest[r] \in StringTokens,
           NEW t, t = QuotedAt(line, rest, i)
    PROVE  /\ t \in StringTokens
           /\ \/ /\ t.next \in i + 1 .. Len(line) + 2
                 /\ t.kind = Tok_str => t.next <= Len(line) + 1
              \/ \E r \in 1 .. Len(line) + 1 :
                    r > i /\ t.next = rest[r].next /\ t.kind = rest[r].kind
<1>. DEFINE c == Char(line, i)
            d == Char(line, i + 1)
            e == Char(line, i + 2)
            n == Len(line)
            S == 1 .. n + 1
<1>1. n \in Nat /\ i \in Nat \ {0} /\ i <= n + 1
  BY DEF Texts
<1>2. /\ c \in Symbol /\ (c /= Nul => i <= n)
      /\ d \in Symbol /\ (d /= Nul => i + 1 <= n)
      /\ e \in Symbol /\ (e /= Nul => i + 2 <= n)
  <2>1. i + 1 \in Nat \ {0} /\ i + 2 \in Nat \ {0}
    BY <1>1
  <2>. QED
    BY <1>1, <2>1, CharIs
<1>3. \A r \in S : r > i => rest[r] \in StringTokens
  OBVIOUS
<1>4. IsControl(Nul) /\ Quote /= Nul /\ Backslash /= Nul /\ Caret /= Nul
  BY DEF IsControl, Nul, Quote, Backslash, Caret
<1>5. \A kind \in {Tok_none, Tok_str}, next \in Nat :
         /\ Token(kind, <<>>, next) \in StringTokens
         /\ Token(kind, <<>>, next).kind = kind /\ Token(kind, <<>>, next).next = next
  BY TextOne DEF Token, StringTokens
<1>6. Tok_none /= Tok_str
  BY DEF Tok_none, Tok_str
<1>7. ASSUME NEW k \in Symbol, NEW r \in S, r > i, t = Prefixed(k, rest[r])
      PROVE  /\ t \in StringTokens
             /\ \E q \in S : q > i /\ t.next = rest[q].next /\ t.kind = rest[q].kind
  <2>1. rest[r] \in StringTokens
    BY <1>3, <1>7
  <2>. DEFINE token == rest[r]
  <2>2. token \in StringTokens
    BY <2>1
  <2>. HIDE DEF token
  <2>3. t \in StringTokens /\ t.kind = token.kind /\ t.next = token.next
    <3>1. t = Prefixed(k, token)
      BY <1>7 DEF token
    <3>. QED
      BY <2>2, <3>1, PrefixedIs
  <2>. QED
    BY <1>7, <2>3 DEF token
<1>8. t = IF c = Quote THEN Token(Tok_str, <<>>, i + 1)
          ELSE IF IsControl(c) THEN NoToken(i + 1)
          ELSE IF c /= Backslash THEN Prefixed(c, rest[i + 1])
          ELSE IF IsControl(d) THEN NoToken(i + 2)
          ELSE IF d /= Caret THEN Prefixed(d, rest[i + 2])
          ELSE IF e = Quote \/ IsControl(e) THEN NoToken(i + 3)
          ELSE Prefixed((e - At) % 256, rest[i + 3])
  BY DEF QuotedAt
<1>. HIDE DEF c, d, e, n, S
<1>9. CASE c = Quote
  <2>1. ~IsControl(c) /\ c /= Backslash
    BY <1>9 DEF IsControl, Quote, Delete, Backslash
  <2>2. t = Token(Tok_str, <<>>, i + 1)
    BY <1>8, <1>9, <2>1
  <2>. QED
    BY <1>1, <1>2, <1>4, <1>5, <1>9, <2>2 DEF S, n
<1>10. CASE c /= Quote /\ IsControl(c)
  <2>1. c /= Backslash
    BY <1>10 DEF IsControl, Delete, Backslash
  <2>2. t = Token(Tok_none, <<>>, i + 1)
    BY <1>8, <1>10, <2>1 DEF NoToken
  <2>. QED
    BY <1>1, <1>5, <1>6, <2>2 DEF S, n
<1>11. CASE c /= Quote /\ ~IsControl(c) /\ c = Backslash
  <2>0. i <= n
    BY <1>2, <1>4, <1>11
  <2>1. CASE IsControl(d)
    <3>1. d /= Caret
      BY <2>1 DEF IsControl, Delete, Caret
    <3>2. t = Token(Tok_none, <<>>, i + 2)
      BY <1>8, <1>11, <2>1, <3>1 DEF NoToken
    <3>. QED
      BY <1>1, <1>5, <1>6, <2>0, <3>2 DEF S, n
  <2>2. CASE ~IsControl(d) /\ d = Caret
    <3>0. i + 1 <= n
      BY <1>2, <1>4, <2>2
    <3>1. CASE e = Quote \/ IsControl(e)
      <4>1. t = Token(Tok_none, <<>>, i + 3)
        BY <1>8, <1>11, <2>2, <3>1 DEF NoToken
      <4>. QED
        BY <1>1, <1>5, <1>6, <3>0, <4>1 DEF S, n
    <3>2. CASE ~(e = Quote \/ IsControl(e))
      <4>1. t = Prefixed((e - At) % 256, rest[i + 3])
        BY <1>8, <1>11, <2>2, <3>2
      <4>2. e /= Nul
        BY <1>4, <3>2
      <4>3. i + 3 \in S /\ i + 3 > i
        BY <1>1, <1>2, <4>2 DEF S
      <4>4. (e - At) % 256 \in Symbol
        BY <1>2, Wraps
      <4>. QED
        BY <1>7, <4>1, <4>3, <4>4 DEF S, n
    <3>. QED
      BY <3>1, <3>2
  <2>3. CASE ~IsControl(d) /\ d /= Caret
    <3>1. t = Prefixed(d, rest[i + 2])
      BY <1>8, <1>11, <2>3
    <3>2. d /= Nul
      BY <1>4, <2>3
    <3>3. i + 2 \in S /\ i + 2 > i
      BY <1>1, <1>2, <3>2 DEF S
    <3>. QED
      BY <1>2, <1>7, <3>1, <3>3 DEF S, n
  <2>. QED
    BY <2>1, <2>2, <2>3
<1>12. CASE c /= Quote /\ ~IsControl(c) /\ c /= Backslash
  <2>1. t = Prefixed(c, rest[i + 1])
    BY <1>8, <1>12
  <2>2. c /= Nul
    BY <1>4, <1>12
  <2>3. i + 1 \in S /\ i + 1 > i
    BY <1>1, <1>2, <2>2 DEF S
  <2>. QED
    BY <1>2, <1>7, <2>1, <2>3 DEF S, n
<1>. QED
  BY <1>9, <1>10, <1>11, <1>12

IsQuoted(rest, line) ==
    \A i \in 1 .. Len(line) + 1 : rest[i] = QuotedAt(line, rest, i)

\* The lexer goes through a string from the left, at any length.
LEMMA QuotedUnfolds ==
    ASSUME NEW line \in Texts
    PROVE  IsQuoted(Quoted(line), line)
<1>. DEFINE S == 1 .. Len(line) + 1
            step == [p \in [S -> StringTokens] \X S |-> QuotedAt(line, p[1], p[2])]
            size == [i \in S |-> Len(line) + 1 - i]
            B(g) == [i \in S |-> QuotedAt(line, g, i)]
            f == CHOOSE g : g = B(g)
<1>1. Len(line) \in Nat
  BY DEF Texts
<1>2. step \in [[S -> StringTokens] \X S -> StringTokens]
  <2>1. ASSUME NEW g \in [S -> StringTokens], NEW i \in S
        PROVE  QuotedAt(line, g, i) \in StringTokens
    BY QuotedStep
  <2>. HIDE DEF S
  <2>. QED
    BY <2>1
<1>3. Decides(step, S, StringTokens, size)
  <2>1. ASSUME NEW i \in S, NEW g \in [S -> StringTokens], NEW h \in [S -> StringTokens],
               \A r \in S : size[r] < size[i] => g[r] = h[r]
        PROVE  step[<<g, i>>] = step[<<h, i>>]
    <3>1. ASSUME NEW k \in {1, 2, 3}, i + k \in S
          PROVE  g[i + k] = h[i + k]
      <4>1. size[i + k] < size[i]
        BY <1>1, <3>1
      <4>. QED
        BY <2>1, <3>1, <4>1
    <3>2. QuotedAt(line, g, i) = QuotedAt(line, h, i)
      <4>. DEFINE c == Char(line, i)
                  d == Char(line, i + 1)
                  e == Char(line, i + 2)
      <4>1. IsControl(Nul) /\ Caret /= Nul /\ Backslash /= Nul
        BY DEF IsControl, Nul, Caret, Backslash
      <4>2. c /= Nul => i + 1 \in S
        BY <1>1, CharIs
      <4>3. d /= Nul => i + 2 \in S
        <5>1. i + 1 \in Nat \ {0}
          BY <1>1
        <5>. QED
          BY <1>1, <5>1, CharIs
      <4>4. e /= Nul => i + 3 \in S
        <5>1. i + 2 \in Nat \ {0}
          BY <1>1
        <5>. QED
          BY <1>1, <5>1, CharIs
      <4>5. /\ c /= Nul => g[i + 1] = h[i + 1]
            /\ d /= Nul => g[i + 2] = h[i + 2]
            /\ e /= Nul => g[i + 3] = h[i + 3]
        BY <3>1, <4>2, <4>3, <4>4
      <4>6. \A k \in S : QuotedAt(line, g, k) = QuotedAt(line, g, k)
        OBVIOUS
      <4>. HIDE DEF S
      <4>. QED
        BY <4>1, <4>5 DEF QuotedAt
    <3>3. step[<<g, i>>] = QuotedAt(line, g, i) /\ step[<<h, i>>] = QuotedAt(line, h, i)
      <4>. HIDE DEF S
      <4>. QED
        OBVIOUS
    <3>. QED
      BY <3>2, <3>3
  <2>. HIDE DEF step, S, size
  <2>. QED
    BY <2>1 DEF Decides
<1>4. \E g : g = B(g)
  <2>1. size \in [S -> Nat]
    BY <1>1
  <2>2. StringTokens /= {}
    <3>1. [kind |-> Tok_none, text |-> <<>>, next |-> 0] \in StringTokens
      BY TextOne DEF StringTokens
    <3>. QED
      BY <3>1
  <2>. HIDE DEF step, S, size
  <2>3. PICK g \in [S -> StringTokens] : Unfolds(g, step, S)
    BY <1>2, <1>3, <2>1, <2>2, Recursion
  <2>4. \A i \in S : g[i] = step[<<g, i>>]
    BY <2>3 DEF Unfolds
  <2>5. \A i \in S : g[i] = QuotedAt(line, g, i)
    BY <2>4 DEF step
  <2>6. g = B(g)
    BY <2>5
  <2>. QED
    BY <2>6
<1>5. f = B(f)
  <2>. HIDE DEF B
  <2>. QED
    BY <1>4
<1>6. Quoted(line) = f
  BY DEF Quoted, QuotedAt
<1>. HIDE DEF f
<1>7. \A i \in S : f[i] = QuotedAt(line, f, i)
  <2>. HIDE DEF S
  <2>. QED
    BY <1>5
<1>. QED
  BY <1>6, <1>7 DEF IsQuoted

\* From every place, the lexer stops behind the place and no further than behind the
\* NUL; behind a string that was ended by its quote it is still inside.
StaysBehind(line, t, i) ==
    /\ t \in StringTokens /\ t.next \in i + 1 .. Len(line) + 2
    /\ t.kind = Tok_str => t.next <= Len(line) + 1

\* What Quoted makes of the rest of a line: a string, or no token, and not far behind it.
LEMMA QuotedIs ==
    ASSUME NEW line \in Texts, NEW i \in 1 .. Len(line) + 1
    PROVE  StaysBehind(line, Quoted(line)[i], i)
<1>. DEFINE S == 1 .. Len(line) + 1
            size == [k \in S |-> Len(line) + 1 - k]
            rest == Quoted(line)
            P(k) == StaysBehind(line, rest[k], k)
            T == {k \in S : P(k)}
<1>1. Len(line) \in Nat
  BY DEF Texts
<1>2. \A k \in S : rest[k] = QuotedAt(line, rest, k)
  BY QuotedUnfolds DEF IsQuoted
<1>. HIDE DEF rest
<1>3. ASSUME NEW k \in S, \A r \in S : size[r] < size[k] => P(r)
      PROVE  P(k)
  <2>1. ASSUME NEW r \in S, r > k
        PROVE  P(r)
    <3>1. size[r] < size[k]
      BY <1>1, <2>1
    <3>. QED
      BY <1>3, <3>1
  <2>2. \A r \in S : r > k => rest[r] \in StringTokens
    BY <2>1 DEF StaysBehind
  <2>3. /\ rest[k] \in StringTokens
        /\ \/ /\ rest[k].next \in k + 1 .. Len(line) + 2
              /\ rest[k].kind = Tok_str => rest[k].next <= Len(line) + 1
           \/ \E r \in S : r > k /\ rest[k].next = rest[r].next /\ rest[k].kind = rest[r].kind
    <3>. DEFINE t == QuotedAt(line, rest, k)
    <3>1. rest[k] = t
      BY <1>2
    <3>2. /\ t \in StringTokens
          /\ \/ /\ t.next \in k + 1 .. Len(line) + 2
                /\ t.kind = Tok_str => t.next <= Len(line) + 1
             \/ \E r \in S : r > k /\ t.next = rest[r].next /\ t.kind = rest[r].kind
      BY <2>2, QuotedStep
    <3>. HIDE DEF t
    <3>. QED
      BY <3>1, <3>2
  <2>4. ASSUME NEW r \in S, r > k, rest[k].next = rest[r].next, rest[k].kind = rest[r].kind
        PROVE  P(k)
    BY <1>1, <2>1, <2>3, <2>4 DEF StaysBehind
  <2>. QED
    BY <2>3, <2>4 DEF StaysBehind
<1>4. size \in [S -> Nat]
  BY <1>1
<1>. HIDE DEF S, size, P
<1>5. \A k \in S : (\A r \in S : size[r] < size[k] => r \in T) => k \in T
  BY <1>3
<1>6. S \subseteq T
  <2>. HIDE DEF T
  <2>. QED
    BY <1>4, <1>5, Induction DEF Hereditary
<1>. QED
  BY <1>6 DEF P, S, rest

-----------------------------------------------------------------------------
(* Tokens.                                                                   *)

LexTokens == [kind : Nat, text : Texts, next : Nat]

\* A run of characters.
LEMMA RunIs ==
    ASSUME NEW line \in Texts, NEW from \in 1 .. Len(line) + 1, NEW end \in from .. Len(line) + 1
    PROVE  /\ Run(line, from, end) \in Texts
           /\ \A i \in 1 .. Len(Run(line, from, end)) :
                 Run(line, from, end)[i] \in Symbol
<1>. DEFINE run == SubSeq(line, from, end - 1)
<1>1. Len(line) \in Nat /\ from \in Nat \ {0} /\ end \in Nat
  BY DEF Texts
<1>2. run \in Texts
  <2>. DEFINE m == end - 1
  <2>1. m \in 0 .. Len(line) /\ m \in Nat
    BY <1>1
  <2>2. ASSUME NEW k \in from .. m
        PROVE  line[k] \in Symbol
    <3>1. k \in 1 .. Len(line)
      BY <1>1, <2>1
    <3>2. line \in Seq(Symbol)
      BY DEF Texts, Symbol
    <3>. QED
      BY <3>1, <3>2, ElementOfSeq
  <2>. HIDE DEF m
  <2>3. SubSeq(line, from, m) \in Seq(Symbol)
    <3>1. from \in Int /\ m \in Int
      BY <1>1, <2>1
    <3>2. \A k \in from .. m : line[k] \in Symbol
      BY <2>2
    <3>. QED
      BY <3>1, <3>2, SubSeqProperties
  <2>. QED
    BY <2>3 DEF Texts, Symbol, m
<1>. HIDE DEF run
<1>3. \A i \in 1 .. Len(run) : run[i] \in Symbol
  <2>1. run \in Seq(Symbol)
    BY <1>2 DEF Texts, Symbol
  <2>. QED
    BY <2>1, ElementOfSeq
<1>. QED
  BY <1>2, <1>3 DEF Run, run

\* A number token.
LEMMA NumberIs ==
    ASSUME NEW line \in Texts, NEW from \in 1 .. Len(line) + 1, IsDigit(Char(line, from))
    PROVE  /\ Number(line, from) \in LexTokens
           /\ Number(line, from).next \in from + 1 .. Len(line) + 1
<1>. DEFINE end == FirstFrom(line, from, LAMBDA c : ~IsDigit(c))
<1>1. end \in from .. Len(line) + 1 /\ ~IsDigit(Char(line, end))
  BY NumberEnd
<1>2. Number(line, from) = Token(Tok_num, Run(line, from, end), end)
  BY DEF Number
<1>. HIDE DEF end
<1>3. Run(line, from, end) \in Texts
  BY <1>1, RunIs
<1>4. end \in from + 1 .. Len(line) + 1 /\ end \in Nat
  <2>1. end /= from
    BY <1>1
  <2>2. Len(line) \in Nat
    BY DEF Texts
  <2>. QED
    BY <1>1, <2>1, <2>2
<1>. QED
  BY <1>2, <1>3, <1>4 DEF LexTokens, Token, Tok_num

\* A word, which is a keyword or a string.
LEMMA WordIs ==
    ASSUME NEW line \in Texts, NEW from \in 1 .. Len(line) + 1
    PROVE  /\ Word(line, from) \in LexTokens
           /\ Word(line, from).next \in from .. Len(line) + 1
           /\ Word(line, from).next = from =>
                 IsSpace(Char(line, from)) \/ IsControl(Char(line, from))
<1>. DEFINE end == FirstFrom(line, from, LAMBDA c : IsSpace(c) \/ IsControl(c))
            text == Run(line, from, end)
<1>1. /\ end \in from .. Len(line) + 1
      /\ IsSpace(Char(line, end)) \/ IsControl(Char(line, end))
  BY WordEnd
<1>2. Word(line, from) = IF Len(text) = 1 /\ text[1] \in Keywords THEN Token(text[1], text, end)
                         ELSE Token(Tok_str, text, end)
  BY DEF Word
<1>. HIDE DEF end
<1>3. text \in Texts
  BY <1>1, RunIs
<1>. HIDE DEF text
<1>4. end \in Nat
  BY <1>1 DEF Texts
<1>5. \E kind \in Nat : Word(line, from) = Token(kind, text, end)
  <2>1. Keywords \subseteq Nat /\ Tok_str \in Nat
    BY DEF Keywords, Tok_str
  <2>. QED
    BY <1>2, <2>1
<1>6. PICK kind \in Nat : Word(line, from) = Token(kind, text, end)
  BY <1>5
<1>7. Word(line, from) \in LexTokens /\ Word(line, from).next = end
  BY <1>3, <1>4, <1>6 DEF LexTokens, Token
<1>. QED
  BY <1>1, <1>7

\* A token ends behind the place where it was looked for, and inside the line, or it
\* is the last one and ends no further than behind the NUL.
LEMMA LexIs ==
    ASSUME NEW line \in Texts, NEW i \in 1 .. Len(line) + 1, NEW t, t = Lex(line, i)
    PROVE  /\ t \in LexTokens /\ t.next \in i + 1 .. Len(line) + 2
           /\ t.kind \notin {Newline, Tok_none} => t.next <= Len(line) + 1
<1>. DEFINE c == Char(line, i)
            from == IF IsSpace(c) THEN FirstFrom(line, i, LAMBDA d : ~IsSpace(d)) ELSE i
<1>1. Len(line) \in Nat /\ i \in Nat \ {0}
  BY DEF Texts
<1>2. \A kind \in {Tok_none, Newline}, next \in Nat :
         /\ Token(kind, <<>>, next) \in LexTokens
         /\ Token(kind, <<>>, next).kind = kind /\ Token(kind, <<>>, next).next = next
  <2>1. Tok_none \in Nat /\ Newline \in Nat
    BY DEF Tok_none, Newline
  <2>. QED
    BY <2>1, TextOne DEF Token, LexTokens
<1>3. CASE c = Newline
  <2>1. t = Token(Newline, <<>>, i + 1)
    BY <1>3 DEF Lex
  <2>. QED
    BY <1>1, <1>2, <2>1
<1>4. CASE c /= Newline /\ IsControl(c)
  <2>1. t = Token(Tok_none, <<>>, i + 1)
    BY <1>4 DEF Lex, NoToken
  <2>. QED
    BY <1>1, <1>2, <2>1
<1>5. CASE c /= Newline /\ ~IsControl(c)
  <2>1. /\ from \in i .. Len(line) + 1 /\ (from = i => ~IsSpace(c))
    <3>1. CASE IsSpace(c)
      <4>1. from = FirstFrom(line, i, LAMBDA d : ~IsSpace(d))
        BY <3>1
      <4>. HIDE DEF from
      <4>2. from \in i .. Len(line) + 1 /\ ~IsSpace(Char(line, from))
        BY <4>1, PastSpaces
      <4>. QED
        BY <3>1, <4>2
    <3>2. CASE ~IsSpace(c)
      BY <1>1, <3>2
    <3>. QED
      BY <3>1, <3>2
  <2>2. t = IF IsDigit(Char(line, from)) THEN Number(line, from)
            ELSE IF Char(line, from) = Quote THEN Quoted(line)[from + 1]
            ELSE Word(line, from)
    BY <1>5 DEF Lex
  <2>. HIDE DEF from
  <2>3. from \in 1 .. Len(line) + 1
    BY <1>1, <2>1
  <2>4. CASE IsDigit(Char(line, from))
    <3>1. t = Number(line, from)
      BY <2>2, <2>4
    <3>2. t \in LexTokens /\ t.next \in from + 1 .. Len(line) + 1
      BY <2>3, <2>4, <3>1, NumberIs
    <3>. QED
      BY <1>1, <2>1, <3>2
  <2>5. CASE ~IsDigit(Char(line, from)) /\ Char(line, from) = Quote
    <3>1. t = Quoted(line)[from + 1]
      BY <2>2, <2>5
    <3>2. from <= Len(line)
      <4>1. Quote /= Nul
        BY DEF Quote, Nul
      <4>. QED
        BY <1>1, <2>3, <2>5, <4>1, CharIs
    <3>. DEFINE k == from + 1
    <3>3. k \in 1 .. Len(line) + 1 /\ k > i
      BY <1>1, <2>1, <3>2
    <3>. HIDE DEF k
    <3>4. StaysBehind(line, t, k)
      BY <3>1, <3>3, QuotedIs DEF k
    <3>5. t \in LexTokens /\ t.kind \in {Tok_none, Tok_str}
      <4>1. {Tok_none, Tok_str} \subseteq Nat
        BY DEF Tok_none, Tok_str
      <4>. QED
        BY <3>4, <4>1 DEF StaysBehind, StringTokens, LexTokens
    <3>. QED
      BY <1>1, <3>3, <3>4, <3>5 DEF StaysBehind
  <2>6. CASE ~IsDigit(Char(line, from)) /\ Char(line, from) /= Quote
    <3>1. t = Word(line, from)
      BY <2>2, <2>6
    <3>2. /\ t \in LexTokens /\ t.next \in from .. Len(line) + 1
          /\ t.next = from => IsSpace(Char(line, from)) \/ IsControl(Char(line, from))
      BY <2>3, <3>1, WordIs
    <3>3. t.next /= i
      <4>1. CASE from = i
        BY <1>5, <2>1, <3>2, <4>1
      <4>2. CASE from /= i
        BY <1>1, <2>1, <3>2, <4>2
      <4>. QED
        BY <4>1, <4>2
    <3>. QED
      BY <1>1, <2>1, <3>2, <3>3
  <2>. QED
    BY <2>4, <2>5, <2>6
<1>. QED
  BY <1>3, <1>4, <1>5

\* Behind the NUL there is none.
LEMMA LexBehind ==
    ASSUME NEW line \in Texts
    PROVE  /\ Lex(line, Len(line) + 2) \in LexTokens
           /\ Lex(line, Len(line) + 2).kind = Tok_none
<1>. DEFINE i == Len(line) + 2
<1>1. Len(line) \in Nat
  BY DEF Texts
<1>2. Char(line, i) = Nul
  BY <1>1 DEF Char
<1>3. Nul /= Newline /\ IsControl(Nul)
  BY DEF Nul, Newline, IsControl
<1>4. i + 1 \in Nat
  BY <1>1
<1>. HIDE DEF i
<1>5. Lex(line, i) = Token(Tok_none, <<>>, i + 1)
  BY <1>2, <1>3 DEF Lex, NoToken
<1>6. Tok_none \in Nat
  BY DEF Tok_none
<1>7. Token(Tok_none, <<>>, i + 1) \in LexTokens /\ Token(Tok_none, <<>>, i + 1).kind = Tok_none
  BY <1>4, <1>6, TextOne DEF LexTokens, Token
<1>. QED
  BY <1>5, <1>7 DEF i

-----------------------------------------------------------------------------
(* Joined sequences.                                                         *)

\* The length and the elements of joined sequences.
LEMMA JoinParts ==
    ASSUME NEW B, NEW a \in Seq(B), NEW b \in Seq(B)
    PROVE  /\ a \o b \in Seq(B) /\ Len(a \o b) = Len(a) + Len(b) /\ Len(a) \in Nat /\ Len(b) \in Nat
           /\ \A i \in 1 .. Len(a) + Len(b) : (a \o b)[i] = IF i <= Len(a) THEN a[i] ELSE b[i - Len(a)]
           /\ \A i \in 1 .. Len(a) : (a \o b)[i] = a[i]
           /\ \A i \in 1 .. Len(b) : (a \o b)[Len(a) + i] = b[i]
<1>1. /\ a \o b \in Seq(B) /\ Len(a \o b) = Len(a) + Len(b)
      /\ \A i \in 1 .. Len(a) + Len(b) : (a \o b)[i] = IF i <= Len(a) THEN a[i] ELSE b[i - Len(a)]
  BY ConcatProperties
<1>2. Len(a) \in Nat /\ Len(b) \in Nat
  OBVIOUS
<1>3. \A i \in 1 .. Len(a) : (a \o b)[i] = a[i]
  BY <1>1, <1>2
<1>4. ASSUME NEW i \in 1 .. Len(b)
      PROVE  (a \o b)[Len(a) + i] = b[i]
  <2>. DEFINE k == Len(a) + i
  <2>1. k \in 1 .. Len(a) + Len(b) /\ ~(k <= Len(a)) /\ k - Len(a) = i
    BY <1>2
  <2>. HIDE DEF k
  <2>2. (a \o b)[k] = b[i]
    BY <1>1, <2>1
  <2>. QED
    BY <2>2 DEF k
<1>. QED
  BY <1>1, <1>2, <1>3, <1>4

\* The rest of a sequence without its first element.
LEMMA RestOf ==
    ASSUME NEW B, NEW s \in Seq(B), NEW i \in 1 .. Len(s)
    PROVE  After(s, i - 1) = <<s[i]>> \o After(s, i) /\ s[i] \in B
<1>. DEFINE a == After(s, i - 1)
            b == After(s, i)
            c == <<s[i]>>
            n == Len(s)
<1>1. n \in Nat /\ s[i] \in B
  BY ElementOfSeq
<1>2. b \in Seq(B) /\ Len(b) = n - i /\ \A k \in 1 .. n - i : b[k] = s[i + k]
  <2>1. i \in 0 .. Len(s)
    BY <1>1
  <2>. QED
    BY <2>1, CutParts
<1>3. a \in Seq(B) /\ Len(a) = n - (i - 1) /\ \A k \in 1 .. n - (i - 1) : a[k] = s[i - 1 + k]
  <2>. DEFINE j == i - 1
  <2>1. j \in 0 .. Len(s)
    BY <1>1
  <2>. HIDE DEF j
  <2>2. /\ After(s, j) \in Seq(B) /\ Len(After(s, j)) = n - j
        /\ \A k \in 1 .. n - j : After(s, j)[k] = s[j + k]
    BY <2>1, CutParts
  <2>. QED
    BY <2>2 DEF j
<1>4. c \in Seq(B) /\ Len(c) = 1 /\ c[1] = s[i]
  BY <1>1
<1>. HIDE DEF a, b, c, n
<1>5. /\ c \o b \in Seq(B) /\ Len(c \o b) = 1 + (n - i)
      /\ \A k \in 1 .. 1 + (n - i) : (c \o b)[k] = IF k <= 1 THEN c[k] ELSE b[k - 1]
  <2>1. /\ c \o b \in Seq(B) /\ Len(c \o b) = Len(c) + Len(b)
        /\ \A k \in 1 .. Len(c) + Len(b) : (c \o b)[k] = IF k <= Len(c) THEN c[k] ELSE b[k - Len(c)]
    BY <1>2, <1>4, ConcatProperties
  <2>. QED
    BY <1>2, <1>4, <2>1
<1>6. ASSUME NEW k \in 1 .. n - (i - 1)
      PROVE  a[k] = (c \o b)[k]
  <2>1. CASE k = 1
    BY <1>1, <1>3, <1>4, <1>5, <2>1
  <2>2. CASE k /= 1
    <3>1. k - 1 \in 1 .. n - i /\ i + (k - 1) = i - 1 + k /\ k \in 1 .. 1 + (n - i) /\ ~(k <= 1)
      BY <1>1, <2>2
    <3>2. a[k] = s[i - 1 + k] /\ b[k - 1] = s[i + (k - 1)]
      BY <1>2, <1>3, <3>1
    <3>3. (c \o b)[k] = b[k - 1]
      BY <1>5, <3>1
    <3>. QED
      BY <3>1, <3>2, <3>3
  <2>. QED
    BY <2>1, <2>2
<1>7. Len(a) = Len(c \o b)
  BY <1>1, <1>3, <1>5
<1>8. a = c \o b
  BY <1>3, <1>5, <1>6, <1>7, SeqEqual
<1>. QED
  BY <1>1, <1>8 DEF a, b, c

-----------------------------------------------------------------------------
(* The tokens of a line.                                                     *)

TokensAt(line, from, i) ==
    LET token == Lex(line, i)
    IN  IF token.kind \in {Newline, Tok_none} THEN <<token>>
        ELSE <<token>> \o from[token.next]

\* Every token is found behind the one before, and inside the line.
LEMMA LexMoves ==
    ASSUME NEW line \in Texts, NEW i \in 1 .. Len(line) + 2, NEW t, t = Lex(line, i)
    PROVE  /\ t \in LexTokens /\ <<t>> \in Seq(LexTokens)
           /\ t.kind \notin {Newline, Tok_none} => t.next \in i + 1 .. Len(line) + 1
           /\ i <= Len(line) + 1 => t.next <= Len(line) + 2
<1>1. Len(line) \in Nat
  BY DEF Texts
<1>2. CASE i <= Len(line) + 1
  <2>1. i \in 1 .. Len(line) + 1
    BY <1>1, <1>2
  <2>2. /\ t \in LexTokens /\ t.next \in i + 1 .. Len(line) + 2
        /\ t.kind \notin {Newline, Tok_none} => t.next <= Len(line) + 1
    BY <2>1, LexIs
  <2>3. t.kind \notin {Newline, Tok_none} => t.next \in i + 1 .. Len(line) + 1
    BY <1>1, <2>1, <2>2
  <2>. QED
    BY <1>1, <2>2, <2>3
<1>3. CASE ~(i <= Len(line) + 1)
  <2>1. i = Len(line) + 2
    BY <1>1, <1>3
  <2>2. t \in LexTokens /\ t.kind = Tok_none
    BY <2>1, LexBehind
  <2>. QED
    BY <1>3, <2>2
<1>. QED
  BY <1>2, <1>3

IsTokens(from, line) ==
    \A i \in 1 .. Len(line) + 2 : from[i] = TokensAt(line, from, i)

\* The tokens are found one after the other, up to the end, in a line of any length.
LEMMA TokensUnfold ==
    ASSUME NEW line \in Texts
    PROVE  \E from : IsTokens(from, line) /\ Tokens[line] = from[1]
<1>. DEFINE S == 1 .. Len(line) + 2
            V == Seq(LexTokens)
            step == [p \in [S -> V] \X S |-> TokensAt(line, p[1], p[2])]
            size == [i \in S |-> Len(line) + 2 - i]
            B(g) == [i \in S |-> TokensAt(line, g, i)]
            f == CHOOSE g : g = B(g)
<1>1. Len(line) \in Nat
  BY DEF Texts
<1>2. ASSUME NEW i \in S
      PROVE  /\ <<Lex(line, i)>> \in V
             /\ Lex(line, i).kind \notin {Newline, Tok_none} =>
                   Lex(line, i).next \in S /\ size[Lex(line, i).next] < size[i]
  <2>. DEFINE t == Lex(line, i)
  <2>1. t = Lex(line, i)
    OBVIOUS
  <2>. HIDE DEF t
  <2>2. /\ <<t>> \in V
        /\ t.kind \notin {Newline, Tok_none} => t.next \in i + 1 .. Len(line) + 1
    BY <2>1, LexMoves
  <2>3. ASSUME NEW j \in i + 1 .. Len(line) + 1
        PROVE  j \in S /\ size[j] < size[i]
    BY <1>1
  <2>. HIDE DEF V, S, size
  <2>. QED
    BY <2>1, <2>2, <2>3
<1>3. step \in [[S -> V] \X S -> V]
  <2>1. ASSUME NEW g \in [S -> V], NEW i \in S
        PROVE  TokensAt(line, g, i) \in V
    <3>. DEFINE t == Lex(line, i)
    <3>1. CASE t.kind \in {Newline, Tok_none}
      <4>. HIDE DEF S, V
      <4>. QED
        BY <1>2, <3>1 DEF TokensAt
    <3>2. CASE t.kind \notin {Newline, Tok_none}
      <4>1. <<t>> \in V /\ g[t.next] \in V
        <5>. HIDE DEF S, V
        <5>. QED
          BY <1>2, <3>2
      <4>. DEFINE a == <<t>>
                  b == g[t.next]
      <4>2. TokensAt(line, g, i) = a \o b
        BY <3>2 DEF TokensAt
      <4>. HIDE DEF a, b
      <4>3. a \in V /\ b \in V
        BY <4>1 DEF a, b
      <4>. QED
        BY <4>2, <4>3, ConcatProperties
    <3>. QED
      BY <3>1, <3>2
  <2>. HIDE DEF S, V
  <2>. QED
    BY <2>1
<1>4. Decides(step, S, V, size)
  <2>1. ASSUME NEW i \in S, NEW g \in [S -> V], NEW h \in [S -> V],
               \A r \in S : size[r] < size[i] => g[r] = h[r]
        PROVE  step[<<g, i>>] = step[<<h, i>>]
    <3>1. TokensAt(line, g, i) = TokensAt(line, h, i)
      <4>1. Lex(line, i).kind \notin {Newline, Tok_none} =>
              g[Lex(line, i).next] = h[Lex(line, i).next]
        <5>. HIDE DEF S, V, size
        <5>. QED
          BY <1>2, <2>1
      <4>. QED
        BY <4>1 DEF TokensAt
    <3>2. step[<<g, i>>] = TokensAt(line, g, i) /\ step[<<h, i>>] = TokensAt(line, h, i)
      <4>. HIDE DEF S, V
      <4>. QED
        OBVIOUS
    <3>. QED
      BY <3>1, <3>2
  <2>. HIDE DEF step, S, V, size
  <2>. QED
    BY <2>1 DEF Decides
<1>5. \E g : g = B(g)
  <2>1. size \in [S -> Nat]
    BY <1>1
  <2>2. V /= {}
    BY EmptySeq
  <2>. HIDE DEF step, S, V, size
  <2>3. PICK g \in [S -> V] : Unfolds(g, step, S)
    BY <1>3, <1>4, <2>1, <2>2, Recursion
  <2>4. \A i \in S : g[i] = step[<<g, i>>]
    BY <2>3 DEF Unfolds
  <2>5. \A i \in S : g[i] = TokensAt(line, g, i)
    BY <2>4 DEF step
  <2>6. g = B(g)
    BY <2>5
  <2>. QED
    BY <2>6
<1>6. f = B(f)
  <2>. HIDE DEF B
  <2>. QED
    BY <1>5
<1>7. Tokens[line] = f[1]
  BY DEF Tokens, TokensAt
<1>. HIDE DEF f
<1>8. \A i \in S : f[i] = TokensAt(line, f, i)
  <2>. HIDE DEF S
  <2>. QED
    BY <1>6
<1>9. IsTokens(f, line)
  BY <1>8 DEF IsTokens
<1>. QED
  BY <1>7, <1>9

Inside(tokens, line) ==
    /\ tokens \in Seq(LexTokens)
    /\ \A k \in 1 .. Len(tokens) : tokens[k].next <= Len(line) + 2

\* The tokens from any place of a line on are tokens, and none is behind its NUL.
LEMMA FromInside ==
    ASSUME NEW line \in Texts, NEW from, IsTokens(from, line)
    PROVE  \A i \in 1 .. Len(line) + 1 : Inside(from[i], line)
<1>1. IsTokens(from, line)
  OBVIOUS
<1>. DEFINE S == 1 .. Len(line) + 1
            size == [i \in S |-> Len(line) + 1 - i]
            T == {i \in S : Inside(from[i], line)}
<1>2. Len(line) \in Nat
  BY DEF Texts
<1>3. ASSUME NEW i \in S, \A r \in S : size[r] < size[i] => r \in T
      PROVE  i \in T
  <2>. DEFINE t == Lex(line, i)
  <2>1. t = Lex(line, i)
    OBVIOUS
  <2>2. from[i] = IF t.kind \in {Newline, Tok_none} THEN <<t>> ELSE <<t>> \o from[t.next]
    BY <1>1, <1>2 DEF IsTokens, TokensAt
  <2>. HIDE DEF t
  <2>3. /\ t \in LexTokens /\ <<t>> \in Seq(LexTokens)
        /\ t.kind \notin {Newline, Tok_none} => t.next \in i + 1 .. Len(line) + 1
        /\ t.next <= Len(line) + 2
    <3>1. i \in 1 .. Len(line) + 2 /\ i <= Len(line) + 1
      BY <1>2
    <3>. QED
      BY <2>1, <3>1, LexMoves
  <2>4. CASE t.kind \in {Newline, Tok_none}
    <3>1. from[i] = <<t>>
      BY <2>2, <2>4
    <3>2. Inside(<<t>>, line)
      BY <2>3 DEF Inside
    <3>. QED
      BY <3>1, <3>2
  <2>5. CASE t.kind \notin {Newline, Tok_none}
    <3>. DEFINE a == <<t>>
                b == from[t.next]
                n == Len(line) + 2
    <3>1. t.next \in T
      <4>1. ASSUME NEW j \in i + 1 .. Len(line) + 1
            PROVE  j \in S /\ size[j] < size[i]
        BY <1>2
      <4>. HIDE DEF S, size, T
      <4>. QED
        BY <1>3, <2>3, <2>5, <4>1
    <3>2. from[i] = a \o b
      BY <2>2, <2>5
    <3>3. /\ a \in Seq(LexTokens) /\ Len(a) = 1 /\ \A k \in 1 .. Len(a) : a[k].next <= n
      BY <2>3
    <3>4. b \in Seq(LexTokens) /\ \A k \in 1 .. Len(b) : b[k].next <= n
      BY <3>1 DEF Inside
    <3>. HIDE DEF a, b, n
    <3>5. /\ a \o b \in Seq(LexTokens) /\ Len(a \o b) = Len(a) + Len(b) /\ Len(b) \in Nat
          /\ \A k \in 1 .. Len(a) + Len(b) : (a \o b)[k] = IF k <= Len(a) THEN a[k] ELSE b[k - Len(a)]
      <4>1. a \in Seq(LexTokens) /\ b \in Seq(LexTokens)
        BY <3>3, <3>4
      <4>. QED
        BY <4>1, JoinParts
    <3>6. ASSUME NEW k \in 1 .. Len(a) + Len(b)
          PROVE  (a \o b)[k].next <= n
      <4>1. CASE k <= Len(a)
        <5>1. k \in 1 .. Len(a) /\ (a \o b)[k] = a[k]
          BY <3>3, <3>5, <4>1
        <5>. QED
          BY <3>3, <5>1
      <4>2. CASE ~(k <= Len(a))
        <5>1. k - Len(a) \in 1 .. Len(b) /\ (a \o b)[k] = b[k - Len(a)]
          BY <3>3, <3>5, <4>2
        <5>. QED
          BY <3>4, <5>1
      <4>. QED
        BY <4>1, <4>2
    <3>7. Inside(a \o b, line)
      BY <3>5, <3>6 DEF Inside, n
    <3>. QED
      BY <3>2, <3>7
  <2>. QED
    BY <2>4, <2>5
<1>4. size \in [S -> Nat] /\ 1 \in S
  BY <1>2
<1>. HIDE DEF S, size, T
<1>5. S \subseteq T
  BY <1>3, <1>4, Induction DEF Hereditary
<1>6. \A i \in S : Inside(from[i], line)
  BY <1>5 DEF T
<1>. QED
  BY <1>6 DEF S

\* No token of a line ends behind the NUL that follows it.
LEMMA TokensInside ==
    ASSUME NEW line \in Texts
    PROVE  Inside(Tokens[line], line)
<1>1. PICK from : IsTokens(from, line) /\ Tokens[line] = from[1]
  BY TokensUnfold
<1>2. 1 \in 1 .. Len(line) + 1
  BY DEF Texts
<1>. QED
  BY <1>1, <1>2, FromInside

-----------------------------------------------------------------------------
(* The digits of a number.                                                   *)

\* A character more behind a text.
LEMMA TextAppend ==
    ASSUME NEW text \in Texts, NEW c \in 0 .. 315
    PROVE  Append(text, c) \in Texts
BY AppendProperties DEF Texts

NextDigits(f, k) ==
    IF k < 10 THEN <<Zero + k>> ELSE Append(f[k \div 10], Zero + (k % 10))

IsDigits(f, n) == \A k \in 0 .. n : f[k] = NextDigits(f, k)

\* The digits of a number are those of a smaller one and one more.
LEMMA DigitsUnfold ==
    ASSUME NEW n \in 0 .. IntMax + 1
    PROVE  \E f : IsDigits(f, n) /\ Digits[n] = f[n]
<1>. DEFINE S == 0 .. n
            Body(g, k) == IF k < 10 THEN <<Zero + k>> ELSE Append(g[k \div 10], Zero + (k % 10))
            step == [p \in [S -> Texts] \X S |-> Body(p[1], p[2])]
            size == [k \in S |-> k]
            B(g) == [k \in S |-> Body(g, k)]
            f == CHOOSE g : g = B(g)
<1>1. n \in Nat
  BY IntMaxAssumption
<1>2. ASSUME NEW k \in S
      PROVE  /\ k >= 10 => k \div 10 \in S /\ k \div 10 < k
             /\ k < 10 => Zero + k \in 0 .. 315
             /\ Zero + (k % 10) \in 0 .. 315
  <2>1. k \in Nat /\ k % 10 \in 0 .. 9
    BY <1>1
  <2>2. k >= 10 => k \div 10 \in 0 .. k /\ k \div 10 < k
    BY <2>1
  <2>. QED
    BY <1>1, <2>1, <2>2 DEF Zero
<1>3. ASSUME NEW g \in [S -> Texts], NEW k \in S
      PROVE  Body(g, k) \in Texts
  <2>1. CASE k < 10
    <3>1. Body(g, k) = <<Zero + k>>
      BY <2>1
    <3>2. Zero + k \in Symbol
      BY <1>2, <2>1 DEF Symbol
    <3>. QED
      BY <3>1, <3>2, TextOne
  <2>2. CASE ~(k < 10)
    <3>1. Body(g, k) = Append(g[k \div 10], Zero + (k % 10))
      BY <2>2
    <3>2. g[k \div 10] \in Texts /\ Zero + (k % 10) \in 0 .. 315
      <4>1. k \div 10 \in S
        BY <1>1, <1>2, <2>2
      <4>2. Zero + (k % 10) \in 0 .. 315
        BY <1>2
      <4>. HIDE DEF S
      <4>. QED
        BY <4>1, <4>2
    <3>. QED
      BY <3>1, <3>2, TextAppend
  <2>. QED
    BY <2>1, <2>2
<1>4. step \in [[S -> Texts] \X S -> Texts]
  <2>. HIDE DEF Body, S
  <2>. QED
    BY <1>3
<1>5. Decides(step, S, Texts, size)
  <2>1. ASSUME NEW k \in S, NEW g \in [S -> Texts], NEW h \in [S -> Texts],
               \A r \in S : size[r] < size[k] => g[r] = h[r]
        PROVE  step[<<g, k>>] = step[<<h, k>>]
    <3>1. k >= 10 => g[k \div 10] = h[k \div 10]
      <4>1. k >= 10 => k \div 10 \in S /\ k \div 10 < k
        BY <1>2
      <4>2. k >= 10 => size[k \div 10] < size[k]
        BY <4>1
      <4>. QED
        BY <2>1, <4>1, <4>2
    <3>2. Body(g, k) = Body(h, k)
      BY <1>1, <3>1
    <3>3. step[<<g, k>>] = Body(g, k) /\ step[<<h, k>>] = Body(h, k)
      <4>. HIDE DEF Body, S
      <4>. QED
        OBVIOUS
    <3>. QED
      BY <3>2, <3>3
  <2>. HIDE DEF step, S, size
  <2>. QED
    BY <2>1 DEF Decides
<1>6. \E g : g \in [S -> Texts] /\ g = B(g)
  <2>1. size \in [S -> Nat] /\ Texts /= {}
    BY <1>1, TextOne
  <2>. HIDE DEF step, S, size
  <2>2. PICK g \in [S -> Texts] : Unfolds(g, step, S)
    BY <1>4, <1>5, <2>1, Recursion
  <2>3. \A k \in S : g[k] = step[<<g, k>>]
    BY <2>2 DEF Unfolds
  <2>. HIDE DEF Body
  <2>4. \A k \in S : g[k] = Body(g, k)
    BY <2>3 DEF step
  <2>5. g = B(g)
    BY <2>4
  <2>. QED
    BY <2>5
<1>7. f = B(f)
  <2>. HIDE DEF B
  <2>. QED
    BY <1>6
<1>8. Digits[n] = f[n]
  BY DEF Digits
<1>. HIDE DEF f
<1>9. \A k \in S : f[k] = Body(f, k)
  <2>. HIDE DEF Body, S
  <2>. QED
    BY <1>7
<1>10. IsDigits(f, n)
  <2>1. \A k \in S : f[k] = NextDigits(f, k)
    BY <1>9 DEF NextDigits
  <2>. QED
    BY <2>1 DEF IsDigits
<1>. QED
  BY <1>8, <1>10

\* The value of digits, one after the other.
IsValue(value, digits) ==
    /\ value[0] = 0
    /\ \A k \in 1 .. Len(digits) : value[k] = 10 * value[k - 1] + digits[k] - Zero

Counts(digits, n) ==
    \E value \in [0 .. Len(digits) -> Int] : IsValue(value, digits) /\ value[Len(digits)] = n

\* There is only one.
LEMMA OneValue ==
    ASSUME NEW digits \in Texts, NEW f, IsValue(f, digits), NEW g, IsValue(g, digits)
    PROVE  f[Len(digits)] = g[Len(digits)]
<1>. DEFINE n == Len(digits)
            T == {k \in 0 .. n : f[k] = g[k]}
<1>1. n \in Nat
  BY DEF Texts
<1>2. 0 \in T
  BY <1>1 DEF IsValue
<1>3. ASSUME NEW k \in 1 .. n, k - 1 \in T
      PROVE  k \in T
  <2>1. k \in 0 .. n /\ f[k - 1] = g[k - 1]
    BY <1>1, <1>3
  <2>. QED
    BY <2>1 DEF IsValue
<1>. HIDE DEF T
<1>4. 0 .. n \subseteq T
  BY <1>1, <1>2, <1>3, Upward
<1>. QED
  BY <1>1, <1>4 DEF T

\* One more digit.
LEMMA CountsMore ==
    ASSUME NEW digits \in Texts, NEW n \in Int, Counts(digits, n), NEW c \in Symbol
    PROVE  Counts(Append(digits, c), 10 * n + c - Zero)
<1>. DEFINE l == Len(digits)
            more == Append(digits, c)
<1>1. PICK v \in [0 .. l -> Int] : IsValue(v, digits) /\ v[l] = n
  BY DEF Counts
<1>2. l \in Nat
  BY DEF Texts
<1>3. Len(more) = l + 1 /\ more[l + 1] = c /\ \A k \in 1 .. l : more[k] = digits[k]
  BY AppendProperties DEF Texts, Symbol
<1>. DEFINE w == [k \in 0 .. l + 1 |-> IF k <= l THEN v[k] ELSE 10 * n + c - Zero]
<1>. HIDE DEF l, more
<1>4. w \in [0 .. l + 1 -> Int] /\ w[0] = 0 /\ w[l + 1] = 10 * n + c - Zero
  <2>1. \A k \in 0 .. l + 1 : k <= l => k \in 0 .. l
    BY <1>2
  <2>2. 10 * n + c - Zero \in Int
    BY DEF Symbol, Zero
  <2>3. 0 \in 0 .. l + 1 /\ 0 <= l /\ l + 1 \in 0 .. l + 1 /\ ~(l + 1 <= l) /\ v[0] = 0
    BY <1>1, <1>2 DEF IsValue
  <2>. QED
    BY <1>1, <2>1, <2>2, <2>3
<1>5. ASSUME NEW k \in 1 .. l + 1
      PROVE  w[k] = 10 * w[k - 1] + more[k] - Zero
  <2>1. k \in 0 .. l + 1 /\ k - 1 \in 0 .. l + 1 /\ k - 1 <= l
    BY <1>2
  <2>2. w[k - 1] = v[k - 1]
    BY <2>1
  <2>3. CASE k <= l
    <3>1. k \in 1 .. l /\ w[k] = v[k]
      BY <2>1, <2>3
    <3>2. v[k] = 10 * v[k - 1] + digits[k] - Zero
      BY <1>1, <3>1 DEF IsValue, l
    <3>. QED
      BY <1>3, <2>2, <3>1, <3>2
  <2>4. CASE ~(k <= l)
    <3>1. k = l + 1 /\ k - 1 = l
      BY <1>2, <2>4
    <3>. QED
      BY <1>1, <1>3, <1>4, <2>2, <3>1
  <2>. QED
    BY <2>3, <2>4
<1>6. IsValue(w, more)
  BY <1>3, <1>4, <1>5 DEF IsValue
<1>. HIDE DEF w
<1>7. Counts(more, 10 * n + c - Zero)
  BY <1>3, <1>4, <1>6 DEF Counts
<1>. QED
  BY <1>7 DEF more

\* Decimal digits of a number have its value.
AreDigits(digits) ==
    /\ digits \in Texts /\ digits /= <<>>
    /\ \A k \in 1 .. Len(digits) : IsDigit(digits[k])

\* A number is written with digits, and it is what they count.
LEMMA DigitsCount ==
    ASSUME NEW n \in 0 .. IntMax + 1
    PROVE  AreDigits(Digits[n]) /\ Counts(Digits[n], n)
<1>1. PICK f : IsDigits(f, n) /\ Digits[n] = f[n]
  BY DigitsUnfold
<1>. DEFINE S == 0 .. n
            size == [k \in S |-> k]
            T == {k \in S : AreDigits(f[k]) /\ Counts(f[k], k)}
<1>2. n \in Nat
  BY IntMaxAssumption
<1>3. ASSUME NEW k \in S, \A r \in S : size[r] < size[k] => r \in T
      PROVE  k \in T
  <2>1. k \in Nat
    BY <1>2
  <2>2. CASE k < 10
    <3>. DEFINE c == Zero + k
    <3>1. f[k] = <<c>>
      BY <1>1, <2>2 DEF IsDigits, NextDigits
    <3>2. c \in Symbol /\ IsDigit(c)
      BY <2>1, <2>2 DEF Symbol, Zero, IsDigit
    <3>3. c - Zero = k /\ 10 * 0 + c - Zero = k
      BY <2>1 DEF Zero
    <3>. HIDE DEF c
    <3>4. <<>> \in Texts /\ Append(<<>>, c) = <<c>>
      BY TextOne
    <3>5. Counts(<<>>, 0)
      <4>. DEFINE v == [i \in 0 .. 0 |-> 0]
      <4>1. v \in [0 .. Len(<<>>) -> Int] /\ v[Len(<<>>)] = 0 /\ v[0] = 0 /\ 1 .. Len(<<>>) = {}
        OBVIOUS
      <4>2. IsValue(v, <<>>)
        BY <4>1 DEF IsValue
      <4>. HIDE DEF v
      <4>. QED
        BY <4>1, <4>2 DEF Counts
    <3>6. Counts(<<c>>, k)
      <4>. DEFINE none == <<>>
                  zero == 0
      <4>1. none \in Texts /\ zero \in Int /\ Counts(none, zero)
        BY <3>4, <3>5
      <4>2. Append(none, c) = <<c>> /\ 10 * zero + c - Zero = k
        BY <3>3, <3>4
      <4>. HIDE DEF none, zero
      <4>3. Counts(Append(none, c), 10 * zero + c - Zero)
        BY <3>2, <4>1, CountsMore
      <4>. QED
        BY <4>2, <4>3
    <3>7. AreDigits(<<c>>)
      BY <3>2, TextOne DEF AreDigits
    <3>. QED
      BY <3>1, <3>6, <3>7
  <2>3. CASE ~(k < 10)
    <3>. DEFINE d == k \div 10
                r == k % 10
                c == Zero + r
    <3>1. f[k] = Append(f[d], c)
      BY <1>1, <2>3 DEF IsDigits, NextDigits
    <3>2. d \in S /\ d \in Nat /\ size[d] < size[k] /\ r \in 0 .. 9 /\ k = 10 * d + r
      <4>1. d \in 0 .. k /\ d < k /\ r \in 0 .. 9 /\ k = 10 * d + r
        BY <2>1, <2>3
      <4>2. d \in S
        BY <1>2, <2>1, <4>1
      <4>. HIDE DEF d, r
      <4>. QED
        BY <4>1, <4>2
    <3>. HIDE DEF d, r
    <3>3. d \in T
      <4>. HIDE DEF S, size, T
      <4>. QED
        BY <1>3, <3>2
    <3>4. AreDigits(f[d]) /\ Counts(f[d], d)
      BY <3>3
    <3>5. c \in Symbol /\ IsDigit(c) /\ 10 * d + c - Zero = k
      BY <3>2 DEF Symbol, IsDigit, Zero
    <3>. HIDE DEF c
    <3>. DEFINE t == f[d]
    <3>6. t \in Texts /\ Counts(t, d) /\ \A i \in 1 .. Len(t) : IsDigit(t[i])
      BY <3>4 DEF AreDigits
    <3>. HIDE DEF t
    <3>7. Counts(Append(t, c), k)
      BY <3>2, <3>5, <3>6, CountsMore
    <3>8. AreDigits(Append(t, c))
      <4>1. /\ Append(t, c) \in Texts /\ Len(Append(t, c)) = Len(t) + 1 /\ Len(t) \in Nat
            /\ Append(t, c)[Len(t) + 1] = c /\ \A i \in 1 .. Len(t) : Append(t, c)[i] = t[i]
        BY <3>5, <3>6, AppendProperties DEF Texts, Symbol
      <4>2. \A i \in 1 .. Len(t) + 1 : i = Len(t) + 1 \/ i \in 1 .. Len(t)
        BY <4>1
      <4>3. Append(t, c) /= <<>>
        BY <4>1
      <4>. QED
        BY <3>5, <3>6, <4>1, <4>2, <4>3 DEF AreDigits
    <3>. QED
      BY <3>1, <3>7, <3>8 DEF t
  <2>. QED
    BY <2>2, <2>3
<1>4. size \in [S -> Nat] /\ n \in S
  BY <1>2
<1>. HIDE DEF S, size, T
<1>5. S \subseteq T
  <2>1. Hereditary(T, S, size)
    BY <1>3 DEF Hereditary
  <2>. QED
    BY <1>4, <2>1, Induction
<1>. QED
  BY <1>1, <1>4, <1>5 DEF T

-----------------------------------------------------------------------------
(* What a program sends.                                                     *)

\* Bytes are texts.
LEMMA BytesAreTexts ==
    ASSUME NEW s \in Bytes
    PROVE  s \in Texts
BY DEF Bytes, Texts

\* Texts that are joined one after the other.
LEMMA FlattenIs ==
    ASSUME NEW texts \in Seq(Texts)
    PROVE  FlattenSeq(texts) \in Texts
<1>1. PICK joined : IsFlattened(joined, texts, Symbol)
  BY FlattenUnfolds DEF Texts, Symbol
<1>2. Len(texts) \in 0 .. Len(texts)
  OBVIOUS
<1>. QED
  BY <1>1, <1>2 DEF IsFlattened, Texts, Symbol

\* What escape() writes are bytes.
LEMMA EscapeIs ==
    ASSUME NEW text \in Bytes
    PROVE  Escape(text) \in Texts
<1>. DEFINE parts == [i \in DOMAIN text |-> Escaped(text[i])]
<1>1. DOMAIN text = 1 .. Len(text) /\ Len(text) \in Nat
  BY DEF Bytes
<1>2. ASSUME NEW c \in 0 .. 255
      PROVE  Escaped(c) \in Texts
  <2>1. CASE c < 32
    <3>1. Escaped(c) = <<Backslash, Caret, c + At>>
      <4>1. c \notin {Backslash, Quote}
        BY <2>1 DEF Backslash, Quote
      <4>. QED
        BY <2>1, <4>1 DEF Escaped
    <3>2. Backslash \in 0 .. 315 /\ Caret \in 0 .. 315 /\ c + At \in 0 .. 315
      BY <2>1 DEF Backslash, Caret, At
    <3>. QED
      BY <3>1, <3>2 DEF Texts
  <2>2. CASE ~(c < 32) /\ c \in {Backslash, Quote}
    <3>1. Escaped(c) = <<Backslash, c>>
      BY <2>2 DEF Escaped
    <3>2. Backslash \in 0 .. 315 /\ c \in 0 .. 315
      BY DEF Backslash
    <3>. QED
      BY <3>1, <3>2 DEF Texts
  <2>3. CASE ~(c < 32) /\ c \notin {Backslash, Quote}
    <3>1. Escaped(c) = <<c>>
      BY <2>3 DEF Escaped
    <3>2. c \in Symbol
      BY DEF Symbol
    <3>. QED
      BY <3>1, <3>2, TextOne
  <2>. QED
    BY <2>1, <2>2, <2>3
<1>3. \A i \in 1 .. Len(text) : Escaped(text[i]) \in Texts
  <2>1. \A i \in 1 .. Len(text) : text[i] \in 0 .. 255
    BY ElementOfSeq DEF Bytes
  <2>. QED
    BY <1>2, <2>1
<1>4. parts \in Seq(Texts)
  <2>1. parts = [i \in 1 .. Len(text) |-> Escaped(text[i])]
    BY <1>1
  <2>. QED
    BY <1>1, <1>3, <2>1, IsASeq
<1>5. FlattenSeq(parts) \in Texts /\ <<Quote>> \in Texts
  <2>1. Quote \in Symbol
    BY DEF Symbol, Quote
  <2>. HIDE DEF parts
  <2>. QED
    BY <1>4, <2>1, FlattenIs, TextOne
<1>6. Escape(text) = <<Quote>> \o FlattenSeq(parts) \o <<Quote>>
  BY DEF Escape
<1>. HIDE DEF parts
<1>. QED
  BY <1>5, <1>6, TextJoin

\* What setNum() writes are bytes.
LEMMA DecimalIs ==
    ASSUME NEW n \in -IntMax - 1 .. IntMax
    PROVE  Decimal(n) \in Texts
<1>1. IntMax \in Nat
  BY IntMaxAssumption
<1>2. CASE n < 0
  <2>1. -n \in 0 .. IntMax + 1
    BY <1>1, <1>2
  <2>2. Decimal(n) = <<Minus>> \o Digits[-n]
    BY <1>2 DEF Decimal
  <2>3. <<Minus>> \in Texts
    BY TextOne DEF Symbol, Minus
  <2>. QED
    BY <2>1, <2>2, <2>3, DigitsCount, TextJoin DEF AreDigits
<1>3. CASE ~(n < 0)
  <2>1. n \in 0 .. IntMax + 1
    BY <1>1, <1>3
  <2>. QED
    BY <1>3, <2>1, DigitsCount DEF Decimal, AreDigits
<1>. QED
  BY <1>2, <1>3

\* A call is written as a text.
LEMMA LineIs ==
    ASSUME NEW call, IsCall(call)
    PROVE  Line(call) \in Texts
<1>. DEFINE strings == Written(call)
            numbers == call.numbers
            a == [i \in DOMAIN strings |-> Escape(strings[i])]
            b == [i \in DOMAIN numbers |-> Decimal(numbers[i])]
            words == a \o b
            parts == [i \in DOMAIN words |-> <<Space>> \o words[i]]
<1>1. strings \in Seq(Bytes)
  <2>1. CASE call.op = Tok_exec /\ Tail(Tail(call.strings)) = << <<>> >>
    <3>1. call.strings \in Seq(Bytes) /\ Len(call.strings) >= 3
      BY <2>1 DEF IsCall
    <3>2. strings = SubSeq(call.strings, 1, 2)
      BY <2>1 DEF Written
    <3>3. \A i \in 1 .. 2 : call.strings[i] \in Bytes
      BY <3>1, ElementOfSeq
    <3>. QED
      BY <3>2, <3>3, SubSeqProperties
  <2>2. CASE ~(call.op = Tok_exec /\ Tail(Tail(call.strings)) = << <<>> >>)
    BY <2>2 DEF Written, IsCall
  <2>. QED
    BY <2>1, <2>2
<1>2. numbers \in Seq(-IntMax - 1 .. IntMax) /\ call.op \in Symbol
  BY DEF IsCall, Keywords, Symbol
<1>3. Line(call) = <<call.op>> \o FlattenSeq(parts) \o <<Newline>>
  BY DEF Line
<1>. HIDE DEF strings, numbers
<1>4. a \in Seq(Texts)
  <2>1. \A i \in 1 .. Len(strings) : Escape(strings[i]) \in Texts
    BY <1>1, ElementOfSeq, EscapeIs
  <2>2. DOMAIN strings = 1 .. Len(strings) /\ Len(strings) \in Nat
    BY <1>1
  <2>3. a = [i \in 1 .. Len(strings) |-> Escape(strings[i])]
    BY <2>2
  <2>. QED
    BY <2>1, <2>2, <2>3, IsASeq
<1>5. b \in Seq(Texts)
  <2>1. \A i \in 1 .. Len(numbers) : Decimal(numbers[i]) \in Texts
    BY <1>2, ElementOfSeq, DecimalIs
  <2>2. DOMAIN numbers = 1 .. Len(numbers) /\ Len(numbers) \in Nat
    BY <1>2
  <2>3. b = [i \in 1 .. Len(numbers) |-> Decimal(numbers[i])]
    BY <2>2
  <2>. QED
    BY <2>1, <2>2, <2>3, IsASeq
<1>. HIDE DEF a, b
<1>6. words \in Seq(Texts)
  BY <1>4, <1>5, ConcatProperties
<1>. HIDE DEF words
<1>7. <<Space>> \in Texts /\ <<call.op>> \in Texts /\ <<Newline>> \in Texts
  <2>1. Space \in Symbol /\ Newline \in Symbol
    BY DEF Symbol, Space, Newline
  <2>. QED
    BY <1>2, <2>1, TextOne
<1>8. parts \in Seq(Texts)
  <2>1. \A i \in 1 .. Len(words) : <<Space>> \o words[i] \in Texts
    BY <1>6, <1>7, ElementOfSeq, TextJoin
  <2>2. DOMAIN words = 1 .. Len(words) /\ Len(words) \in Nat
    BY <1>6
  <2>3. parts = [i \in 1 .. Len(words) |-> <<Space>> \o words[i]]
    BY <2>2
  <2>. QED
    BY <2>1, <2>2, <2>3, IsASeq
<1>9. FlattenSeq(parts) \in Texts
  BY <1>8, FlattenIs
<1>. HIDE DEF parts
<1>. QED
  BY <1>3, <1>7, <1>9, TextJoin

-----------------------------------------------------------------------------
(* The bytes on their way.                                                   *)

\* The parts of a text are texts.
LEMMA CutText ==
    ASSUME NEW s \in Texts, NEW n \in Nat
    PROVE  FirstOf(s, n) \in Texts /\ After(s, n) \in Texts
<1>1. Len(s) \in Nat
  BY DEF Texts
<1>2. ASSUME NEW i \in 1 .. Len(s)
      PROVE  s[i] \in 0 .. 315
  BY ElementOfSeq DEF Texts
<1>3. ASSUME NEW m \in Nat, m <= Len(s), NEW k \in Nat \ {0}
      PROVE  SubSeq(s, k, m) \in Texts
  <2>1. \A i \in k .. m : s[i] \in 0 .. 315
    BY <1>1, <1>2, <1>3
  <2>2. SubSeq(s, k, m) \in Seq(0 .. 315)
    BY <1>3, <2>1, SubSeqProperties
  <2>. QED
    BY <2>2 DEF Texts
<1>. QED
  BY <1>1, <1>3 DEF FirstOf, After

\* Of the end of a line.
LEMMA EndOfLineIs ==
    ASSUME buf \in Texts
    PROVE  EndOfLine \in Nat /\ FirstLine \in Texts
<1>1. EndOfLine \in 0 .. Len(buf) /\ Len(buf) \in Nat
  BY FirstPlace DEF EndOfLine, Texts
<1>. QED
  BY <1>1, CutText DEF FirstLine

\* Whatever arrives is a text.
Received == stream \in Texts /\ buf \in Texts

\* At first nothing has arrived.
LEMMA InitReceived ==
    ASSUME Init
    PROVE  Received
BY TextOne DEF Init, Received

\* Whatever a program does.
LEMMA ProgramReceived ==
    ASSUME Received, Program
    PROVE  Received'
<1>1. ASSUME NEW line \in Texts, Say(line)
      PROVE  Received'
  BY <1>1, TextJoin DEF Say, Received
<1>2. ASSUME NEW call \in ClientCalls, Call(call)
      PROVE  Received'
  <2>1. Line(call) \in Texts
    BY InputAssumption, LineIs
  <2>. QED
    BY <1>1, <1>2, <2>1 DEF Call
<1>3. ASSUME NEW line \in RawLines, SayRaw(line)
      PROVE  Received'
  <2>1. line \in Texts
    BY <1>3, InputAssumption DEF IsLine
  <2>. QED
    BY <1>1, <1>3, <2>1 DEF SayRaw
<1>4. CASE Return
  BY <1>4 DEF Return, Received, inVars
<1>5. CASE EndOfFile
  BY <1>5 DEF EndOfFile, Received, inVars
<1>6. CASE Drain
  BY <1>6 DEF Drain, Received, inVars
<1>. QED
  BY <1>2, <1>3, <1>4, <1>5, <1>6 DEF Program

\* Whatever the daemon does.
LEMMA DaemonReceived ==
    ASSUME Received, Daemon
    PROVE  Received'
<1>1. <<>> \in Texts
  BY TextOne
<1>2. CASE Recv
  <2>1. PICK n \in 1 .. Len(FirstOf(stream, Room)) :
           LET received == buf \o FirstOf(stream, n)
           IN  IF TooLong(received)
               THEN mode' = "closed" /\ stream' = <<>> /\ buf' = <<>>
               ELSE mode' = "handle" /\ stream' = After(stream, n) /\ buf' = received
    BY <1>2 DEF Recv
  <2>2. FirstOf(stream, n) \in Texts /\ After(stream, n) \in Texts
    BY CutText DEF Received
  <2>3. buf \o FirstOf(stream, n) \in Texts
    BY <2>2, TextJoin DEF Received
  <2>. QED
    BY <1>1, <2>1, <2>2, <2>3 DEF Received
<1>3. CASE DoCommand
  <2>1. Close => Received'
    BY <1>1 DEF Close, Received
  <2>2. Continue => Received'
    BY EndOfLineIs, CutText DEF Continue, Received
  <2>3. PICK call \in {Parsed(FirstLine)} :
           Execute(call) \/ ParseError(call) \/ UnknownCommand(call)
    BY <1>3 DEF DoCommand
  <2>. QED
    BY <2>1, <2>2, <2>3 DEF Execute, ParseError, UnknownCommand
<1>4. CASE Handled
  BY <1>4 DEF Handled, Received, inVars
<1>. QED
  BY <1>2, <1>3, <1>4 DEF Daemon

\* What arrives is a text, for all times.
LEMMA AlwaysReceived ==
    Spec => []Received
<1>1. Received /\ [Next]_vars => Received'
  <2>1. Next => Received \/ ~Received
    OBVIOUS
  <2>2. Received /\ UNCHANGED vars => Received'
    BY DEF Received, vars, inVars
  <2>. QED
    BY <2>2, ProgramReceived, DaemonReceived DEF Next
<1>. QED
  BY <1>1, InitReceived, PTL DEF Spec

\* No line, however long and whatever is in it, makes the lexer read behind the NUL
\* that ends it, though neither the lexer nor doCommand() checks for the end of the
\* input (lexer.cpp:39-42).
THEOREM LexerStaysInsideHolds == Spec => []LexerStaysInside
<1>1. Received => LexerStaysInside
  <2>. SUFFICES ASSUME Received, NEW token \in ToSet(Tokens[FirstLine])
                PROVE  token.next <= Len(FirstLine) + 2
    BY DEF LexerStaysInside
  <2>1. Inside(Tokens[FirstLine], FirstLine)
    BY EndOfLineIs, TokensInside DEF Received
  <2>2. DOMAIN Tokens[FirstLine] = 1 .. Len(Tokens[FirstLine])
    BY <2>1 DEF Inside
  <2>3. PICK k \in DOMAIN Tokens[FirstLine] : token = Tokens[FirstLine][k]
    BY DEF ToSet
  <2>. QED
    BY <2>1, <2>2, <2>3 DEF Inside
<1>. QED
  BY <1>1, AlwaysReceived, PTL

-----------------------------------------------------------------------------
(* What is written in a line.                                                *)

\* A text stands in a line at a place.
StandsAt(line, p, text) ==
    \A k \in 1 .. Len(text) : p + k - 1 <= Len(line) /\ line[p + k - 1] = text[k]

\* Two texts are one text.
LEMMA TextParts ==
    ASSUME NEW a \in Texts, NEW b \in Texts
    PROVE  /\ a \o b \in Texts /\ Len(a) \in Nat /\ Len(b) \in Nat
           /\ Len(a \o b) = Len(a) + Len(b)
           /\ \A i \in 1 .. Len(a) : (a \o b)[i] = a[i]
           /\ \A i \in 1 .. Len(b) : (a \o b)[Len(a) + i] = b[i]
<1>1. /\ a \o b \in Texts /\ Len(a) \in Nat /\ Len(b) \in Nat
      /\ Len(a \o b) = Len(a) + Len(b)
      /\ \A i \in 1 .. Len(a) + Len(b) : (a \o b)[i] = IF i <= Len(a) THEN a[i] ELSE b[i - Len(a)]
  BY ConcatProperties DEF Texts
<1>2. ASSUME NEW i \in 1 .. Len(b)
      PROVE  (a \o b)[Len(a) + i] = b[i]
  <2>. DEFINE k == Len(a) + i
  <2>1. k \in 1 .. Len(a) + Len(b) /\ ~(k <= Len(a)) /\ k - Len(a) = i
    BY <1>1
  <2>. HIDE DEF k
  <2>2. (a \o b)[k] = b[i]
    BY <1>1, <2>1
  <2>. QED
    BY <2>2 DEF k
<1>. QED
  BY <1>1, <1>2

\* Its parts stand one behind the other.
LEMMA AtJoin ==
    ASSUME NEW line \in Texts, NEW p \in Nat, NEW a \in Texts, NEW b \in Texts,
           StandsAt(line, p, a \o b)
    PROVE  StandsAt(line, p, a) /\ StandsAt(line, p + Len(a), b)
<1>1. /\ Len(a) \in Nat /\ Len(b) \in Nat /\ Len(a \o b) = Len(a) + Len(b)
      /\ \A i \in 1 .. Len(a) : (a \o b)[i] = a[i]
      /\ \A i \in 1 .. Len(b) : (a \o b)[Len(a) + i] = b[i]
  BY TextParts
<1>2. ASSUME NEW k \in 1 .. Len(a)
      PROVE  p + k - 1 <= Len(line) /\ line[p + k - 1] = a[k]
  <2>1. k \in 1 .. Len(a \o b)
    BY <1>1
  <2>. QED
    BY <1>1, <2>1 DEF StandsAt
<1>3. ASSUME NEW k \in 1 .. Len(b)
      PROVE  p + Len(a) + k - 1 <= Len(line) /\ line[p + Len(a) + k - 1] = b[k]
  <2>. DEFINE m == Len(a) + k
  <2>1. m \in 1 .. Len(a \o b) /\ p + Len(a) + k - 1 = p + m - 1 /\ (a \o b)[m] = b[k]
    BY <1>1
  <2>. HIDE DEF m
  <2>2. p + m - 1 <= Len(line) /\ line[p + m - 1] = (a \o b)[m]
    BY <2>1 DEF StandsAt
  <2>. QED
    BY <2>1, <2>2
<1>. QED
  BY <1>2, <1>3 DEF StandsAt

\* So do the texts of a sequence.
LEMMA AtFlattened ==
    ASSUME NEW line \in Texts, NEW p \in Nat, NEW texts \in Seq(Texts), NEW joined,
           IsFlattened(joined, texts, Symbol), StandsAt(line, p, FlattenSeq(texts))
    PROVE  \A i \in 1 .. Len(texts) :
              /\ Len(joined[i - 1]) \in Nat /\ Len(texts[i]) \in Nat
              /\ Len(joined[i]) = Len(joined[i - 1]) + Len(texts[i])
              /\ StandsAt(line, p + Len(joined[i - 1]), texts[i])
<1>. DEFINE n == Len(texts)
            T == {i \in 0 .. n : StandsAt(line, p, joined[i])}
<1>1. n \in Nat /\ \A i \in 0 .. n : joined[i] \in Texts
  <2>1. n \in Nat
    OBVIOUS
  <2>2. joined \in [0 .. n -> Texts]
    BY DEF IsFlattened, Texts, Symbol
  <2>. QED
    BY <2>1, <2>2
<1>2. ASSUME NEW i \in 1 .. n
      PROVE  texts[i] \in Texts /\ joined[i - 1] \in Texts /\ joined[i] = joined[i - 1] \o texts[i]
  <2>1. texts[i] \in Texts
    BY ElementOfSeq
  <2>2. i - 1 \in 0 .. n
    BY <1>1
  <2>. QED
    BY <1>1, <2>1, <2>2 DEF IsFlattened
<1>3. n \in T
  BY <1>1 DEF IsFlattened
<1>4. ASSUME NEW i \in 0 .. n - 1, i + 1 \in T
      PROVE  i \in T
  <2>. DEFINE k == i + 1
  <2>1. k \in 1 .. n /\ k - 1 = i /\ StandsAt(line, p, joined[k])
    BY <1>1, <1>4
  <2>. HIDE DEF k
  <2>2. StandsAt(line, p, joined[k - 1])
    <3>1. texts[k] \in Texts /\ joined[k - 1] \in Texts
      BY <1>2, <2>1
    <3>2. StandsAt(line, p, joined[k - 1] \o texts[k])
      BY <1>2, <2>1
    <3>. DEFINE a == joined[k - 1]
                b == texts[k]
    <3>3. a \in Texts /\ b \in Texts /\ StandsAt(line, p, a \o b)
      BY <3>1, <3>2
    <3>. HIDE DEF a, b
    <3>4. StandsAt(line, p, a)
      BY <3>3, AtJoin
    <3>. QED
      BY <3>4 DEF a
  <2>3. i \in 0 .. n
    BY <1>1
  <2>. QED
    BY <2>1, <2>2, <2>3
<1>. HIDE DEF T, n
<1>5. 0 .. n \subseteq T
  BY <1>1, <1>3, <1>4, Downward
<1>6. ASSUME NEW i \in 1 .. n
      PROVE  /\ Len(joined[i - 1]) \in Nat /\ Len(texts[i]) \in Nat
             /\ Len(joined[i]) = Len(joined[i - 1]) + Len(texts[i])
             /\ StandsAt(line, p + Len(joined[i - 1]), texts[i])
  <2>1. i \in T
    BY <1>1, <1>5
  <2>2. StandsAt(line, p, joined[i])
    BY <2>1 DEF T
  <2>3. StandsAt(line, p, joined[i - 1] \o texts[i])
    BY <1>2, <2>2
  <2>. DEFINE a == joined[i - 1]
              b == texts[i]
  <2>4. a \in Texts /\ b \in Texts /\ joined[i] = a \o b /\ StandsAt(line, p, a \o b)
    BY <1>2, <2>3
  <2>. HIDE DEF a, b
  <2>5. /\ Len(a) \in Nat /\ Len(b) \in Nat /\ Len(a \o b) = Len(a) + Len(b)
        /\ StandsAt(line, p + Len(a), b)
    BY <2>4, AtJoin, TextParts
  <2>. QED
    BY <2>4, <2>5 DEF a, b
<1>. QED
  BY <1>6 DEF n

\* A single character.
LEMMA AtOne ==
    ASSUME NEW line \in Texts, NEW p \in Nat \ {0}, NEW c, StandsAt(line, p, <<c>>)
    PROVE  p <= Len(line) /\ line[p] = c /\ Char(line, p) = c
<1>1. 1 \in 1 .. Len(<<c>>) /\ <<c>>[1] = c /\ p + 1 - 1 = p
  OBVIOUS
<1>2. p <= Len(line) /\ line[p] = c
  BY <1>1 DEF StandsAt
<1>. QED
  BY <1>2 DEF Char

-----------------------------------------------------------------------------
(* Strings come back as they were.                                           *)

EscapedChars(text) == [i \in DOMAIN text |-> Escaped(text[i])]

\* How escape() writes the characters it has to.
LEMMA EscapedIs ==
    ASSUME NEW c \in 0 .. 255
    PROVE  Escaped(c) = IF c < 32 THEN <<Backslash, Caret, c + At>>
                        ELSE IF c \in {Backslash, Quote} THEN <<Backslash, c>> ELSE <<c>>
<1>1. c < 32 => c \notin {Backslash, Quote}
  BY DEF Backslash, Quote
<1>. QED
  BY <1>1 DEF Escaped

\* Every character is written as one to three others.
LEMMA EscapedText ==
    ASSUME NEW c \in 0 .. 255
    PROVE  Escaped(c) \in Texts /\ Len(Escaped(c)) \in {1, 2, 3}
<1>1. CASE c < 32
  <2>1. Escaped(c) = <<Backslash, Caret, c + At>>
    BY <1>1, EscapedIs
  <2>2. Backslash \in 0 .. 315 /\ Caret \in 0 .. 315 /\ c + At \in 0 .. 315
    BY <1>1 DEF Backslash, Caret, At
  <2>. QED
    BY <2>1, <2>2 DEF Texts
<1>2. CASE ~(c < 32) /\ c \in {Backslash, Quote}
  <2>1. Escaped(c) = <<Backslash, c>>
    BY <1>2, EscapedIs
  <2>2. Backslash \in 0 .. 315 /\ c \in 0 .. 315
    BY DEF Backslash
  <2>. QED
    BY <2>1, <2>2 DEF Texts
<1>3. CASE ~(c < 32) /\ c \notin {Backslash, Quote}
  <2>1. Escaped(c) = <<c>>
    BY <1>3, EscapedIs
  <2>2. c \in 0 .. 315
    OBVIOUS
  <2>. QED
    BY <2>1, <2>2 DEF Texts
<1>. QED
  BY <1>1, <1>2, <1>3

\* The lexer undoes what escape() does to one character.
LEMMA EscapedRead ==
    ASSUME NEW line \in Texts, NEW q \in 1 .. Len(line), NEW c \in 0 .. 255,
           StandsAt(line, q, Escaped(c))
    PROVE  IF c = Delete THEN Quoted(line)[q].kind = Tok_none
           ELSE Quoted(line)[q] = Prefixed(c, Quoted(line)[q + Len(Escaped(c))])
<1>. DEFINE x == Char(line, q)
            y == Char(line, q + 1)
            z == Char(line, q + 2)
            rest == Quoted(line)
<1>1. Len(line) \in Nat /\ q \in Nat \ {0}
  BY DEF Texts
<1>2. rest[q] = IF x = Quote THEN Token(Tok_str, <<>>, q + 1)
                ELSE IF IsControl(x) THEN NoToken(q + 1)
                ELSE IF x /= Backslash THEN Prefixed(x, rest[q + 1])
                ELSE IF IsControl(y) THEN NoToken(q + 2)
                ELSE IF y /= Caret THEN Prefixed(y, rest[q + 2])
                ELSE IF z = Quote \/ IsControl(z) THEN NoToken(q + 3)
                ELSE Prefixed((z - At) % 256, rest[q + 3])
  <2>1. q \in 1 .. Len(line) + 1
    BY <1>1
  <2>. QED
    BY <2>1, QuotedUnfolds DEF IsQuoted, QuotedAt
<1>. HIDE DEF rest
<1>3. CASE c < 32
  <2>1. Escaped(c) = <<Backslash, Caret, c + At>>
    BY <1>3, EscapedIs
  <2>2. Len(Escaped(c)) = 3 /\ Escaped(c)[1] = Backslash /\ Escaped(c)[2] = Caret /\ Escaped(c)[3] = c + At
    BY <2>1
  <2>3. /\ q + 1 - 1 = q /\ q + 2 - 1 = q + 1 /\ q + 3 - 1 = q + 2
        /\ 1 \in 1 .. 3 /\ 2 \in 1 .. 3 /\ 3 \in 1 .. 3
    BY <1>1
  <2>4. x = Backslash /\ y = Caret /\ z = c + At
    BY <1>1, <2>2, <2>3 DEF StandsAt, Char
  <2>. HIDE DEF x, y, z
  <2>5. /\ x /= Quote /\ ~IsControl(x) /\ ~IsControl(y) /\ z /= Quote /\ ~IsControl(z)
    BY <1>3, <2>4 DEF Backslash, Quote, IsControl, Delete, Caret, At
  <2>6. rest[q] = Prefixed((z - At) % 256, rest[q + 3])
    BY <1>2, <2>4, <2>5
  <2>7. (z - At) % 256 = c
    <3>1. z - At = c
      BY <2>4 DEF At
    <3>2. c % 256 = c
      BY <1>3
    <3>. QED
      BY <3>1, <3>2
  <2>8. c /= Delete
    BY <1>3 DEF Delete
  <2>. QED
    BY <2>2, <2>6, <2>7, <2>8 DEF rest
<1>4. CASE ~(c < 32) /\ c \in {Backslash, Quote}
  <2>1. Escaped(c) = <<Backslash, c>>
    BY <1>4, EscapedIs
  <2>2. Len(Escaped(c)) = 2 /\ Escaped(c)[1] = Backslash /\ Escaped(c)[2] = c
    BY <2>1
  <2>3. /\ q + 1 - 1 = q /\ q + 2 - 1 = q + 1
        /\ 1 \in 1 .. 2 /\ 2 \in 1 .. 2
    BY <1>1
  <2>4. x = Backslash /\ y = c
    BY <1>1, <2>2, <2>3 DEF StandsAt, Char
  <2>. HIDE DEF x, y, z
  <2>5. /\ x /= Quote /\ ~IsControl(x) /\ ~IsControl(y) /\ y /= Caret /\ c /= Delete
    BY <1>4, <2>4 DEF Backslash, Quote, IsControl, Delete, Caret
  <2>6. rest[q] = Prefixed(c, rest[q + 2])
    BY <1>2, <2>4, <2>5
  <2>. QED
    BY <2>2, <2>5, <2>6 DEF rest
<1>5. CASE ~(c < 32) /\ c \notin {Backslash, Quote}
  <2>1. Escaped(c) = <<c>>
    BY <1>5, EscapedIs
  <2>2. Len(Escaped(c)) = 1 /\ x = c
    BY <1>1, <2>1, AtOne
  <2>. HIDE DEF x, y, z
  <2>3. CASE c = Delete
    <3>1. x /= Quote /\ IsControl(x)
      BY <2>2, <2>3 DEF Quote, IsControl, Delete
    <3>2. rest[q] = NoToken(q + 1)
      BY <1>2, <3>1
    <3>. QED
      BY <2>3, <3>2 DEF NoToken, Token, rest
  <2>4. CASE c /= Delete
    <3>1. x /= Quote /\ ~IsControl(x) /\ x /= Backslash
      BY <1>5, <2>2, <2>4 DEF IsControl
    <3>2. rest[q] = Prefixed(c, rest[q + 1])
      BY <1>2, <2>2, <3>1
    <3>. QED
      BY <2>2, <2>4, <3>2 DEF rest
  <2>. QED
    BY <2>3, <2>4
<1>. QED
  BY <1>3, <1>4, <1>5

\* A text of bytes is written character by character.
LEMMA EscapedCharsAre ==
    ASSUME NEW text \in Bytes
    PROVE  /\ EscapedChars(text) \in Seq(Texts) /\ Len(EscapedChars(text)) = Len(text)
           /\ \A i \in 1 .. Len(text) : EscapedChars(text)[i] = Escaped(text[i]) /\ text[i] \in 0 .. 255
<1>1. DOMAIN text = 1 .. Len(text) /\ Len(text) \in Nat
  BY DEF Bytes
<1>2. ASSUME NEW i \in 1 .. Len(text)
      PROVE  text[i] \in 0 .. 255 /\ Escaped(text[i]) \in Texts
  <2>1. text[i] \in 0 .. 255
    BY ElementOfSeq DEF Bytes
  <2>. QED
    BY <2>1, EscapedText
<1>3. EscapedChars(text) = [i \in 1 .. Len(text) |-> Escaped(text[i])]
  BY <1>1 DEF EscapedChars
<1>4. EscapedChars(text) \in Seq(Texts)
  BY <1>1, <1>2, <1>3, IsASeq
<1>5. Len(EscapedChars(text)) = Len(text)
  BY <1>1, <1>3, <1>4
<1>. QED
  BY <1>2, <1>3, <1>4, <1>5

\* Where the characters of a string are in a line.
EscapedAt(line, p, text, joined) ==
    /\ \A i \in 0 .. Len(text) : p + 1 + Len(joined[i]) \in p + 1 .. Len(line)
    /\ Char(line, p) = Quote /\ p <= Len(line)
    /\ Char(line, p + 1 + Len(joined[Len(text)])) = Quote
    /\ p + 1 = p + 1 + Len(joined[0])
    /\ p + Len(Escape(text)) = p + 1 + Len(joined[Len(text)]) + 1
    /\ Len(Escape(text)) \in Nat
    /\ \A i \in 1 .. Len(text) :
          /\ text[i] \in 0 .. 255
          /\ StandsAt(line, p + 1 + Len(joined[i - 1]), Escaped(text[i]))
          /\ p + 1 + Len(joined[i - 1]) + Len(Escaped(text[i])) = p + 1 + Len(joined[i])

\* Between its quotes, in a line, a string is its characters as they are written.
LEMMA EscapeAt ==
    ASSUME NEW line \in Texts, NEW p \in Nat \ {0}, NEW text \in Bytes,
           StandsAt(line, p, Escape(text))
    PROVE  \E joined : EscapedAt(line, p, text, joined)
<1>. DEFINE parts == EscapedChars(text)
            n == Len(text)
            F == FlattenSeq(parts)
            q == <<Quote>>
<1>1. /\ parts \in Seq(Texts) /\ Len(parts) = n
      /\ \A i \in 1 .. n : parts[i] = Escaped(text[i]) /\ text[i] \in 0 .. 255
  BY EscapedCharsAre
<1>2. n \in Nat
  BY DEF Bytes
<1>3. F \in Texts
  BY <1>1, FlattenIs
<1>4. Escape(text) = q \o F \o q
  BY DEF Escape, EscapedChars
<1>5. q \in Texts /\ Len(q) = 1
  <2>1. Quote \in Symbol
    BY DEF Quote, Symbol
  <2>. QED
    BY <2>1, TextOne
<1>6. PICK joined : IsFlattened(joined, parts, Symbol)
  <2>. HIDE DEF parts
  <2>. QED
    BY <1>1, FlattenUnfolds DEF Texts, Symbol
<1>. HIDE DEF parts, F, q
<1>7. q \o F \in Texts /\ Len(q \o F) = 1 + Len(F) /\ Len(F) \in Nat
  <2>1. q \o F \in Texts /\ Len(q \o F) = Len(q) + Len(F) /\ Len(F) \in Nat
    BY <1>3, <1>5, TextParts
  <2>. QED
    BY <1>5, <2>1
<1>. DEFINE qF == q \o F
<1>0. qF \in Texts /\ Len(qF) = 1 + Len(F) /\ Escape(text) = qF \o q
  BY <1>4, <1>7
<1>. HIDE DEF qF
<1>8. Len(qF \o q) = 1 + Len(F) + 1
  <2>1. Len(qF \o q) = Len(qF) + Len(q)
    BY <1>0, <1>5, TextParts
  <2>. QED
    BY <1>0, <1>5, <2>1
<1>9. StandsAt(line, p, qF) /\ StandsAt(line, p + (1 + Len(F)), q)
  <2>1. p \in Nat /\ StandsAt(line, p, qF \o q)
    BY <1>0
  <2>2. StandsAt(line, p, qF) /\ StandsAt(line, p + Len(qF), q)
    BY <1>0, <1>5, <2>1, AtJoin
  <2>. QED
    BY <1>0, <2>2
<1>10. StandsAt(line, p, q) /\ StandsAt(line, p + 1, F)
  <2>1. p \in Nat /\ StandsAt(line, p, q \o F)
    BY <1>9 DEF qF
  <2>2. StandsAt(line, p, q) /\ StandsAt(line, p + Len(q), F)
    BY <1>3, <1>5, <2>1, AtJoin
  <2>. QED
    BY <1>5, <2>2
<1>11. p <= Len(line) /\ Char(line, p) = Quote
  BY <1>10, AtOne DEF q
<1>12. F = joined[n]
  BY <1>1, <1>6 DEF IsFlattened, F
<1>13. joined[0] = <<>>
  BY <1>6 DEF IsFlattened
<1>14. \A i \in 1 .. n :
          /\ Len(joined[i - 1]) \in Nat /\ Len(parts[i]) \in Nat
          /\ Len(joined[i]) = Len(joined[i - 1]) + Len(parts[i])
          /\ StandsAt(line, p + 1 + Len(joined[i - 1]), parts[i])
  <2>1. p + 1 \in Nat /\ StandsAt(line, p + 1, FlattenSeq(parts))
    BY <1>10 DEF F
  <2>. QED
    BY <1>1, <1>6, <2>1, AtFlattened
<1>15. Len(line) \in Nat
  BY DEF Texts
<1>16. p + 1 + Len(F) <= Len(line) /\ Char(line, p + 1 + Len(F)) = Quote
  <2>. DEFINE r == p + (1 + Len(F))
  <2>1. r \in Nat \ {0} /\ r = p + 1 + Len(F)
    BY <1>7
  <2>2. StandsAt(line, r, <<Quote>>)
    BY <1>9 DEF q
  <2>. HIDE DEF r
  <2>. QED
    BY <2>1, <2>2, AtOne
<1>. DEFINE T == {i \in 0 .. n : Len(joined[i]) \in 0 .. Len(F)}
<1>17. 0 .. n \subseteq T
  <2>1. n \in T
    BY <1>2, <1>7, <1>12
  <2>2. ASSUME NEW i \in 0 .. n - 1, i + 1 \in T
        PROVE  i \in T
    <3>. DEFINE k == i + 1
    <3>1. k \in 1 .. n /\ k - 1 = i /\ Len(joined[k]) \in 0 .. Len(F)
      BY <1>2, <2>2
    <3>. HIDE DEF k
    <3>2. /\ Len(joined[k - 1]) \in Nat /\ Len(parts[k]) \in Nat
          /\ Len(joined[k]) = Len(joined[k - 1]) + Len(parts[k])
      BY <1>14, <3>1
    <3>3. Len(joined[k - 1]) \in 0 .. Len(F)
      <4>. DEFINE a == Len(joined[k - 1])
                  b == Len(parts[k])
                  c == Len(joined[k])
                  f == Len(F)
      <4>1. a \in Nat /\ b \in Nat /\ c = a + b /\ f \in Nat /\ c \in 0 .. f
        BY <1>7, <3>1, <3>2
      <4>. HIDE DEF a, b, c, f
      <4>2. a \in 0 .. f
        BY <4>1
      <4>. QED
        BY <4>2 DEF a, f
    <3>. QED
      BY <1>2, <3>1, <3>3
  <2>. HIDE DEF T
  <2>. QED
    BY <1>2, <2>1, <2>2, Downward
<1>18. \A i \in 0 .. n : p + 1 + Len(joined[i]) \in p + 1 .. Len(line)
  <2>. TAKE i \in 0 .. n
  <2>. DEFINE a == Len(joined[i])
              f == Len(F)
              l == Len(line)
  <2>1. a \in 0 .. f /\ f \in Nat /\ l \in Nat /\ p + 1 + f <= l
    BY <1>7, <1>15, <1>16, <1>17
  <2>. HIDE DEF a, f, l
  <2>2. p + 1 + a \in p + 1 .. l
    BY <2>1
  <2>. QED
    BY <2>2 DEF a, l
<1>19. ASSUME NEW i \in 1 .. n
       PROVE  /\ text[i] \in 0 .. 255
              /\ StandsAt(line, p + 1 + Len(joined[i - 1]), Escaped(text[i]))
              /\ p + 1 + Len(joined[i - 1]) + Len(Escaped(text[i])) = p + 1 + Len(joined[i])
  <2>1. parts[i] = Escaped(text[i]) /\ text[i] \in 0 .. 255
    BY <1>1
  <2>2. /\ Len(joined[i - 1]) \in Nat /\ Len(parts[i]) \in Nat
        /\ Len(joined[i]) = Len(joined[i - 1]) + Len(parts[i])
        /\ StandsAt(line, p + 1 + Len(joined[i - 1]), parts[i])
    BY <1>14
  <2>3. p + 1 + Len(joined[i - 1]) + Len(parts[i]) = p + 1 + Len(joined[i])
    <3>. DEFINE a == Len(joined[i - 1])
                b == Len(parts[i])
                c == Len(joined[i])
    <3>1. a \in Nat /\ b \in Nat /\ c = a + b
      BY <2>2
    <3>. HIDE DEF a, b, c
    <3>2. p + 1 + a + b = p + 1 + c
      BY <3>1
    <3>. QED
      BY <3>2 DEF a, b, c
  <2>. QED
    BY <2>1, <2>2, <2>3
<1>20. Len(joined[0]) = 0
  BY <1>13
<1>21. p + 1 = p + 1 + Len(joined[0])
  BY <1>20
<1>22. p + Len(Escape(text)) = p + 1 + Len(joined[n]) + 1 /\ Len(Escape(text)) \in Nat
  <2>1. Len(Escape(text)) = 1 + Len(F) + 1 /\ Len(F) = Len(joined[n])
    BY <1>0, <1>8, <1>12
  <2>. DEFINE f == Len(F)
              g == Len(joined[n])
              e == Len(Escape(text))
  <2>2. f \in Nat /\ f = g /\ e = 1 + f + 1
    BY <1>7, <2>1
  <2>. HIDE DEF e, f, g
  <2>3. p + e = p + 1 + g + 1 /\ e \in Nat
    BY <2>2
  <2>. QED
    BY <2>3 DEF e, f, g
<1>23. Char(line, p + 1 + Len(joined[n])) = Quote
  BY <1>12, <1>16
<1>24. EscapedAt(line, p, text, joined)
  BY <1>11, <1>18, <1>19, <1>21, <1>22, <1>23 DEF EscapedAt
<1>. QED
  BY <1>24

\* A character more in front of a token.
LEMMA PrefixedToken ==
    ASSUME NEW c, NEW kind, NEW text, NEW next
    PROVE  Prefixed(c, Token(kind, text, next)) = Token(kind, <<c>> \o text, next)
<1>. DEFINE t == [kind |-> kind, text |-> text, next |-> next]
            v == <<c>> \o text
<1>1. t.text = text
  OBVIOUS
<1>2. Prefixed(c, t) = [t EXCEPT !.text = v]
  BY <1>1 DEF Prefixed
<1>. HIDE DEF v
<1>3. [t EXCEPT !.text = v] = [kind |-> kind, text |-> v, next |-> next]
  OBVIOUS
<1>. QED
  BY <1>2, <1>3 DEF Token, v

\* What the lexer makes of a string that was written with escape(): the string, or
\* no token when the string has a character 127.
LEMMA StringRead ==
    ASSUME NEW line \in Texts, NEW p \in Nat \ {0}, NEW text \in Bytes,
           StandsAt(line, p, Escape(text))
    PROVE  IF Delete \in ToSet(text) THEN Quoted(line)[p + 1].kind = Tok_none
           ELSE Quoted(line)[p + 1] = Token(Tok_str, text, p + Len(Escape(text)))
<1>. DEFINE n == Len(text)
            rest == Quoted(line)
<1>1. n \in Nat /\ Len(line) \in Nat
  BY DEF Bytes, Texts
<1>2. PICK joined : EscapedAt(line, p, text, joined)
  BY EscapeAt
<1>. DEFINE place(i) == p + 1 + Len(joined[i])
<1>3. /\ \A i \in 0 .. n : place(i) \in p + 1 .. Len(line)
      /\ Char(line, place(n)) = Quote
      /\ p + 1 = place(0)
      /\ p + Len(Escape(text)) = place(n) + 1
      /\ \A i \in 1 .. n :
          /\ text[i] \in 0 .. 255
          /\ StandsAt(line, place(i - 1), Escaped(text[i]))
          /\ place(i - 1) + Len(Escaped(text[i])) = place(i)
  BY <1>2 DEF EscapedAt
<1>. HIDE DEF place
<1>4. \A i \in 0 .. n : place(i) \in 1 .. Len(line) /\ rest[place(i)] \in StringTokens
  <2>. TAKE i \in 0 .. n
  <2>1. place(i) \in 1 .. Len(line) /\ place(i) \in 1 .. Len(line) + 1
    BY <1>1, <1>3
  <2>. QED
    BY <2>1, QuotedIs DEF StaysBehind
<1>5. \A i \in 1 .. n :
         IF text[i] = Delete THEN rest[place(i - 1)].kind = Tok_none
         ELSE rest[place(i - 1)] = Prefixed(text[i], rest[place(i)])
  <2>. TAKE i \in 1 .. n
  <2>1. i - 1 \in 0 .. n
    BY <1>1
  <2>2. /\ place(i - 1) \in 1 .. Len(line) /\ text[i] \in 0 .. 255
        /\ StandsAt(line, place(i - 1), Escaped(text[i]))
        /\ place(i - 1) + Len(Escaped(text[i])) = place(i)
    BY <1>3, <1>4, <2>1
  <2>3. IF text[i] = Delete THEN Quoted(line)[place(i - 1)].kind = Tok_none
        ELSE Quoted(line)[place(i - 1)]
               = Prefixed(text[i], Quoted(line)[place(i - 1) + Len(Escaped(text[i]))])
    BY <2>2, EscapedRead
  <2>. QED
    BY <2>2, <2>3
<1>6. CASE Delete \in ToSet(text)
  <2>1. PICK k \in 1 .. n : text[k] = Delete
    BY <1>1, <1>6 DEF ToSet, Bytes
  <2>. DEFINE T == {i \in 0 .. k - 1 : rest[place(i)].kind = Tok_none}
  <2>2. k - 1 \in T /\ k - 1 \in Nat
    BY <1>1, <1>5, <2>1
  <2>3. ASSUME NEW i \in 0 .. (k - 1) - 1, i + 1 \in T
        PROVE  i \in T
    <3>. DEFINE m == i + 1
    <3>1. m \in 1 .. n /\ m \in 0 .. n /\ m - 1 = i /\ rest[place(m)].kind = Tok_none /\ i \in 0 .. k - 1
      BY <1>1, <2>3
    <3>. HIDE DEF m
    <3>2. CASE text[m] = Delete
      BY <1>5, <3>1, <3>2
    <3>3. CASE text[m] /= Delete
      <4>1. rest[place(i)] = Prefixed(text[m], rest[place(m)])
        BY <1>5, <3>1, <3>3
      <4>2. text[m] \in Symbol
        <5>1. text[m] \in 0 .. 255
          BY <1>3, <3>1
        <5>. QED
          BY <5>1 DEF Symbol
      <4>3. Prefixed(text[m], rest[place(m)]).kind = rest[place(m)].kind
        BY <1>4, <3>1, <4>2, PrefixedIs
      <4>. QED
        BY <3>1, <4>1, <4>3
    <3>. QED
      BY <3>2, <3>3
  <2>. HIDE DEF T
  <2>4. 0 .. k - 1 \subseteq T
    BY <2>2, <2>3, Downward
  <2>5. 0 \in T
    BY <2>2, <2>4
  <2>6. rest[place(0)].kind = Tok_none
    BY <2>5 DEF T
  <2>. QED
    BY <1>3, <1>6, <2>6
<1>7. CASE Delete \notin ToSet(text)
  <2>1. \A i \in 1 .. n : text[i] /= Delete
    BY <1>1, <1>7 DEF ToSet, Bytes
  <2>. DEFINE T == {i \in 0 .. n : rest[place(i)] = Token(Tok_str, After(text, i), place(n) + 1)}
  <2>2. n \in T
    <3>1. place(n) \in 1 .. Len(line) + 1 /\ n \in 0 .. n
      BY <1>1, <1>4
    <3>2. rest[place(n)] = QuotedAt(line, rest, place(n))
      BY <3>1, QuotedUnfolds DEF IsQuoted
    <3>3. rest[place(n)] = Token(Tok_str, <<>>, place(n) + 1)
      BY <1>3, <3>2 DEF QuotedAt
    <3>4. After(text, n) = <<>>
      <4>1. After(text, n) \in Bytes /\ Len(After(text, n)) = n - n
        <5>. DEFINE B == 0 .. 255
        <5>1. text \in Seq(B) /\ Bytes = Seq(B)
          BY DEF Bytes
        <5>. HIDE DEF B
        <5>. QED
          BY <3>1, <5>1, CutParts
      <4>2. Len(After(text, n)) = 0
        BY <1>1, <4>1
      <4>. QED
        BY <4>1, <4>2 DEF Bytes
    <3>. QED
      BY <3>1, <3>3, <3>4
  <2>3. ASSUME NEW i \in 0 .. n - 1, i + 1 \in T
        PROVE  i \in T
    <3>. DEFINE m == i + 1
    <3>1. /\ m \in 1 .. n /\ m \in 0 .. n /\ m - 1 = i /\ i \in 0 .. n
          /\ rest[place(m)] = Token(Tok_str, After(text, m), place(n) + 1)
      BY <1>1, <2>3
    <3>. HIDE DEF m
    <3>2. rest[place(i)] = Prefixed(text[m], rest[place(m)])
      BY <1>5, <2>1, <3>1
    <3>3. After(text, i) = <<text[m]>> \o After(text, m)
      BY <3>1, RestOf DEF Bytes
    <3>4. Prefixed(text[m], rest[place(m)])
             = Token(Tok_str, <<text[m]>> \o After(text, m), place(n) + 1)
      BY <3>1, PrefixedToken
    <3>. QED
      BY <3>1, <3>2, <3>3, <3>4
  <2>. HIDE DEF T
  <2>4. 0 .. n \subseteq T
    BY <1>1, <2>2, <2>3, Downward
  <2>5. rest[place(0)] = Token(Tok_str, After(text, 0), place(n) + 1)
    <3>1. 0 \in T
      BY <1>1, <2>4
    <3>. QED
      BY <3>1 DEF T
  <2>6. After(text, 0) = text
    <3>1. 0 \in 0 .. Len(text)
      BY <1>1
    <3>2. /\ After(text, 0) \in Bytes /\ Len(After(text, 0)) = Len(text) - 0
          /\ \A i \in 1 .. Len(text) - 0 : After(text, 0)[i] = text[0 + i]
      <4>. DEFINE B == 0 .. 255
      <4>1. text \in Seq(B) /\ Bytes = Seq(B)
        BY DEF Bytes
      <4>. HIDE DEF B
      <4>. QED
        BY <3>1, <4>1, CutParts
    <3>3. Len(After(text, 0)) = Len(text) /\ \A i \in 1 .. Len(text) : After(text, 0)[i] = text[i]
      BY <1>1, <3>2
    <3>. QED
      BY <3>2, <3>3, SeqEqual DEF Bytes
  <2>. QED
    BY <1>3, <1>7, <2>5, <2>6
<1>. QED
  BY <1>6, <1>7

-----------------------------------------------------------------------------
(* Numbers come back as they were.                                           *)

\* The numbers of a call are written with the digits of naturals.
LEMMA TextNumbers ==
    ASSUME NEW text \in Texts
    PROVE  Len(text) \in Nat /\ \A k \in 1 .. Len(text) : text[k] \in Symbol /\ text[k] \in Int
<1>1. Len(text) \in Nat
  BY DEF Texts
<1>2. ASSUME NEW k \in 1 .. Len(text)
      PROVE  text[k] \in Symbol /\ text[k] \in Int
  <2>. DEFINE c == text[k]
  <2>1. c \in 0 .. 315
    BY ElementOfSeq DEF Texts
  <2>. HIDE DEF c
  <2>2. c \in Symbol /\ c \in Int
    BY <2>1 DEF Symbol
  <2>. QED
    BY <2>2 DEF c
<1>. QED
  BY <1>1, <1>2

\* toInt() undoes setNum().
LEMMA ToIntIs ==
    ASSUME NEW n \in 0 .. IntMax
    PROVE  ToInt(Digits[n]) = n
<1>. DEFINE digits == Digits[n]
            S == 0 .. Len(digits)
            Body(g, k) == IF k = 0 THEN 0 ELSE 10 * g[k - 1] + digits[k] - Zero
            step == [p \in [S -> Int] \X S |-> Body(p[1], p[2])]
            size == [k \in S |-> k]
            B(g) == [k \in S |-> Body(g, k)]
            f == CHOOSE g : g = B(g)
<1>1. n \in 0 .. IntMax + 1 /\ IntMax \in Nat
  BY IntMaxAssumption
<1>2. digits \in Texts /\ Counts(digits, n)
  BY <1>1, DigitsCount DEF AreDigits
<1>3. ToInt(digits) = IF f[Len(digits)] <= IntMax THEN f[Len(digits)] ELSE 0
  BY DEF ToInt
<1>. HIDE DEF digits
<1>4. Len(digits) \in Nat /\ \A k \in 1 .. Len(digits) : digits[k] \in Int
  BY <1>2, TextNumbers
<1>5. ASSUME NEW k \in S
      PROVE  /\ k \in Nat
             /\ k /= 0 => k - 1 \in S /\ k - 1 < k /\ digits[k] \in Int
  BY <1>4
<1>6. step \in [[S -> Int] \X S -> Int]
  <2>1. ASSUME NEW g \in [S -> Int], NEW k \in S
        PROVE  Body(g, k) \in Int
    <3>1. k /= 0 => g[k - 1] \in Int
      <4>. HIDE DEF S
      <4>. QED
        BY <1>5
    <3>. QED
      BY <1>5, <3>1 DEF Zero
  <2>. HIDE DEF Body, S
  <2>. QED
    BY <2>1
<1>7. Decides(step, S, Int, size)
  <2>1. ASSUME NEW k \in S, NEW g \in [S -> Int], NEW h \in [S -> Int],
               \A r \in S : size[r] < size[k] => g[r] = h[r]
        PROVE  step[<<g, k>>] = step[<<h, k>>]
    <3>1. k /= 0 => g[k - 1] = h[k - 1]
      <4>1. k /= 0 => k - 1 \in S /\ size[k - 1] < size[k]
        BY <1>5
      <4>. HIDE DEF S, size
      <4>. QED
        BY <2>1, <4>1
    <3>2. Body(g, k) = Body(h, k)
      BY <3>1
    <3>3. step[<<g, k>>] = Body(g, k) /\ step[<<h, k>>] = Body(h, k)
      <4>. HIDE DEF Body, S
      <4>. QED
        OBVIOUS
    <3>. QED
      BY <3>2, <3>3
  <2>. HIDE DEF step, S, size
  <2>. QED
    BY <2>1 DEF Decides
<1>8. \E g : g = B(g)
  <2>1. size \in [S -> Nat] /\ Int /= {}
    BY <1>5
  <2>. HIDE DEF step, S, size
  <2>2. PICK g \in [S -> Int] : Unfolds(g, step, S)
    BY <1>6, <1>7, <2>1, Recursion
  <2>3. \A k \in S : g[k] = step[<<g, k>>]
    BY <2>2 DEF Unfolds
  <2>. HIDE DEF Body
  <2>4. \A k \in S : g[k] = Body(g, k)
    BY <2>3 DEF step
  <2>5. g = B(g)
    BY <2>4
  <2>. QED
    BY <2>5
<1>9. f = B(f)
  <2>. HIDE DEF B
  <2>. QED
    BY <1>8
<1>. HIDE DEF f
<1>10. \A k \in S : f[k] = Body(f, k)
  <2>. HIDE DEF Body, S
  <2>. QED
    BY <1>9
<1>11. IsValue(f, digits)
  <2>1. 0 \in S /\ \A k \in 1 .. Len(digits) : k \in S /\ k /= 0
    BY <1>4
  <2>. HIDE DEF S
  <2>. QED
    BY <1>10, <2>1 DEF IsValue
<1>12. PICK v \in [0 .. Len(digits) -> Int] : IsValue(v, digits) /\ v[Len(digits)] = n
  BY <1>2 DEF Counts
<1>13. f[Len(digits)] = n
  BY <1>2, <1>11, <1>12, OneValue
<1>14. ToInt(digits) = n
  BY <1>1, <1>3, <1>13
<1>. QED
  BY <1>14 DEF digits

-----------------------------------------------------------------------------
(* The words of a line are read one by one.                                  *)

\* Behind one space there is a word.
LEMMA LexAfterSpace ==
    ASSUME NEW line \in Texts, NEW i \in Nat \ {0}, i + 1 <= Len(line),
           Char(line, i) = Space, ~IsSpace(Char(line, i + 1))
    PROVE  Lex(line, i) = IF IsDigit(Char(line, i + 1)) THEN Number(line, i + 1)
                          ELSE IF Char(line, i + 1) = Quote THEN Quoted(line)[i + 2]
                          ELSE Word(line, i + 1)
<1>. DEFINE from == FirstFrom(line, i, LAMBDA d : ~IsSpace(d))
            c == Char(line, i)
<1>1. Len(line) \in Nat /\ i \in 1 .. Len(line) + 1
  BY DEF Texts
<1>2. IsSpace(c) /\ c /= Newline /\ ~IsControl(c)
  BY DEF IsSpace, Space, Newline, IsControl, Delete
<1>3. Lex(line, i) = IF IsDigit(Char(line, from)) THEN Number(line, from)
                     ELSE IF Char(line, from) = Quote THEN Quoted(line)[from + 1]
                     ELSE Word(line, from)
  BY <1>2 DEF Lex
<1>. DEFINE j == from
<1>4. j = FirstFrom(line, i, LAMBDA d : ~IsSpace(d))
  OBVIOUS
<1>. HIDE DEF from
<1>5. /\ j \in i .. Len(line) + 1 /\ ~IsSpace(Char(line, j))
      /\ \A k \in i .. j - 1 : IsSpace(Char(line, k))
  <2>. HIDE DEF j
  <2>. QED
    BY <1>1, <1>4, PastSpaces
<1>6. j = i + 1
  <2>1. j /= i
    BY <1>2, <1>5
  <2>2. CASE j > i + 1
    <3>1. i + 1 \in i .. j - 1
      BY <1>1, <1>5, <2>2
    <3>. QED
      BY <1>5, <3>1
  <2>. QED
    BY <1>1, <1>5, <2>1, <2>2
<1>7. from = i + 1 /\ from + 1 = i + 2
  BY <1>6
<1>. QED
  BY <1>3, <1>7

\* A part of a line that is cut out of it again.
LEMMA RunAt ==
    ASSUME NEW line \in Texts, NEW p \in Nat \ {0}, NEW text \in Texts, text /= <<>>,
           StandsAt(line, p, text)
    PROVE  /\ Run(line, p, p + Len(text)) = text
           /\ p + Len(text) <= Len(line) + 1 /\ Len(text) \in Nat \ {0}
           /\ Char(line, p) = text[1]
           /\ \A k \in 1 .. Len(text) : Char(line, p + k - 1) = text[k]
<1>1. Len(line) \in Nat /\ Len(text) \in Nat \ {0}
  BY DEF Texts
<1>2. \A k \in 1 .. Len(text) : p + k - 1 <= Len(line) /\ line[p + k - 1] = text[k]
  BY DEF StandsAt
<1>. DEFINE n == Len(text)
            l == Len(line)
            e == p + n - 1
<1>3. n \in Nat \ {0} /\ l \in Nat /\ n \in 1 .. n /\ 1 \in 1 .. n
  BY <1>1
<1>4. e <= l
  BY <1>2, <1>3
<1>. HIDE DEF n, l
<1>5. e \in Nat /\ p + n - 1 = e /\ p + n <= l + 1 /\ e - p + 1 = n
  BY <1>3, <1>4
<1>. DEFINE cut == SubSeq(line, p, e)
<1>6. cut \in Texts /\ Len(cut) = n /\ \A k \in 1 .. n : cut[k] = line[p + k - 1]
  <2>1. \A k \in p .. e : line[k] \in 0 .. 315
    <3>1. \A k \in p .. e : k \in 1 .. l
      BY <1>3, <1>4, <1>5
    <3>. QED
      BY <3>1, ElementOfSeq DEF Texts, l
  <2>. HIDE DEF e
  <2>2. /\ SubSeq(line, p, e) \in Seq(0 .. 315)
        /\ Len(SubSeq(line, p, e)) = IF p <= e THEN e - p + 1 ELSE 0
        /\ \A k \in 1 .. e - p + 1 : SubSeq(line, p, e)[k] = line[p + k - 1]
    BY <1>5, <2>1, SubSeqProperties
  <2>3. p <= e
    BY <1>3, <1>5
  <2>. QED
    BY <1>5, <2>2, <2>3 DEF Texts
<1>. HIDE DEF cut
<1>7. \A k \in 1 .. n : cut[k] = text[k]
  BY <1>2, <1>6 DEF n
<1>8. cut = text
  BY <1>6, <1>7, SeqEqual DEF Texts, n
<1>9. Run(line, p, p + Len(text)) = text
  BY <1>8 DEF Run, cut, n
<1>10. \A k \in 1 .. n : Char(line, p + k - 1) = text[k]
  BY <1>2 DEF Char, n
<1>11. Char(line, p) = text[1]
  <2>1. p + 1 - 1 = p
    OBVIOUS
  <2>. QED
    BY <1>3, <1>10, <2>1
<1>. QED
  BY <1>1, <1>5, <1>9, <1>10, <1>11 DEF n, l

\* A number that was written with setNum() is read up to its end.
LEMMA NumberRead ==
    ASSUME NEW line \in Texts, NEW p \in Nat \ {0}, NEW digits, AreDigits(digits),
           StandsAt(line, p, digits), ~IsDigit(Char(line, p + Len(digits)))
    PROVE  /\ IsDigit(Char(line, p))
           /\ Number(line, p) = Token(Tok_num, digits, p + Len(digits))
<1>1. /\ digits \in Texts /\ Run(line, p, p + Len(digits)) = digits
      /\ p + Len(digits) <= Len(line) + 1 /\ Len(digits) \in Nat \ {0}
      /\ Char(line, p) = digits[1]
      /\ \A k \in 1 .. Len(digits) : Char(line, p + k - 1) = digits[k]
  BY RunAt DEF AreDigits
<1>. DEFINE n == Len(digits)
            l == Len(line)
            end == FirstFrom(line, p, LAMBDA c : ~IsDigit(c))
            j == end
<1>2. l \in Nat /\ p \in 1 .. l + 1 /\ n \in Nat \ {0} /\ p + n <= l + 1
  <2>1. l \in Nat
    BY DEF Texts
  <2>2. n \in Nat \ {0} /\ p + n <= l + 1
    BY <1>1
  <2>. HIDE DEF l, n
  <2>. QED
    BY <2>1, <2>2
<1>3. j = FirstFrom(line, p, LAMBDA c : ~IsDigit(c))
  OBVIOUS
<1>4. Number(line, p) = Token(Tok_num, Run(line, p, end), end)
  BY DEF Number
<1>. HIDE DEF end
<1>5. /\ j \in p .. l + 1 /\ ~IsDigit(Char(line, j))
      /\ \A k \in p .. j - 1 : IsDigit(Char(line, k))
  <2>. HIDE DEF j
  <2>. QED
    BY <1>2, <1>3, NumberEnd
<1>6. \A k \in 1 .. n : IsDigit(Char(line, p + k - 1))
  BY <1>1 DEF AreDigits
<1>7. ~IsDigit(Char(line, p + n))
  OBVIOUS
<1>. HIDE DEF n, l, j
<1>8. j = p + n
  <2>1. CASE j < p + n
    <3>. DEFINE k == j - p + 1
    <3>1. k \in 1 .. n /\ p + k - 1 = j
      BY <1>2, <1>5, <2>1
    <3>. HIDE DEF k
    <3>. QED
      BY <1>5, <1>6, <3>1
  <2>2. CASE j > p + n
    <3>1. p + n \in p .. j - 1
      BY <1>2, <1>5, <2>2
    <3>. QED
      BY <1>5, <1>7, <3>1
  <2>. QED
    BY <1>2, <1>5, <2>1, <2>2
<1>9. IsDigit(Char(line, p))
  <2>1. 1 \in 1 .. n /\ p + 1 - 1 = p
    BY <1>2
  <2>. QED
    BY <1>6, <2>1
<1>. QED
  BY <1>1, <1>4, <1>8, <1>9 DEF j, n

\* A minus begins a word, and no keyword.
LEMMA NegativeRead ==
    ASSUME NEW line \in Texts, NEW p \in Nat \ {0}, p <= Len(line), Char(line, p) = Minus
    PROVE  Word(line, p).kind = Tok_str
<1>. DEFINE end == FirstFrom(line, p, LAMBDA c : IsSpace(c) \/ IsControl(c))
            text == Run(line, p, end)
            j == end
<1>1. Len(line) \in Nat /\ p \in 1 .. Len(line) + 1
  BY DEF Texts
<1>2. j = FirstFrom(line, p, LAMBDA c : IsSpace(c) \/ IsControl(c))
  OBVIOUS
<1>3. Word(line, p) = IF Len(text) = 1 /\ text[1] \in Keywords THEN Token(text[1], text, end)
                      ELSE Token(Tok_str, text, end)
  BY DEF Word
<1>. HIDE DEF end
<1>4. j \in p .. Len(line) + 1 /\ (IsSpace(Char(line, j)) \/ IsControl(Char(line, j)))
  <2>. HIDE DEF j
  <2>. QED
    BY <1>1, <1>2, WordEnd
<1>5. j /= p
  <2>1. ~IsSpace(Minus) /\ ~IsControl(Minus)
    BY DEF IsSpace, IsControl, Minus, Space, Delete
  <2>. QED
    BY <1>4, <2>1
<1>6. text = SubSeq(line, p, j - 1)
  BY DEF Run
<1>. HIDE DEF j, text
<1>7. p \in 1 .. Len(line) /\ j - 1 \in p .. Len(line)
  BY <1>1, <1>4, <1>5
<1>8. text[1] = line[p]
  <2>1. line \in Seq(0 .. 315)
    BY DEF Texts
  <2>. DEFINE e == j - 1
  <2>2. p \in 1 .. Len(line) /\ e \in p .. Len(line) /\ text = SubSeq(line, p, e) /\ e - p + 1 \in Nat \ {0}
        /\ e \in Nat
    BY <1>1, <1>6, <1>7
  <2>. HIDE DEF e
  <2>3. \A k \in p .. e : line[k] \in 0 .. 315
    <3>1. \A k \in p .. e : k \in 1 .. Len(line)
      BY <1>1, <2>2
    <3>. QED
      BY <2>1, <3>1, ElementOfSeq
  <2>4. \A k \in 1 .. e - p + 1 : SubSeq(line, p, e)[k] = line[p + k - 1]
    BY <2>2, <2>3, SubSeqProperties
  <2>5. 1 \in 1 .. e - p + 1 /\ p + 1 - 1 = p
    BY <2>2
  <2>. QED
    BY <2>2, <2>4, <2>5
<1>9. text[1] = Minus
  BY <1>8 DEF Char
<1>10. Minus \notin Keywords
  BY DEF Minus, Keywords
<1>11. Word(line, p) = Token(Tok_str, text, end)
  BY <1>3, <1>9, <1>10
<1>. QED
  BY <1>11 DEF Token

Spaced(word) == <<Space>> \o word

\* A word behind its space.
LEMMA SpacedAt ==
    ASSUME NEW line \in Texts, NEW p \in Nat \ {0}, NEW word \in Texts,
           StandsAt(line, p, Spaced(word))
    PROVE  /\ Char(line, p) = Space /\ p <= Len(line) /\ StandsAt(line, p + 1, word)
           /\ Len(Spaced(word)) = 1 + Len(word) /\ Len(word) \in Nat /\ Spaced(word) \in Texts
<1>. DEFINE s == <<Space>>
<1>1. s \in Texts /\ Len(s) = 1
  BY TextOne DEF Space, Symbol
<1>2. StandsAt(line, p, s \o word) /\ Spaced(word) = s \o word
  BY DEF Spaced
<1>. HIDE DEF s
<1>3. StandsAt(line, p, s) /\ StandsAt(line, p + Len(s), word)
  BY <1>1, <1>2, AtJoin
<1>4. Char(line, p) = Space /\ p <= Len(line)
  BY <1>3, AtOne DEF s
<1>5. s \o word \in Texts /\ Len(s \o word) = Len(s) + Len(word) /\ Len(word) \in Nat
  BY <1>1, TextParts
<1>. QED
  BY <1>1, <1>2, <1>3, <1>4, <1>5

\* A string in a line is read up to its end, or ends the line when it has a
\* character 127.
LEMMA StringLexed ==
    ASSUME NEW line \in Texts, NEW p \in Nat \ {0}, NEW text \in Bytes,
           StandsAt(line, p, Spaced(Escape(text)))
    PROVE  IF Delete \in ToSet(text) THEN Lex(line, p).kind = Tok_none
           ELSE Lex(line, p) = Token(Tok_str, text, p + Len(Spaced(Escape(text))))
<1>. DEFINE word == Escape(text)
            q == p + 1
<1>1. word \in Texts
  BY EscapeIs
<1>2. /\ Char(line, p) = Space /\ StandsAt(line, q, word)
      /\ Len(Spaced(word)) = 1 + Len(word) /\ Len(word) \in Nat
  BY <1>1, SpacedAt
<1>3. q \in Nat \ {0} /\ StandsAt(line, q, Escape(text)) /\ q + 1 = p + 2
  BY <1>2
<1>. HIDE DEF q
<1>4. PICK joined : EscapedAt(line, q, text, joined)
  BY <1>3, EscapeAt
<1>5. Char(line, q) = Quote /\ q <= Len(line)
  BY <1>4 DEF EscapedAt
<1>6. ~IsSpace(Quote) /\ ~IsDigit(Quote)
  BY DEF IsSpace, IsDigit, Quote, Space, Zero
<1>7. Lex(line, p) = Quoted(line)[q + 1]
  <2>1. p + 1 <= Len(line) /\ ~IsSpace(Char(line, p + 1)) /\ Char(line, p + 1) = Quote
    BY <1>5, <1>6 DEF q
  <2>. QED
    BY <1>2, <1>3, <1>6, <2>1, LexAfterSpace
<1>8. IF Delete \in ToSet(text) THEN Quoted(line)[q + 1].kind = Tok_none
      ELSE Quoted(line)[q + 1] = Token(Tok_str, text, q + Len(word))
  BY <1>3, StringRead
<1>9. q + Len(word) = p + Len(Spaced(word))
  <2>. DEFINE n == Len(word)
              m == Len(Spaced(word))
  <2>1. n \in Nat /\ m = 1 + n
    BY <1>2
  <2>. HIDE DEF n, m
  <2>2. q + n = p + m
    BY <2>1 DEF q
  <2>. QED
    BY <2>2 DEF n, m
<1>. QED
  BY <1>7, <1>8, <1>9

\* A number is read up to its end, and taken for a word when it is negative.
LEMMA NumberLexed ==
    ASSUME NEW line \in Texts, NEW p \in Nat \ {0}, NEW n \in -IntMax - 1 .. IntMax,
           StandsAt(line, p, Spaced(Decimal(n))),
           ~IsDigit(Char(line, p + Len(Spaced(Decimal(n)))))
    PROVE  IF n < 0 THEN Lex(line, p).kind = Tok_str
           ELSE Lex(line, p) = Token(Tok_num, Digits[n], p + Len(Spaced(Decimal(n))))
<1>. DEFINE word == Decimal(n)
            q == p + 1
<1>1. word \in Texts /\ IntMax \in Nat
  BY DecimalIs, IntMaxAssumption
<1>2. /\ Char(line, p) = Space /\ StandsAt(line, q, word)
      /\ Len(Spaced(word)) = 1 + Len(word) /\ Len(word) \in Nat
  BY <1>1, SpacedAt
<1>3. q \in Nat \ {0} /\ q = p + 1
  OBVIOUS
<1>. HIDE DEF q
<1>4. q + Len(word) = p + Len(Spaced(word))
  <2>. DEFINE a == Len(word)
              b == Len(Spaced(word))
  <2>1. a \in Nat /\ b = 1 + a
    BY <1>2
  <2>. HIDE DEF a, b
  <2>2. q + a = p + b
    BY <1>3, <2>1
  <2>. QED
    BY <2>2 DEF a, b
<1>5. CASE n < 0
  <2>. DEFINE s == <<Minus>>
              d == Digits[-n]
  <2>1. -n \in 0 .. IntMax + 1
    BY <1>1, <1>5
  <2>2. word = s \o d /\ d \in Texts
    BY <1>5, <2>1, DigitsCount DEF Decimal, AreDigits
  <2>3. s \in Texts /\ Minus \in Symbol
    BY TextOne DEF Minus, Symbol
  <2>4. StandsAt(line, q, s \o d) /\ q \in Nat
    BY <1>2, <1>3, <2>2
  <2>. HIDE DEF s, d, word
  <2>5. StandsAt(line, q, s)
    BY <2>2, <2>3, <2>4, AtJoin
  <2>6. q <= Len(line) /\ Char(line, q) = Minus
    BY <1>3, <2>5, AtOne DEF s
  <2>7. ~IsSpace(Minus) /\ ~IsDigit(Minus) /\ Minus /= Quote
    BY DEF IsSpace, IsDigit, Minus, Space, Zero, Quote
  <2>8. Lex(line, p) = Word(line, q)
    BY <1>2, <1>3, <2>6, <2>7, LexAfterSpace
  <2>. QED
    BY <1>3, <1>5, <2>6, <2>8, NegativeRead
<1>6. CASE ~(n < 0)
  <2>. DEFINE d == Digits[n]
  <2>1. n \in 0 .. IntMax + 1
    BY <1>1, <1>6
  <2>2. word = d /\ AreDigits(d)
    BY <1>6, <2>1, DigitsCount DEF Decimal
  <2>. HIDE DEF d, word
  <2>3. StandsAt(line, q, d) /\ ~IsDigit(Char(line, q + Len(d)))
    BY <1>2, <1>4, <2>2 DEF word
  <2>4. IsDigit(Char(line, q)) /\ Number(line, q) = Token(Tok_num, d, q + Len(d))
    BY <1>3, <2>2, <2>3, NumberRead
  <2>5. ~IsSpace(Char(line, q)) /\ q <= Len(line)
    <3>1. \A c : IsDigit(c) => ~IsSpace(c) /\ c /= Nul
      BY DEF IsDigit, IsSpace, Zero, Space, Nul
    <3>. QED
      BY <1>3, <2>4, <3>1, CharIs
  <2>6. Lex(line, p) = Number(line, q)
    BY <1>2, <1>3, <2>4, <2>5, LexAfterSpace
  <2>7. q + Len(d) = p + Len(Spaced(Decimal(n)))
    BY <1>4, <2>2 DEF word
  <2>. QED
    BY <1>6, <2>4, <2>6, <2>7 DEF d
<1>. QED
  BY <1>5, <1>6

-----------------------------------------------------------------------------
(* The words of a call, and where they are in its line.                      *)

Words(call) ==
    [i \in DOMAIN Written(call) |-> Escape(Written(call)[i])]
    \o [i \in DOMAIN call.numbers |-> Decimal(call.numbers[i])]

\* What a call is made of.
LEMMA WrittenIs ==
    ASSUME NEW call, IsCall(call)
    PROVE  /\ Written(call) \in Seq(Bytes)
           /\ call.numbers \in Seq(-IntMax - 1 .. IntMax) /\ call.op \in Keywords
           /\ call.strings \in Seq(Bytes)
<1>1. call.numbers \in Seq(-IntMax - 1 .. IntMax) /\ call.op \in Keywords /\ call.strings \in Seq(Bytes)
  BY DEF IsCall
<1>2. CASE call.op = Tok_exec /\ Tail(Tail(call.strings)) = << <<>> >>
  <2>1. call.strings \in Seq(Bytes) /\ Len(call.strings) >= 3
    BY <1>2 DEF IsCall
  <2>2. Written(call) = SubSeq(call.strings, 1, 2)
    BY <1>2 DEF Written
  <2>3. \A i \in 1 .. 2 : call.strings[i] \in Bytes
    BY <2>1, ElementOfSeq
  <2>. QED
    BY <1>1, <2>2, <2>3, SubSeqProperties
<1>3. CASE ~(call.op = Tok_exec /\ Tail(Tail(call.strings)) = << <<>> >>)
  BY <1>1, <1>3 DEF Written
<1>. QED
  BY <1>2, <1>3

\* The words of a call are its strings, escaped, and its numbers.
LEMMA WordsAre ==
    ASSUME NEW call, IsCall(call)
    PROVE  /\ Words(call) \in Seq(Texts)
           /\ Len(Written(call)) \in Nat /\ Len(call.numbers) \in Nat
           /\ Len(Words(call)) = Len(Written(call)) + Len(call.numbers)
           /\ \A i \in 1 .. Len(Written(call)) : Words(call)[i] = Escape(Written(call)[i])
           /\ \A i \in 1 .. Len(call.numbers) :
                 Words(call)[Len(Written(call)) + i] = Decimal(call.numbers[i])
<1>. DEFINE strings == Written(call)
            numbers == call.numbers
            a == [i \in DOMAIN strings |-> Escape(strings[i])]
            b == [i \in DOMAIN numbers |-> Decimal(numbers[i])]
<1>1. strings \in Seq(Bytes) /\ numbers \in Seq(-IntMax - 1 .. IntMax)
  BY WrittenIs
<1>2. Words(call) = a \o b
  BY DEF Words
<1>. HIDE DEF strings, numbers
<1>3. a \in Seq(Texts) /\ Len(a) = Len(strings) /\ \A i \in 1 .. Len(strings) : a[i] = Escape(strings[i])
  <2>1. \A i \in 1 .. Len(strings) : Escape(strings[i]) \in Texts
    BY <1>1, ElementOfSeq, EscapeIs
  <2>2. DOMAIN strings = 1 .. Len(strings) /\ Len(strings) \in Nat
    BY <1>1
  <2>3. a = [i \in 1 .. Len(strings) |-> Escape(strings[i])]
    BY <2>2
  <2>4. a \in Seq(Texts)
    BY <2>1, <2>2, <2>3, IsASeq
  <2>. QED
    BY <2>2, <2>3, <2>4
<1>4. b \in Seq(Texts) /\ Len(b) = Len(numbers) /\ \A i \in 1 .. Len(numbers) : b[i] = Decimal(numbers[i])
  <2>1. \A i \in 1 .. Len(numbers) : Decimal(numbers[i]) \in Texts
    BY <1>1, ElementOfSeq, DecimalIs
  <2>2. DOMAIN numbers = 1 .. Len(numbers) /\ Len(numbers) \in Nat
    BY <1>1
  <2>3. b = [i \in 1 .. Len(numbers) |-> Decimal(numbers[i])]
    BY <2>2
  <2>4. b \in Seq(Texts)
    BY <2>1, <2>2, <2>3, IsASeq
  <2>. QED
    BY <2>2, <2>3, <2>4
<1>. HIDE DEF a, b
<1>5. /\ a \o b \in Seq(Texts) /\ Len(a \o b) = Len(a) + Len(b) /\ Len(a) \in Nat /\ Len(b) \in Nat
      /\ \A i \in 1 .. Len(a) + Len(b) : (a \o b)[i] = IF i <= Len(a) THEN a[i] ELSE b[i - Len(a)]
  <2>1. a \in Seq(Texts) /\ b \in Seq(Texts)
    BY <1>3, <1>4
  <2>. QED
    BY <2>1, JoinParts
<1>6. \A i \in 1 .. Len(a) : (a \o b)[i] = a[i]
  BY <1>5
<1>7. ASSUME NEW i \in 1 .. Len(b)
      PROVE  (a \o b)[Len(a) + i] = b[i]
  <2>. DEFINE k == Len(a) + i
  <2>1. k \in 1 .. Len(a) + Len(b) /\ ~(k <= Len(a)) /\ k - Len(a) = i
    BY <1>5
  <2>. HIDE DEF k
  <2>2. (a \o b)[k] = b[i]
    BY <1>5, <2>1
  <2>. QED
    BY <2>2 DEF k
<1>8. /\ \A i \in 1 .. Len(strings) : (a \o b)[i] = Escape(strings[i])
      /\ \A i \in 1 .. Len(numbers) : (a \o b)[Len(strings) + i] = Decimal(numbers[i])
  BY <1>3, <1>4, <1>6, <1>7
<1>. QED
  BY <1>2, <1>3, <1>4, <1>5, <1>8 DEF strings, numbers

\* place[i] is where the part behind the i-th word begins.
PlacedIn(line, words, place) ==
    /\ place \in [0 .. Len(words) -> 2 .. Len(line)]
    /\ place[0] = 2
    /\ \A i \in 1 .. Len(words) :
          /\ StandsAt(line, place[i - 1], Spaced(words[i]))
          /\ place[i] = place[i - 1] + Len(Spaced(words[i]))
    /\ place[Len(words)] = Len(line)

\* Each word of a line has its place, behind a space.
LEMMA LineAt ==
    ASSUME NEW call, IsCall(call)
    PROVE  /\ Line(call) \in Texts /\ Char(Line(call), 1) = call.op
           /\ Char(Line(call), Len(Line(call))) = Newline
           /\ \E place : PlacedIn(Line(call), Words(call), place)
<1>. DEFINE words == Words(call)
            parts == [i \in DOMAIN words |-> Spaced(words[i])]
            F == FlattenSeq(parts)
            head == <<call.op>>
            end == <<Newline>>
            line == Line(call)
<1>1. words \in Seq(Texts) /\ DOMAIN words = 1 .. Len(words) /\ Len(words) \in Nat
  BY WordsAre
<1>2. line = head \o F \o end
  BY DEF Line, Words, Spaced
<1>3. head \in Texts /\ end \in Texts /\ Len(head) = 1 /\ Len(end) = 1 /\ <<Space>> \in Texts
  <2>1. Space \in Symbol /\ Newline \in Symbol /\ call.op \in Symbol
    BY WrittenIs DEF Symbol, Space, Newline, Keywords
  <2>. QED
    BY <2>1, TextOne
<1>. HIDE DEF words, head, end, line
<1>4. parts \in Seq(Texts) /\ Len(parts) = Len(words) /\ \A i \in 1 .. Len(words) : parts[i] = Spaced(words[i])
  <2>1. \A i \in 1 .. Len(words) : Spaced(words[i]) \in Texts
    BY <1>1, <1>3, ElementOfSeq, TextJoin DEF Spaced
  <2>2. parts = [i \in 1 .. Len(words) |-> Spaced(words[i])]
    BY <1>1
  <2>3. parts \in Seq(Texts)
    BY <1>1, <2>1, <2>2, IsASeq
  <2>. QED
    BY <1>1, <2>2, <2>3
<1>5. PICK joined : IsFlattened(joined, parts, Symbol)
  <2>. HIDE DEF parts
  <2>. QED
    BY <1>4, FlattenUnfolds DEF Texts, Symbol
<1>. HIDE DEF parts
<1>6. F \in Texts
  BY <1>4, FlattenIs
<1>. HIDE DEF F
<1>. DEFINE hF == head \o F
<1>7. hF \in Texts /\ Len(hF) = 1 + Len(F) /\ Len(F) \in Nat /\ line = hF \o end
  <2>1. hF \in Texts /\ Len(hF) = Len(head) + Len(F) /\ Len(F) \in Nat
    BY <1>3, <1>6, TextParts
  <2>. QED
    BY <1>2, <1>3, <2>1
<1>. HIDE DEF hF
<1>8. line \in Texts /\ Len(line) = 1 + Len(F) + 1
  <2>1. hF \o end \in Texts /\ Len(hF \o end) = Len(hF) + Len(end)
    BY <1>3, <1>7, TextParts
  <2>. QED
    BY <1>3, <1>7, <2>1
<1>9. StandsAt(line, 1, hF \o end)
  <2>1. StandsAt(line, 1, line)
    <3>1. \A k \in 1 .. Len(line) : 1 + k - 1 = k /\ k <= Len(line)
      BY <1>8 DEF Texts
    <3>. QED
      BY <3>1 DEF StandsAt
  <2>. QED
    BY <1>7, <2>1
<1>. DEFINE one == 1
<1>10. StandsAt(line, 1, hF) /\ StandsAt(line, 1 + (1 + Len(F)), end)
  <2>1. one \in Nat /\ StandsAt(line, one, hF \o end)
    BY <1>9
  <2>. HIDE DEF one
  <2>2. StandsAt(line, one, hF) /\ StandsAt(line, one + Len(hF), end)
    BY <1>3, <1>7, <1>8, <2>1, AtJoin
  <2>. QED
    BY <1>7, <2>2 DEF one
<1>11. StandsAt(line, 1, head) /\ StandsAt(line, 2, F)
  <2>1. one \in Nat /\ StandsAt(line, one, head \o F)
    BY <1>10 DEF hF
  <2>. HIDE DEF one
  <2>2. StandsAt(line, one, head) /\ StandsAt(line, one + Len(head), F)
    BY <1>3, <1>6, <1>8, <2>1, AtJoin
  <2>3. one + Len(head) = 2 /\ one = 1
    BY <1>3 DEF one
  <2>. QED
    BY <2>2, <2>3
<1>12. Char(line, 1) = call.op
  <2>1. one \in Nat \ {0} /\ StandsAt(line, one, <<call.op>>)
    BY <1>11 DEF head
  <2>. HIDE DEF one
  <2>2. Char(line, one) = call.op
    BY <1>8, <2>1, AtOne
  <2>. QED
    BY <2>2 DEF one
<1>13. Char(line, Len(line)) = Newline
  <2>. DEFINE r == Len(line)
  <2>1. r \in Nat \ {0} /\ r = 1 + (1 + Len(F))
    BY <1>7, <1>8
  <2>2. StandsAt(line, r, <<Newline>>)
    BY <1>10, <2>1 DEF end
  <2>. HIDE DEF r
  <2>3. Char(line, r) = Newline
    BY <1>8, <2>1, <2>2, AtOne
  <2>. QED
    BY <2>3 DEF r
<1>14. \A i \in 1 .. Len(parts) :
          /\ Len(joined[i - 1]) \in Nat /\ Len(parts[i]) \in Nat
          /\ Len(joined[i]) = Len(joined[i - 1]) + Len(parts[i])
          /\ StandsAt(line, 2 + Len(joined[i - 1]), parts[i])
  <2>. DEFINE two == 2
  <2>1. two \in Nat /\ StandsAt(line, two, FlattenSeq(parts))
    BY <1>11 DEF F
  <2>. HIDE DEF two
  <2>2. \A i \in 1 .. Len(parts) :
          /\ Len(joined[i - 1]) \in Nat /\ Len(parts[i]) \in Nat
          /\ Len(joined[i]) = Len(joined[i - 1]) + Len(parts[i])
          /\ StandsAt(line, two + Len(joined[i - 1]), parts[i])
    BY <1>4, <1>5, <1>8, <2>1, AtFlattened
  <2>. QED
    BY <2>2 DEF two
<1>. DEFINE n == Len(words)
            f == Len(F)
            place == [i \in 0 .. n |-> 2 + Len(joined[i])]
<1>15. n \in Nat /\ f \in Nat /\ F = joined[n] /\ joined[0] = <<>> /\ Len(parts) = n
  BY <1>1, <1>4, <1>5, <1>7 DEF IsFlattened, F
<1>16. \A i \in 0 .. n : Len(joined[i]) \in 0 .. f
  <2>. DEFINE T == {i \in 0 .. n : Len(joined[i]) \in 0 .. f}
  <2>1. n \in T
    BY <1>15
  <2>2. ASSUME NEW i \in 0 .. n - 1, i + 1 \in T
        PROVE  i \in T
    <3>. DEFINE k == i + 1
    <3>1. k \in 1 .. n /\ k - 1 = i /\ Len(joined[k]) \in 0 .. f /\ i \in 0 .. n
      BY <1>15, <2>2
    <3>. HIDE DEF k
    <3>. DEFINE a == Len(joined[k - 1])
                b == Len(parts[k])
                c == Len(joined[k])
    <3>2. a \in Nat /\ b \in Nat /\ c = a + b /\ c \in 0 .. f
      BY <1>14, <1>15, <3>1
    <3>. HIDE DEF a, b, c, f
    <3>3. a \in 0 .. f
      BY <1>15, <3>2
    <3>. QED
      BY <3>1, <3>3 DEF a
  <2>. HIDE DEF T, n
  <2>3. 0 .. n \subseteq T
    BY <1>15, <2>1, <2>2, Downward
  <2>. QED
    BY <2>3 DEF T
<1>17. \A i \in 0 .. n : place[i] = 2 + Len(joined[i]) /\ place[i] \in 2 .. Len(line)
  <2>. TAKE i \in 0 .. n
  <2>1. place[i] = 2 + Len(joined[i])
    OBVIOUS
  <2>. DEFINE a == Len(joined[i])
              l == Len(line)
  <2>2. a \in 0 .. f /\ l = 1 + f + 1
    BY <1>8, <1>16
  <2>. HIDE DEF a, l, f
  <2>3. 2 + a \in 2 .. l
    BY <1>15, <2>2
  <2>. QED
    BY <2>1, <2>3 DEF a, l
<1>18. place \in [0 .. n -> 2 .. Len(line)]
  BY <1>17
<1>19. place[0] = 2 /\ place[n] = Len(line)
  <2>1. 0 \in 0 .. n /\ n \in 0 .. n /\ Len(joined[0]) = 0 /\ Len(joined[n]) = f
    BY <1>15
  <2>. QED
    BY <1>8, <1>15, <1>17, <2>1
<1>. HIDE DEF place
<1>20. ASSUME NEW i \in 1 .. n
       PROVE  /\ StandsAt(line, place[i - 1], Spaced(words[i]))
              /\ place[i] = place[i - 1] + Len(Spaced(words[i]))
  <2>1. i \in 0 .. n /\ i - 1 \in 0 .. n
    BY <1>15
  <2>2. place[i] = 2 + Len(joined[i]) /\ place[i - 1] = 2 + Len(joined[i - 1])
    BY <1>17, <2>1
  <2>3. /\ Len(joined[i - 1]) \in Nat /\ Len(parts[i]) \in Nat
        /\ Len(joined[i]) = Len(joined[i - 1]) + Len(parts[i])
        /\ StandsAt(line, 2 + Len(joined[i - 1]), parts[i]) /\ parts[i] = Spaced(words[i])
    BY <1>4, <1>14, <1>15
  <2>. DEFINE a == Len(joined[i - 1])
              b == Len(parts[i])
              c == Len(joined[i])
  <2>4. a \in Nat /\ b \in Nat /\ c = a + b /\ place[i] = 2 + c /\ place[i - 1] = 2 + a
    BY <2>2, <2>3
  <2>. HIDE DEF a, b, c
  <2>5. place[i] = place[i - 1] + b
    BY <2>4
  <2>. QED
    BY <2>2, <2>3, <2>5 DEF b
<1>21. PlacedIn(line, words, place)
  BY <1>18, <1>19, <1>20 DEF PlacedIn, n
<1>. QED
  BY <1>8, <1>12, <1>13, <1>21 DEF line, words

-----------------------------------------------------------------------------
(* The tokens of the line of a call.                                         *)

\* The keyword of a line is its first character.
LEMMA KeywordLexed ==
    ASSUME NEW line \in Texts, 2 <= Len(line), Char(line, 1) \in Keywords,
           IsSpace(Char(line, 2)) \/ IsControl(Char(line, 2))
    PROVE  Lex(line, 1) = Token(Char(line, 1), <<Char(line, 1)>>, 2)
<1>. DEFINE c == Char(line, 1)
            end == FirstFrom(line, 1, LAMBDA d : IsSpace(d) \/ IsControl(d))
            text == Run(line, 1, end)
<1>1. /\ c /= Newline /\ ~IsControl(c) /\ ~IsSpace(c) /\ ~IsDigit(c) /\ c /= Quote
  <2>1. c \in 300 .. 315
    BY DEF Keywords
  <2>. HIDE DEF c
  <2>. QED
    BY <2>1 DEF Newline, IsControl, IsSpace, IsDigit, Quote, Delete, Space, Zero
<1>2. Lex(line, 1) = Word(line, 1)
  BY <1>1 DEF Lex
<1>3. Word(line, 1) = IF Len(text) = 1 /\ text[1] \in Keywords THEN Token(text[1], text, end)
                      ELSE Token(Tok_str, text, end)
  BY DEF Word
<1>. DEFINE j == end
            one == 1
<1>4. j = FirstFrom(line, 1, LAMBDA d : IsSpace(d) \/ IsControl(d))
  OBVIOUS
<1>. HIDE DEF end
<1>5. Len(line) \in Nat
  BY DEF Texts
<1>6. /\ j \in 1 .. Len(line) + 1
      /\ IsSpace(Char(line, j)) \/ IsControl(Char(line, j))
      /\ \A k \in 1 .. j - 1 : ~(IsSpace(Char(line, k)) \/ IsControl(Char(line, k)))
  <2>1. one \in 1 .. Len(line) + 1 /\ j = FirstFrom(line, one, LAMBDA d : IsSpace(d) \/ IsControl(d))
    BY <1>4, <1>5
  <2>. HIDE DEF j, one
  <2>2. /\ j \in one .. Len(line) + 1
        /\ IsSpace(Char(line, j)) \/ IsControl(Char(line, j))
        /\ \A k \in one .. j - 1 : ~(IsSpace(Char(line, k)) \/ IsControl(Char(line, k)))
    BY <2>1, WordEnd
  <2>. QED
    BY <2>2 DEF one
<1>7. j = 2
  <2>1. j /= 1
    BY <1>1, <1>6
  <2>2. CASE j > 2
    <3>1. 2 \in 1 .. j - 1
      BY <1>5, <1>6, <2>2
    <3>. QED
      BY <1>6, <3>1
  <2>. QED
    BY <1>5, <1>6, <2>1, <2>2
<1>8. text = SubSeq(line, 1, 1)
  BY <1>7 DEF Run
<1>. HIDE DEF text, j
<1>9. text = <<c>>
  <2>1. line \in Seq(0 .. 315) /\ 1 \in 1 .. Len(line) /\ c = line[1]
    BY <1>5 DEF Texts, Char
  <2>2. \A k \in 1 .. 1 : line[k] \in 0 .. 315
    BY <2>1, ElementOfSeq
  <2>3. /\ SubSeq(line, 1, 1) \in Seq(0 .. 315)
        /\ Len(SubSeq(line, 1, 1)) = 1 /\ SubSeq(line, 1, 1)[1] = line[1]
    <3>1. /\ SubSeq(line, one, one) \in Seq(0 .. 315)
          /\ Len(SubSeq(line, one, one)) = IF one <= one THEN one - one + 1 ELSE 0
          /\ \A k \in 1 .. one - one + 1 : SubSeq(line, one, one)[k] = line[one + k - 1]
      <4>1. one \in Nat /\ \A k \in one .. one : line[k] \in 0 .. 315
        BY <2>2
      <4>. HIDE DEF one
      <4>. QED
        BY <4>1, SubSeqProperties
    <3>. QED
      BY <3>1
  <2>. DEFINE s == SubSeq(line, 1, 1)
  <2>4. s \in Seq(0 .. 315) /\ Len(s) = 1 /\ s[1] = c /\ text = s
    BY <1>8, <2>1, <2>3
  <2>. HIDE DEF s, c
  <2>. QED
    BY <2>4
<1>10. Len(text) = 1 /\ text[1] = c
  BY <1>9
<1>11. Word(line, 1) = Token(c, <<c>>, 2)
  BY <1>3, <1>7, <1>9, <1>10 DEF j
<1>. QED
  BY <1>2, <1>11

\* What a word of a call has to be for the lexer, and what it becomes.
Kind(call, i) ==
    IF i <= Len(Written(call)) THEN Tok_str ELSE IF i <= Len(Words(call)) THEN Tok_num ELSE Newline

Slips(call, i) ==
    IF i <= Len(Written(call)) THEN Delete \in ToSet(Written(call)[i])
    ELSE call.numbers[i - Len(Written(call))] < 0

Read(call, place, i) ==
    IF i <= Len(Written(call)) THEN Token(Tok_str, Written(call)[i], place[i])
    ELSE IF i <= Len(Words(call))
         THEN Token(Tok_num, Digits[call.numbers[i - Len(Written(call))]], place[i])
         ELSE Token(Newline, <<>>, place[Len(Words(call))] + 1)

\* A word that does not slip is read as it was written; one that slips ends the line
\* or becomes a word of another kind.
LEMMA WordLexed ==
    ASSUME NEW call, IsCall(call), NEW place, PlacedIn(Line(call), Words(call), place),
           NEW i \in 1 .. Len(Words(call)), NEW t, t = Lex(Line(call), place[i - 1])
    PROVE  IF Slips(call, i) THEN t.kind \in {Tok_none, Tok_str} /\ t.kind /= Kind(call, i)
           ELSE t = Read(call, place, i)
<1>. DEFINE line == Line(call)
            words == Words(call)
            a == Len(Written(call))
            b == Len(call.numbers)
            m == Len(words)
            p == place[i - 1]
<1>1. /\ line \in Texts /\ Char(line, Len(line)) = Newline
  BY LineAt
<1>2. /\ words \in Seq(Texts) /\ a \in Nat /\ b \in Nat /\ m = a + b
      /\ \A k \in 1 .. a : words[k] = Escape(Written(call)[k])
      /\ \A k \in 1 .. b : words[a + k] = Decimal(call.numbers[k])
      /\ Written(call) \in Seq(Bytes) /\ call.numbers \in Seq(-IntMax - 1 .. IntMax)
  BY WordsAre, WrittenIs
<1>3. /\ place \in [0 .. m -> 2 .. Len(line)]
      /\ \A k \in 1 .. m : StandsAt(line, place[k - 1], Spaced(words[k]))
      /\ place[i] = p + Len(Spaced(words[i]))
      /\ place[m] = Len(line)
  BY DEF PlacedIn
<1>4. i \in 1 .. m /\ t = Lex(line, p)
  OBVIOUS
<1>. HIDE DEF line, words, m
<1>5. p \in Nat \ {0} /\ StandsAt(line, p, Spaced(words[i])) /\ m \in Nat
  <2>1. m \in Nat
    BY <1>2
  <2>2. i - 1 \in 0 .. m
    BY <1>4, <2>1
  <2>3. p \in 2 .. Len(line) /\ Len(line) \in Nat
    BY <1>1, <1>3, <2>2 DEF Texts
  <2>. HIDE DEF p
  <2>4. p \in Nat \ {0}
    BY <2>3
  <2>. QED
    BY <1>3, <1>4, <2>1, <2>4 DEF p
<1>. HIDE DEF p, a, b
<1>6. CASE i <= a
  <2>. DEFINE text == Written(call)[i]
  <2>1. i \in 1 .. a
    BY <1>4, <1>6
  <2>2. text \in Bytes /\ words[i] = Escape(text)
    BY <1>2, <2>1, ElementOfSeq DEF a
  <2>3. Slips(call, i) <=> Delete \in ToSet(text)
    BY <1>6 DEF Slips, a
  <2>4. Kind(call, i) = Tok_str /\ Read(call, place, i) = Token(Tok_str, text, place[i])
    BY <1>6 DEF Kind, Read, a
  <2>. HIDE DEF text
  <2>5. StandsAt(line, p, Spaced(Escape(text))) /\ place[i] = p + Len(Spaced(Escape(text)))
    BY <1>3, <1>5, <2>2
  <2>6. IF Delete \in ToSet(text) THEN Lex(line, p).kind = Tok_none
        ELSE Lex(line, p) = Token(Tok_str, text, place[i])
    BY <1>1, <1>5, <2>2, <2>5, StringLexed
  <2>7. Tok_none /= Tok_str
    BY DEF Tok_none, Tok_str
  <2>. QED
    BY <1>4, <2>3, <2>4, <2>6, <2>7
<1>7. CASE ~(i <= a)
  <2>. DEFINE k == i - a
              n == call.numbers[k]
  <2>1. k \in 1 .. b /\ a + k = i /\ i <= m
    BY <1>2, <1>4, <1>5, <1>7
  <2>. HIDE DEF k
  <2>2. n \in -IntMax - 1 .. IntMax /\ words[i] = Decimal(n)
    BY <1>2, <2>1, ElementOfSeq DEF b
  <2>3. Slips(call, i) <=> n < 0
    BY <1>7 DEF Slips, a, k
  <2>4. Kind(call, i) = Tok_num /\ Read(call, place, i) = Token(Tok_num, Digits[n], place[i])
    BY <1>7, <2>1 DEF Kind, Read, a, k, m, words
  <2>. HIDE DEF n
  <2>5. StandsAt(line, p, Spaced(Decimal(n))) /\ place[i] = p + Len(Spaced(Decimal(n)))
    BY <1>3, <1>5, <2>2
  <2>6. ~IsDigit(Char(line, place[i]))
    <3>1. CASE i = m
      <4>1. Char(line, place[i]) = Newline
        BY <1>1, <1>3, <3>1
      <4>. QED
        BY <4>1 DEF IsDigit, Newline, Zero
    <3>2. CASE i /= m
      <4>. DEFINE j == i + 1
                  q == place[i]
      <4>1. j \in 1 .. m /\ j - 1 = i /\ i \in 0 .. m
        BY <1>4, <1>5, <3>2
      <4>2. StandsAt(line, q, Spaced(words[j]))
        <5>. HIDE DEF j
        <5>. QED
          BY <1>3, <4>1
      <4>3. words[j] \in Texts
        <5>. HIDE DEF j
        <5>. QED
          BY <1>2, <4>1, ElementOfSeq DEF m
      <4>4. q \in Nat \ {0}
        <5>1. q \in 2 .. Len(line) /\ Len(line) \in Nat
          BY <1>1, <1>3, <4>1 DEF Texts
        <5>. HIDE DEF q
        <5>. QED
          BY <5>1
      <4>. HIDE DEF j, q
      <4>5. Char(line, q) = Space
        BY <1>1, <4>2, <4>3, <4>4, SpacedAt
      <4>. QED
        BY <4>5 DEF q, IsDigit, Space, Zero
    <3>. QED
      BY <3>1, <3>2
  <2>7. IF n < 0 THEN Lex(line, p).kind = Tok_str
        ELSE Lex(line, p) = Token(Tok_num, Digits[n], place[i])
    BY <1>1, <1>5, <2>2, <2>5, <2>6, NumberLexed
  <2>8. Tok_num /= Tok_str
    BY DEF Tok_num, Tok_str
  <2>. QED
    BY <1>4, <2>3, <2>4, <2>7, <2>8
<1>. QED
  BY <1>6, <1>7

\* The tokens from the i-th word on: all as they should be, or one that is not.
ReadFrom(call, place, tokens, i) ==
    /\ Len(tokens) = Len(Words(call)) + 1 - i
    /\ \A k \in 1 .. Len(Words(call)) + 1 - i : tokens[k] = Read(call, place, i + k)

SlipsFrom(call, tokens, i) ==
    \E k \in 1 .. Len(tokens) :
        /\ i + k <= Len(Words(call))
        /\ tokens[k].kind \in {Tok_none, Tok_str} /\ tokens[k].kind /= Kind(call, i + k)

\* One token and the rest.
LEMMA OneMore ==
    ASSUME NEW B, NEW t \in B, NEW s \in Seq(B)
    PROVE  /\ <<t>> \o s \in Seq(B) /\ Len(s) \in Nat /\ Len(<<t>> \o s) = 1 + Len(s)
           /\ (<<t>> \o s)[1] = t /\ \A k \in 1 .. Len(s) : (<<t>> \o s)[1 + k] = s[k]
<1>. DEFINE a == <<t>>
<1>1. a \in Seq(B) /\ Len(a) = 1 /\ a[1] = t
  OBVIOUS
<1>. HIDE DEF a
<1>2. /\ a \o s \in Seq(B) /\ Len(a \o s) = Len(a) + Len(s) /\ Len(s) \in Nat
      /\ \A i \in 1 .. Len(a) : (a \o s)[i] = a[i]
      /\ \A i \in 1 .. Len(s) : (a \o s)[Len(a) + i] = s[i]
  BY <1>1, JoinParts
<1>3. 1 \in 1 .. Len(a)
  BY <1>1
<1>4. (a \o s)[1] = t
  BY <1>1, <1>2, <1>3
<1>. QED
  BY <1>1, <1>2, <1>4 DEF a

\* What the lexer finds at the i-th word, and behind it.
LEMMA WordRead ==
    ASSUME NEW call, IsCall(call), NEW place, PlacedIn(Line(call), Words(call), place),
           NEW from, IsTokens(from, Line(call)), NEW i \in 1 .. Len(Words(call))
    PROVE  /\ from[place[i - 1]] \in Seq(LexTokens) /\ from[place[i]] \in Seq(LexTokens)
           /\ IF Slips(call, i) THEN SlipsFrom(call, from[place[i - 1]], i - 1)
              ELSE /\ from[place[i - 1]] = <<Read(call, place, i)>> \o from[place[i]]
                   /\ Read(call, place, i) \in LexTokens
<1>. DEFINE line == Line(call)
            m == Len(Words(call))
            t == Lex(line, place[i - 1])
            p == place[i - 1]
            q == place[i]
<1>1. line \in Texts /\ Len(line) \in Nat /\ m \in Nat
  BY LineAt, WordsAre DEF Texts
<1>2. p \in 1 .. Len(line) + 1 /\ q \in 1 .. Len(line) + 1 /\ p \in 1 .. Len(line) + 2
  <2>1. place \in [0 .. m -> 2 .. Len(line)] /\ i \in 0 .. m /\ i - 1 \in 0 .. m
    BY <1>1 DEF PlacedIn
  <2>2. p \in 2 .. Len(line) /\ q \in 2 .. Len(line)
    BY <2>1
  <2>. HIDE DEF p, q, line
  <2>. QED
    BY <1>1, <2>2
<1>3. IF Slips(call, i) THEN t.kind \in {Tok_none, Tok_str} /\ t.kind /= Kind(call, i)
      ELSE t = Read(call, place, i)
  BY WordLexed
<1>4. t = Lex(line, p)
  OBVIOUS
<1>. HIDE DEF t, line
<1>5. from[p] \in Seq(LexTokens) /\ from[q] \in Seq(LexTokens)
  <2>1. \A j \in 1 .. Len(line) + 1 : Inside(from[j], line)
    BY <1>1, FromInside DEF line
  <2>. HIDE DEF p, q
  <2>. QED
    BY <1>2, <2>1 DEF Inside
<1>6. from[p] = IF t.kind \in {Newline, Tok_none} THEN <<t>> ELSE <<t>> \o from[t.next]
  <2>. HIDE DEF p
  <2>. QED
    BY <1>2, <1>4 DEF IsTokens, TokensAt, line
<1>7. t \in LexTokens /\ (t.kind \notin {Newline, Tok_none} => from[t.next] \in Seq(LexTokens))
  <2>. HIDE DEF p
  <2>1. t \in LexTokens /\ (t.kind \notin {Newline, Tok_none} => t.next \in p + 1 .. Len(line) + 1)
    BY <1>1, <1>2, <1>4, LexMoves
  <2>2. \A j \in p + 1 .. Len(line) + 1 : j \in 1 .. Len(line) + 1
    BY <1>1, <1>2
  <2>3. \A j \in 1 .. Len(line) + 1 : Inside(from[j], line)
    BY <1>1, FromInside DEF line
  <2>. QED
    BY <2>1, <2>2, <2>3 DEF Inside
<1>8. CASE Slips(call, i)
  <2>1. Len(from[p]) \in Nat /\ Len(from[p]) >= 1 /\ from[p][1] = t
    <3>1. CASE t.kind \in {Newline, Tok_none}
      <4>1. from[p] = <<t>>
        BY <1>6, <3>1
      <4>. QED
        BY <4>1
    <3>2. CASE t.kind \notin {Newline, Tok_none}
      <4>. DEFINE s == from[t.next]
      <4>1. s \in Seq(LexTokens) /\ from[p] = <<t>> \o s
        BY <1>6, <1>7, <3>2
      <4>. HIDE DEF s
      <4>2. Len(s) \in Nat /\ Len(<<t>> \o s) = 1 + Len(s) /\ (<<t>> \o s)[1] = t
        BY <1>7, <4>1, OneMore
      <4>. QED
        BY <4>1, <4>2
    <3>. QED
      BY <3>1, <3>2
  <2>. DEFINE n == Len(from[p])
  <2>2. 1 \in 1 .. n /\ (i - 1) + 1 <= m /\ (i - 1) + 1 = i
    BY <1>1, <2>1
  <2>3. from[p][1].kind \in {Tok_none, Tok_str} /\ from[p][1].kind /= Kind(call, (i - 1) + 1)
    BY <1>3, <1>8, <2>1, <2>2
  <2>4. SlipsFrom(call, from[p], i - 1)
    BY <2>2, <2>3 DEF SlipsFrom
  <2>. QED
    BY <1>5, <1>8, <2>4
<1>9. CASE ~Slips(call, i)
  <2>1. t = Read(call, place, i)
    BY <1>3, <1>9
  <2>2. t.kind \in {Tok_str, Tok_num} /\ t.next = q
    <3>1. i <= Len(Words(call))
      BY <1>1
    <3>. QED
      BY <2>1, <3>1 DEF Read, Token
  <2>3. t.kind \notin {Newline, Tok_none}
    BY <2>2 DEF Tok_str, Tok_num, Newline, Tok_none
  <2>4. from[p] = <<t>> \o from[q]
    BY <1>6, <2>2, <2>3
  <2>. QED
    BY <1>5, <1>7, <1>9, <2>1, <2>4
<1>. QED
  BY <1>8, <1>9

\* What the lexer finds at the end of a line.
LEMMA EndRead ==
    ASSUME NEW call, IsCall(call), NEW place, PlacedIn(Line(call), Words(call), place),
           NEW from, IsTokens(from, Line(call))
    PROVE  ReadFrom(call, place, from[place[Len(Words(call))]], Len(Words(call)))
<1>. DEFINE line == Line(call)
            m == Len(Words(call))
            p == Len(line)
            e == Token(Newline, <<>>, p + 1)
<1>1. /\ line \in Texts /\ Len(line) \in Nat /\ m \in Nat /\ Char(line, p) = Newline
      /\ Len(Written(call)) \in Nat /\ Len(Written(call)) <= m
  <2>1. /\ Len(Written(call)) \in Nat /\ Len(call.numbers) \in Nat
        /\ m = Len(Written(call)) + Len(call.numbers)
    BY WordsAre
  <2>2. line \in Texts /\ Char(line, p) = Newline
    BY LineAt
  <2>3. m \in Nat /\ Len(Written(call)) <= m
    BY <2>1
  <2>. QED
    BY <2>1, <2>2, <2>3 DEF Texts
<1>2. place[m] = p /\ p >= 2
  <2>1. place \in [0 .. m -> 2 .. Len(line)] /\ place[m] = p /\ m \in 0 .. m
    BY <1>1 DEF PlacedIn
  <2>2. p \in 2 .. p
    BY <2>1
  <2>. QED
    BY <1>1, <2>1, <2>2
<1>3. Lex(line, p) = e
  BY <1>1 DEF Lex
<1>4. p \in 1 .. Len(line) + 2
  BY <1>1, <1>2
<1>5. from[p] = <<e>>
  <2>1. e.kind = Newline
    BY DEF Token
  <2>. HIDE DEF p, e, line
  <2>. QED
    BY <1>3, <1>4, <2>1 DEF IsTokens, TokensAt, line
<1>6. Read(call, place, m + 1) = e
  <2>1. ~(m + 1 <= Len(Written(call))) /\ ~(m + 1 <= m)
    BY <1>1
  <2>. QED
    BY <1>2, <2>1 DEF Read
<1>. HIDE DEF e
<1>7. Len(<<e>>) = m + 1 - m /\ \A k \in 1 .. m + 1 - m : k = 1 /\ <<e>>[k] = Read(call, place, m + k)
  <2>1. m + 1 - m = 1
    BY <1>1
  <2>. QED
    BY <1>6, <2>1
<1>. QED
  BY <1>2, <1>5, <1>7 DEF ReadFrom

\* The tokens of the line of a call.
LEMMA LineRead ==
    ASSUME NEW call, IsCall(call)
    PROVE  \E place, args :
              /\ args \in Seq(LexTokens)
              /\ Tokens[Line(call)] = <<Token(call.op, <<call.op>>, 2)>> \o args
              /\ (\A i \in 1 .. Len(Words(call)) : ~Slips(call, i)) => ReadFrom(call, place, args, 0)
              /\ (\E i \in 1 .. Len(Words(call)) : Slips(call, i)) => SlipsFrom(call, args, 0)
<1>. DEFINE line == Line(call)
            m == Len(Words(call))
<1>1. /\ line \in Texts /\ Len(line) \in Nat /\ Char(line, 1) = call.op /\ m \in Nat
      /\ Char(line, Len(line)) = Newline /\ Words(call) \in Seq(Texts) /\ call.op \in Keywords
  BY LineAt, WordsAre, WrittenIs DEF Texts
<1>2. PICK place : PlacedIn(line, Words(call), place)
  BY LineAt
<1>3. PICK from : IsTokens(from, line) /\ Tokens[line] = from[1]
  BY <1>1, TokensUnfold
<1>4. /\ place \in [0 .. m -> 2 .. Len(line)] /\ place[0] = 2 /\ place[m] = Len(line)
      /\ 0 \in 0 .. m /\ 2 \in 2 .. Len(line)
  <2>1. place \in [0 .. m -> 2 .. Len(line)] /\ place[0] = 2 /\ place[m] = Len(line) /\ 0 \in 0 .. m
    BY <1>1, <1>2 DEF PlacedIn
  <2>2. place[0] \in 2 .. Len(line)
    BY <2>1
  <2>. QED
    BY <2>1, <2>2
<1>5. IsSpace(Char(line, 2)) \/ IsControl(Char(line, 2))
  <2>1. CASE m = 0
    <3>1. Char(line, 2) = Newline
      BY <1>1, <1>4, <2>1
    <3>. QED
      BY <3>1 DEF IsControl, Newline
  <2>2. CASE m /= 0
    <3>. DEFINE one == 1
                w == Words(call)[one]
                two == 2
    <3>1. one \in 1 .. m /\ one - 1 = 0
      BY <1>1, <2>2
    <3>2. StandsAt(line, two, Spaced(w)) /\ w \in Texts /\ two \in Nat \ {0}
      <4>1. StandsAt(line, place[one - 1], Spaced(w))
        BY <1>2, <3>1 DEF PlacedIn
      <4>2. w \in Texts
        BY <1>1, <3>1, ElementOfSeq
      <4>. QED
        BY <1>4, <3>1, <4>1, <4>2
    <3>. HIDE DEF w, two
    <3>3. Char(line, two) = Space
      BY <1>1, <3>2, SpacedAt
    <3>. QED
      BY <3>3 DEF two, IsSpace
  <2>. QED
    BY <2>1, <2>2
<1>. DEFINE head == Token(call.op, <<call.op>>, 2)
            args == from[2]
<1>6. Lex(line, 1) = head
  <2>1. 2 <= Len(line)
    BY <1>1, <1>4
  <2>. QED
    BY <1>1, <1>5, <2>1, KeywordLexed
<1>7. from[1] = <<head>> \o from[2]
  <2>1. head.kind \notin {Newline, Tok_none} /\ head.next = 2
    <3>1. head.kind = call.op /\ head.next = 2
      BY DEF Token
    <3>. DEFINE c == call.op
    <3>2. c \in 300 .. 315
      BY <1>1 DEF Keywords
    <3>. HIDE DEF c
    <3>3. c \notin {Newline, Tok_none}
      BY <3>2 DEF Newline, Tok_none
    <3>. QED
      BY <3>1, <3>3 DEF c
  <2>2. 1 \in 1 .. Len(line) + 2
    BY <1>1
  <2>3. from[1] = TokensAt(line, from, 1)
    BY <1>3, <2>2 DEF IsTokens
  <2>. HIDE DEF head
  <2>. QED
    BY <1>6, <2>1, <2>3 DEF TokensAt
<1>8. \A i \in 1 .. m :
         /\ from[place[i - 1]] \in Seq(LexTokens) /\ from[place[i]] \in Seq(LexTokens)
         /\ IF Slips(call, i) THEN SlipsFrom(call, from[place[i - 1]], i - 1)
            ELSE /\ from[place[i - 1]] = <<Read(call, place, i)>> \o from[place[i]]
                 /\ Read(call, place, i) \in LexTokens
  BY <1>2, <1>3, WordRead
<1>9. args \in Seq(LexTokens)
  <2>1. 2 \in 1 .. Len(line) + 1
    BY <1>1, <1>4
  <2>2. \A j \in 1 .. Len(line) + 1 : Inside(from[j], line)
    BY <1>1, <1>3, FromInside
  <2>. QED
    BY <2>1, <2>2 DEF Inside
<1>. HIDE DEF line
<1>10. ASSUME \A i \in 1 .. m : ~Slips(call, i)
       PROVE  ReadFrom(call, place, args, 0)
  <2>. DEFINE T == {i \in 0 .. m : ReadFrom(call, place, from[place[i]], i)}
  <2>1. m \in T
    BY <1>1, <1>2, <1>3, EndRead DEF line
  <2>2. ASSUME NEW j \in 0 .. m - 1, j + 1 \in T
        PROVE  j \in T
    <3>. DEFINE i == j + 1
    <3>1. i \in 1 .. m /\ i - 1 = j /\ j \in 0 .. m /\ ReadFrom(call, place, from[place[i]], i)
      BY <1>1, <2>2
    <3>. HIDE DEF i
    <3>. DEFINE s == from[place[i]]
                t == Read(call, place, i)
    <3>2. from[place[j]] = <<t>> \o s /\ t \in LexTokens /\ s \in Seq(LexTokens)
      BY <1>8, <1>10, <3>1
    <3>3. Len(s) = m + 1 - i /\ \A k \in 1 .. m + 1 - i : s[k] = Read(call, place, i + k)
      BY <3>1 DEF ReadFrom
    <3>. HIDE DEF s, t
    <3>4. /\ Len(<<t>> \o s) = 1 + Len(s) /\ (<<t>> \o s)[1] = t
          /\ \A k \in 1 .. Len(s) : (<<t>> \o s)[1 + k] = s[k]
      BY <3>2, OneMore
    <3>5. Len(<<t>> \o s) = m + 1 - j
      BY <1>1, <3>1, <3>3, <3>4
    <3>6. ASSUME NEW k \in 1 .. m + 1 - j
          PROVE  (<<t>> \o s)[k] = Read(call, place, j + k)
      <4>1. CASE k = 1
        <5>1. j + k = i
          BY <1>1, <3>1, <4>1
        <5>. QED
          BY <3>4, <4>1, <5>1 DEF t
      <4>2. CASE k /= 1
        <5>. DEFINE r == k - 1
        <5>1. r \in 1 .. m + 1 - i /\ r \in 1 .. Len(s) /\ 1 + r = k /\ i + r = j + k
          BY <1>1, <3>1, <3>3, <4>2
        <5>. HIDE DEF r
        <5>2. (<<t>> \o s)[1 + r] = s[r] /\ s[r] = Read(call, place, i + r)
          BY <3>3, <3>4, <5>1
        <5>. QED
          BY <5>1, <5>2
      <4>. QED
        BY <4>1, <4>2
    <3>7. ReadFrom(call, place, <<t>> \o s, j)
      BY <3>5, <3>6 DEF ReadFrom
    <3>. QED
      BY <3>1, <3>2, <3>7
  <2>. HIDE DEF T, m
  <2>3. 0 .. m \subseteq T
    BY <1>1, <2>1, <2>2, Downward
  <2>4. 0 \in T
    BY <1>4, <2>3
  <2>. QED
    BY <1>4, <2>4 DEF T
<1>11. ASSUME NEW n \in 1 .. m, Slips(call, n)
       PROVE  SlipsFrom(call, args, 0)
  <2>. DEFINE T == {i \in 0 .. n - 1 : SlipsFrom(call, from[place[i]], i)}
  <2>1. n - 1 \in T /\ n - 1 \in Nat
    <3>1. n - 1 \in Nat /\ n - 1 \in 0 .. n - 1
      BY <1>1
    <3>2. SlipsFrom(call, from[place[n - 1]], n - 1)
      BY <1>8, <1>11
    <3>. QED
      BY <3>1, <3>2
  <2>2. ASSUME NEW j \in 0 .. (n - 1) - 1, j + 1 \in T
        PROVE  j \in T
    <3>. DEFINE i == j + 1
    <3>1. i \in 1 .. m /\ i - 1 = j /\ j \in 0 .. n - 1 /\ SlipsFrom(call, from[place[i]], i)
      BY <1>1, <2>2
    <3>. HIDE DEF i
    <3>2. CASE Slips(call, i)
      BY <1>8, <3>1, <3>2
    <3>3. CASE ~Slips(call, i)
      <4>. DEFINE s == from[place[i]]
                  t == Read(call, place, i)
      <4>1. from[place[j]] = <<t>> \o s /\ t \in LexTokens /\ s \in Seq(LexTokens)
        BY <1>8, <3>1, <3>3
      <4>2. PICK k \in 1 .. Len(s) :
               /\ i + k <= m /\ s[k].kind \in {Tok_none, Tok_str} /\ s[k].kind /= Kind(call, i + k)
        BY <3>1 DEF SlipsFrom
      <4>. HIDE DEF s, t
      <4>3. /\ Len(<<t>> \o s) = 1 + Len(s) /\ Len(s) \in Nat
            /\ \A r \in 1 .. Len(s) : (<<t>> \o s)[1 + r] = s[r]
        BY <4>1, OneMore
      <4>. DEFINE q == 1 + k
                  u == <<t>> \o s
      <4>4. q \in 1 .. Len(u) /\ j + q = i + k /\ u[q] = s[k]
        <5>. DEFINE a == Len(s)
                    b == Len(u)
        <5>1. a \in Nat /\ b = 1 + a /\ k \in 1 .. a
          BY <4>3
        <5>. HIDE DEF a, b, u
        <5>2. q \in 1 .. b /\ j + q = i + k
          BY <1>1, <3>1, <5>1
        <5>3. u[1 + k] = s[k]
          BY <4>3 DEF u
        <5>. QED
          BY <5>2, <5>3 DEF b
      <4>. HIDE DEF q, u
      <4>5. SlipsFrom(call, u, j)
        BY <4>2, <4>4 DEF SlipsFrom
      <4>. QED
        BY <3>1, <4>1, <4>5 DEF u
    <3>. QED
      BY <3>2, <3>3
  <2>. HIDE DEF T
  <2>3. 0 .. n - 1 \subseteq T
    BY <2>1, <2>2, Downward
  <2>4. 0 \in T
    BY <2>1, <2>3
  <2>. QED
    BY <1>4, <2>4 DEF T
<1>12. Tokens[Line(call)] = <<head>> \o args
  BY <1>3, <1>7 DEF line
<1>. HIDE DEF args, head, m
<1>13. /\ args \in Seq(LexTokens) /\ Tokens[Line(call)] = <<head>> \o args
       /\ (\A i \in 1 .. m : ~Slips(call, i)) => ReadFrom(call, place, args, 0)
       /\ (\E i \in 1 .. m : Slips(call, i)) => SlipsFrom(call, args, 0)
  BY <1>9, <1>10, <1>11, <1>12
<1>. QED
  BY <1>13 DEF head, m

-----------------------------------------------------------------------------
(* What tokens are taken for.                                                *)

\* The texts of the tokens of one kind, when these are next to each other.
LEMMA TextsAre ==
    ASSUME NEW tokens \in Seq(LexTokens), NEW kind, NEW a \in Nat, NEW b \in Nat,
           a + b <= Len(tokens),
           \A i \in 1 .. Len(tokens) : tokens[i].kind = kind <=> i \in a + 1 .. a + b
    PROVE  /\ TextsOf(tokens, kind) \in Seq(Texts) /\ Len(TextsOf(tokens, kind)) = b
           /\ \A i \in 1 .. b : TextsOf(tokens, kind)[i] = tokens[a + i].text
<1>. DEFINE n == Len(tokens)
            one(i) == IF tokens[i].kind = kind THEN <<tokens[i].text>> ELSE <<>>
            texts == [i \in DOMAIN tokens |-> one(i)]
<1>1. n \in Nat /\ DOMAIN tokens = 1 .. n /\ a + b <= n
  OBVIOUS
<1>2. \A i \in 1 .. n : tokens[i].text \in Texts
  <2>. TAKE i \in 1 .. n
  <2>1. tokens[i] \in LexTokens
    BY ElementOfSeq
  <2>. QED
    BY <2>1 DEF LexTokens
<1>3. \A i \in 1 .. n : tokens[i].kind = kind <=> i \in a + 1 .. a + b
  OBVIOUS
<1>4. TextsOf(tokens, kind) = FlattenSeq(texts)
  BY DEF TextsOf
<1>. HIDE DEF n
<1>5. \A i \in 1 .. n : /\ i \in a + 1 .. a + b => one(i) = <<tokens[i].text>>
                        /\ i \notin a + 1 .. a + b => one(i) = <<>>
                        /\ one(i) \in Seq(Texts)
  BY <1>2, <1>3
<1>. HIDE DEF one
<1>6. texts \in Seq(Seq(Texts)) /\ Len(texts) = n /\ \A i \in 1 .. n : texts[i] = one(i)
  <2>1. texts = [i \in 1 .. n |-> one(i)]
    BY <1>1
  <2>2. texts \in Seq(Seq(Texts))
    BY <1>1, <1>5, <2>1, IsASeq
  <2>. QED
    BY <1>1, <2>1, <2>2
<1>. HIDE DEF texts
<1>7. PICK joined : IsFlattened(joined, texts, Texts)
  BY <1>6, FlattenUnfolds
<1>8. /\ \A i \in 0 .. n : joined[i] \in Seq(Texts)
      /\ joined[0] = <<>>
      /\ \A i \in 1 .. n : joined[i] = joined[i - 1] \o one(i)
      /\ FlattenSeq(texts) = joined[n]
  <2>1. /\ joined \in [0 .. n -> Seq(Texts)] /\ joined[0] = <<>>
        /\ \A i \in 1 .. n : joined[i] = joined[i - 1] \o texts[i]
        /\ FlattenSeq(texts) = joined[n]
    BY <1>6, <1>7 DEF IsFlattened
  <2>. QED
    BY <1>6, <2>1
<1>. DEFINE got(i) == IF i <= a THEN 0 ELSE IF i <= a + b THEN i - a ELSE b
            T == {i \in 0 .. n : /\ Len(joined[i]) = got(i)
                                 /\ \A k \in 1 .. got(i) : joined[i][k] = tokens[a + k].text}
<1>9. 0 \in T
  <2>1. got(0) = 0 /\ Len(joined[0]) = 0 /\ 0 \in 0 .. n
    BY <1>1, <1>8
  <2>. QED
    BY <2>1
<1>10. ASSUME NEW i \in 1 .. n, i - 1 \in T
       PROVE  i \in T
  <2>. DEFINE h == i - 1
              s == joined[h]
              u == one(i)
  <2>1. /\ h \in 0 .. n /\ i \in 0 .. n /\ i = h + 1 /\ s \in Seq(Texts) /\ u \in Seq(Texts)
        /\ joined[i] = s \o u
        /\ Len(s) = got(h) /\ \A k \in 1 .. got(h) : s[k] = tokens[a + k].text
    <3>1. h \in 0 .. n /\ i \in 0 .. n /\ i = h + 1
      BY <1>1
    <3>. QED
      BY <1>5, <1>8, <1>10, <3>1
  <2>2. got(h) \in Nat /\ got(i) = IF i \in a + 1 .. a + b THEN got(h) + 1 ELSE got(h)
    BY <1>1, <2>1
  <2>. HIDE DEF h, s, got
  <2>3. CASE i \in a + 1 .. a + b
    <3>1. u = <<tokens[i].text>>
      BY <1>5, <2>3
    <3>2. Len(u) = 1 /\ u[1] = tokens[i].text
      BY <3>1
    <3>. HIDE DEF u
    <3>3. /\ Len(s \o u) = Len(s) + Len(u) /\ \A k \in 1 .. Len(s) : (s \o u)[k] = s[k]
          /\ \A k \in 1 .. Len(u) : (s \o u)[Len(s) + k] = u[k]
      <4>1. s \in Seq(Texts) /\ u \in Seq(Texts)
        BY <2>1
      <4>. QED
        BY <4>1, JoinParts
    <3>4. got(i) = got(h) + 1 /\ Len(s \o u) = got(i)
      BY <2>1, <2>2, <2>3, <3>2, <3>3
    <3>5. a + (got(h) + 1) = i
      BY <1>1, <2>1, <2>2, <2>3 DEF got
    <3>6. ASSUME NEW k \in 1 .. got(i)
          PROVE  (s \o u)[k] = tokens[a + k].text
      <4>1. CASE k = got(h) + 1
        <5>1. 1 \in 1 .. Len(u) /\ (s \o u)[Len(s) + 1] = u[1]
          BY <3>2, <3>3
        <5>. QED
          BY <2>1, <3>2, <3>5, <4>1, <5>1
      <4>2. CASE k /= got(h) + 1
        <5>1. k \in 1 .. got(h)
          BY <2>2, <3>4, <4>2
        <5>. QED
          BY <2>1, <3>3, <5>1
      <4>. QED
        BY <4>1, <4>2
    <3>. QED
      BY <2>1, <3>4, <3>6
  <2>4. CASE i \notin a + 1 .. a + b
    <3>1. u = <<>> /\ joined[i] = s
      <4>1. u = <<>>
        BY <1>5, <2>4
      <4>. QED
        BY <2>1, <4>1, ConcatEmptySeq
    <3>. QED
      BY <2>1, <2>2, <2>4, <3>1
  <2>. QED
    BY <2>3, <2>4
<1>11. got(n) = b
  BY <1>1
<1>. HIDE DEF T
<1>12. 0 .. n \subseteq T
  BY <1>1, <1>9, <1>10, Upward
<1>13. n \in T /\ n \in 0 .. n
  BY <1>1, <1>12
<1>14. joined[n] \in Seq(Texts) /\ Len(joined[n]) = b /\ \A k \in 1 .. b : joined[n][k] = tokens[a + k].text
  <2>1. joined[n] \in Seq(Texts)
    BY <1>8, <1>13
  <2>. HIDE DEF got
  <2>2. Len(joined[n]) = got(n) /\ \A k \in 1 .. got(n) : joined[n][k] = tokens[a + k].text
    BY <1>13 DEF T
  <2>. QED
    BY <1>11, <2>1, <2>2
<1>. QED
  BY <1>4, <1>8, <1>14

\* A keyword and the tokens behind it.
LEMMA CallOfIs ==
    ASSUME NEW t \in LexTokens, t.kind \in Keywords, NEW args \in Seq(LexTokens)
    PROVE  CallOf[<<t>> \o args] =
              IF ~WellFormed(t.kind, [i \in DOMAIN args |-> args[i].kind]) THEN Malformed
              ELSE IF t.kind \in {Tok_delGroup, Tok_delSpecialKey} THEN Understood(t.kind, <<args[1]>>)
              ELSE Understood(t.kind, args)
<1>. DEFINE tokens == <<t>> \o args
<1>1. /\ tokens \in Seq(LexTokens) /\ Len(args) \in Nat /\ Len(tokens) = 1 + Len(args) /\ tokens[1] = t
      /\ \A k \in 1 .. Len(args) : tokens[1 + k] = args[k]
  BY OneMore
<1>. HIDE DEF tokens
<1>2. Tail(tokens) = args
  <2>1. tokens /= <<>>
    BY <1>1
  <2>2. /\ Tail(tokens) \in Seq(LexTokens) /\ Len(Tail(tokens)) = Len(tokens) - 1
        /\ \A i \in 1 .. Len(Tail(tokens)) : Tail(tokens)[i] = tokens[i + 1]
    BY <1>1, <2>1, HeadTailProperties
  <2>. DEFINE l == Len(args)
              s == Tail(tokens)
  <2>3. l \in Nat /\ s \in Seq(LexTokens) /\ Len(s) = l
    BY <1>1, <2>2
  <2>. HIDE DEF l, s
  <2>4. \A i \in 1 .. l : s[i] = args[i]
    <3>. TAKE i \in 1 .. l
    <3>1. i + 1 = 1 + i
      BY <2>3
    <3>. QED
      BY <1>1, <2>2, <2>3, <3>1 DEF l, s
  <2>5. s = args
    BY <2>3, <2>4, SeqEqual DEF l
  <2>. QED
    BY <2>5 DEF s
<1>3. tokens \in TokenLists
  BY <1>1 DEF TokenLists, LexTokens
<1>4. CallOf[tokens] =
         IF ~WellFormed(t.kind, [i \in DOMAIN args |-> args[i].kind]) THEN Malformed
         ELSE IF t.kind \in {Tok_delGroup, Tok_delSpecialKey} THEN Understood(t.kind, <<args[1]>>)
         ELSE Understood(t.kind, args)
  <2>. HIDE DEF WellFormed, Malformed, Understood
  <2>. QED
    BY <1>1, <1>2, <1>3 DEF CallOf
<1>. QED
  BY <1>4 DEF tokens

\* A prefix, element by element.
LEMMA PrefixElements ==
    ASSUME NEW B, NEW s \in Seq(B), NEW t \in Seq(B)
    PROVE  IsPrefix(s, t) <=> Len(s) <= Len(t) /\ \A i \in 1 .. Len(s) : s[i] = t[i]
<1>1. Len(s) \in Nat /\ Len(t) \in Nat /\ SubSeq(s, 1, Len(s)) = s
  BY SubSeqFull
<1>2. CASE ~(Len(s) <= Len(t))
  BY <1>2 DEF IsPrefix
<1>3. CASE Len(s) <= Len(t)
  <2>. DEFINE n == Len(s)
              u == FirstOf(t, n)
  <2>1. n \in 0 .. Len(t)
    BY <1>1, <1>3
  <2>. HIDE DEF n
  <2>2. u = SubSeq(t, 1, n) /\ u \in Seq(B) /\ Len(u) = n /\ \A i \in 1 .. n : u[i] = t[i]
    BY <2>1, CutParts
  <2>. HIDE DEF u
  <2>3. IsPrefix(s, t) <=> s = u
    BY <1>1, <1>3, <2>2 DEF IsPrefix, n
  <2>4. (\A i \in 1 .. n : s[i] = t[i]) => s = u
    <3>1. ASSUME \A i \in 1 .. n : s[i] = t[i]
          PROVE  s = u
      <4>1. \A i \in 1 .. Len(s) : s[i] = u[i]
        BY <2>2, <3>1 DEF n
      <4>. QED
        BY <2>2, <4>1, SeqEqual DEF n
    <3>. QED
      BY <3>1
  <2>. QED
    BY <1>3, <2>2, <2>3, <2>4 DEF n
<1>. QED
  BY <1>2, <1>3

\* doCommand() expects of every command what class Client sends with it.
Expects(op, a, b) ==
    LET pattern == Pattern(op)
    IN  /\ a \in Nat /\ b \in Nat /\ pattern \in Seq(Nat)
        /\ Len(pattern) = (IF op \in {Tok_delGroup, Tok_delSpecialKey} THEN 0 ELSE 1) + a + b
        /\ \A k \in 1 .. a : pattern[k] = Tok_str
        /\ \A k \in a + 1 .. a + b : pattern[k] = Tok_num
        /\ op \notin {Tok_delGroup, Tok_delSpecialKey} => pattern[a + b + 1] = Newline

\* There are sixteen keywords.
LEMMA KeywordIs ==
    ASSUME NEW op \in Keywords
    PROVE  op \in {Tok_exec, Tok_pass, Tok_delCmd, Tok_ping, Tok_stop, Tok_set, Tok_get, Tok_delVar,
                   Tok_delGroup, Tok_host, Tok_prio, Tok_sched, Tok_getKeys, Tok_chkGroup,
                   Tok_delSpecialKey, Tok_exit}
BY DEF Keywords, Tok_exec, Tok_pass, Tok_delCmd, Tok_ping, Tok_stop, Tok_set, Tok_get, Tok_delVar,
       Tok_delGroup, Tok_host, Tok_prio, Tok_sched, Tok_getKeys, Tok_chkGroup, Tok_delSpecialKey,
       Tok_exit

\* Sixteen commands, sixteen patterns.
LEMMA PatternIs ==
    ASSUME NEW op \in Keywords, op /= Tok_exec
    PROVE  Expects(op, Arity(op)[1], Arity(op)[2])
<1>. USE DEF Tok_exec, Tok_pass, Tok_delCmd, Tok_ping, Tok_stop, Tok_set, Tok_get, Tok_delVar,
             Tok_delGroup, Tok_host, Tok_prio, Tok_sched, Tok_getKeys, Tok_chkGroup,
             Tok_delSpecialKey, Tok_exit
<1>0. Tok_str \in Nat /\ Tok_num \in Nat /\ Newline \in Nat
  BY DEF Tok_str, Tok_num, Newline
<1>1. CASE op = Tok_pass
  <2>1. Pattern(op) = <<Tok_str, Tok_num, Newline>> /\ Arity(op) = <<1, 1>>
    BY <1>1 DEF Pattern, Arity
  <2>. DEFINE p == Pattern(op)
  <2>2. p \in Seq(Nat) /\ Len(p) = 3 /\ p[1] = Tok_str /\ p[2] = Tok_num /\ p[3] = Newline
    BY <1>0, <2>1
  <2>3. Arity(op)[1] = 1 /\ Arity(op)[2] = 1
    BY <2>1
  <2>4. (\A k \in 1 .. 1 : k = 1) /\ (\A k \in 2 .. 2 : k = 2) /\ 1 + 1 = 2 /\ 1 + 1 = 2
    OBVIOUS
  <2>5. op \notin {Tok_delGroup, Tok_delSpecialKey}
    BY <1>1
  <2>. HIDE DEF p
  <2>. QED
    BY <2>2, <2>3, <2>4, <2>5 DEF Expects, p
<1>2. CASE op = Tok_set
  <2>1. Pattern(op) = <<Tok_str, Tok_str, Tok_str, Tok_num, Newline>> /\ Arity(op) = <<3, 1>>
    BY <1>2 DEF Pattern, Arity
  <2>. DEFINE p == Pattern(op)
  <2>2. p \in Seq(Nat) /\ Len(p) = 5 /\ p[1] = Tok_str /\ p[2] = Tok_str /\ p[3] = Tok_str /\ p[4] = Tok_num /\ p[5] = Newline
    BY <1>0, <2>1
  <2>3. Arity(op)[1] = 3 /\ Arity(op)[2] = 1
    BY <2>1
  <2>4. (\A k \in 1 .. 3 : k = 1 \/ k = 2 \/ k = 3) /\ (\A k \in 4 .. 4 : k = 4) /\ 3 + 1 = 4 /\ 3 + 1 = 4
    OBVIOUS
  <2>5. op \notin {Tok_delGroup, Tok_delSpecialKey}
    BY <1>2
  <2>. HIDE DEF p
  <2>. QED
    BY <2>2, <2>3, <2>4, <2>5 DEF Expects, p
<1>3. CASE op = Tok_delCmd
  <2>1. Pattern(op) = <<Tok_str, Tok_str, Newline>> /\ Arity(op) = <<2, 0>>
    BY <1>3 DEF Pattern, Arity
  <2>. DEFINE p == Pattern(op)
  <2>2. p \in Seq(Nat) /\ Len(p) = 3 /\ p[1] = Tok_str /\ p[2] = Tok_str /\ p[3] = Newline
    BY <1>0, <2>1
  <2>3. Arity(op)[1] = 2 /\ Arity(op)[2] = 0
    BY <2>1
  <2>4. (\A k \in 1 .. 2 : k = 1 \/ k = 2) /\ (\A k \in 3 .. 2 : FALSE) /\ 2 + 0 = 2 /\ 2 + 1 = 3
    OBVIOUS
  <2>5. op \notin {Tok_delGroup, Tok_delSpecialKey}
    BY <1>3
  <2>. HIDE DEF p
  <2>. QED
    BY <2>2, <2>3, <2>4, <2>5 DEF Expects, p
<1>4. CASE op \in {Tok_host, Tok_get, Tok_getKeys, Tok_chkGroup, Tok_delVar}
  <2>1. Pattern(op) = <<Tok_str, Newline>> /\ Arity(op) = <<1, 0>>
    BY <1>4 DEF Pattern, Arity
  <2>. DEFINE p == Pattern(op)
  <2>2. p \in Seq(Nat) /\ Len(p) = 2 /\ p[1] = Tok_str /\ p[2] = Newline
    BY <1>0, <2>1
  <2>3. Arity(op)[1] = 1 /\ Arity(op)[2] = 0
    BY <2>1
  <2>4. (\A k \in 1 .. 1 : k = 1) /\ (\A k \in 2 .. 1 : FALSE) /\ 1 + 0 = 1 /\ 1 + 1 = 2
    OBVIOUS
  <2>5. op \notin {Tok_delGroup, Tok_delSpecialKey}
    BY <1>4
  <2>. HIDE DEF p
  <2>. QED
    BY <2>2, <2>3, <2>4, <2>5 DEF Expects, p
<1>5. CASE op \in {Tok_prio, Tok_sched}
  <2>1. Pattern(op) = <<Tok_num, Newline>> /\ Arity(op) = <<0, 1>>
    BY <1>5 DEF Pattern, Arity
  <2>. DEFINE p == Pattern(op)
  <2>2. p \in Seq(Nat) /\ Len(p) = 2 /\ p[1] = Tok_num /\ p[2] = Newline
    BY <1>0, <2>1
  <2>3. Arity(op)[1] = 0 /\ Arity(op)[2] = 1
    BY <2>1
  <2>4. (\A k \in 1 .. 0 : FALSE) /\ (\A k \in 1 .. 1 : k = 1) /\ 0 + 1 = 1 /\ 0 + 1 = 1
    OBVIOUS
  <2>5. op \notin {Tok_delGroup, Tok_delSpecialKey}
    BY <1>5
  <2>. HIDE DEF p
  <2>. QED
    BY <2>2, <2>3, <2>4, <2>5 DEF Expects, p
<1>6. CASE op \in {Tok_delGroup, Tok_delSpecialKey}
  <2>1. Pattern(op) = <<Tok_str>> /\ Arity(op) = <<1, 0>>
    BY <1>6 DEF Pattern, Arity
  <2>. DEFINE p == Pattern(op)
  <2>2. p \in Seq(Nat) /\ Len(p) = 1 /\ p[1] = Tok_str
    BY <1>0, <2>1
  <2>3. Arity(op)[1] = 1 /\ Arity(op)[2] = 0
    BY <2>1
  <2>4. (\A k \in 1 .. 1 : k = 1) /\ (\A k \in 2 .. 1 : FALSE) /\ 1 + 0 = 1 /\ 1 + 1 = 2
    OBVIOUS
  <2>5. op \in {Tok_delGroup, Tok_delSpecialKey}
    BY <1>6
  <2>. HIDE DEF p
  <2>. QED
    BY <2>2, <2>3, <2>4, <2>5 DEF Expects, p
<1>7. CASE op \in {Tok_ping, Tok_exit, Tok_stop}
  <2>1. Pattern(op) = <<Newline>> /\ Arity(op) = <<0, 0>>
    BY <1>7 DEF Pattern, Arity
  <2>. DEFINE p == Pattern(op)
  <2>2. p \in Seq(Nat) /\ Len(p) = 1 /\ p[1] = Newline
    BY <1>0, <2>1
  <2>3. Arity(op)[1] = 0 /\ Arity(op)[2] = 0
    BY <2>1
  <2>4. (\A k \in 1 .. 0 : FALSE) /\ (\A k \in 1 .. 0 : FALSE) /\ 0 + 0 = 0 /\ 0 + 1 = 1
    OBVIOUS
  <2>5. op \notin {Tok_delGroup, Tok_delSpecialKey}
    BY <1>7
  <2>. HIDE DEF p
  <2>. QED
    BY <2>2, <2>3, <2>4, <2>5 DEF Expects, p
<1>. QED
  BY <1>1, <1>2, <1>3, <1>4, <1>5, <1>6, <1>7, KeywordIs

\* What is written of a call: all of it, but for empty options at the end.
LEMMA WrittenParts ==
    ASSUME NEW call, IsCall(call), NEW a, a = Len(Written(call)), NEW b, b = Len(call.numbers)
    PROVE  /\ a \in Nat /\ b \in Nat /\ Len(Words(call)) = a + b
           /\ call.op = Tok_exec => a >= 2 /\ b = 0
           /\ call.op /= Tok_exec => Expects(call.op, a, b)
           /\ WithOptions(call.op, Written(call)) = call.strings
<1>1. a \in Nat /\ b \in Nat /\ Len(Words(call)) = a + b
  BY WordsAre
<1>2. /\ call.op \in Keywords /\ call.strings \in Seq(Bytes)
      /\ IF call.op = Tok_exec THEN Len(call.strings) >= 3 /\ call.numbers = <<>>
         ELSE <<Len(call.strings), Len(call.numbers)>> = Arity(call.op)
  BY DEF IsCall
<1>3. CASE call.op /= Tok_exec
  <2>1. Written(call) = call.strings
    BY <1>3 DEF Written
  <2>2. Arity(call.op) = <<a, b>>
    BY <1>2, <1>3, <2>1
  <2>3. Arity(call.op)[1] = a /\ Arity(call.op)[2] = b
    BY <2>2
  <2>4. Expects(call.op, Arity(call.op)[1], Arity(call.op)[2])
    BY <1>2, <1>3, PatternIs
  <2>. QED
    BY <1>1, <1>3, <2>1, <2>3, <2>4 DEF WithOptions
<1>4. CASE call.op = Tok_exec
  <2>. DEFINE s == call.strings
  <2>1. s \in Seq(Bytes) /\ Len(s) >= 3 /\ call.numbers = <<>> /\ b = 0
    BY <1>2, <1>4
  <2>2. CASE Tail(Tail(s)) = << <<>> >>
    <3>1. Written(call) = SubSeq(s, 1, 2)
      BY <1>4, <2>2 DEF Written
    <3>2. \A i \in 1 .. 2 : s[i] \in Bytes
      BY <2>1, ElementOfSeq
    <3>3. /\ SubSeq(s, 1, 2) \in Seq(Bytes) /\ Len(SubSeq(s, 1, 2)) = 2
          /\ SubSeq(s, 1, 2)[1] = s[1] /\ SubSeq(s, 1, 2)[2] = s[2]
      BY <3>2
    <3>. DEFINE u == SubSeq(s, 1, 2)
                t == Tail(s)
                r == Tail(t)
    <3>4. s /= <<>>
      BY <2>1
    <3>5. t \in Seq(Bytes) /\ Len(t) = Len(s) - 1 /\ \A i \in 1 .. Len(t) : t[i] = s[i + 1]
      BY <2>1, <3>4, HeadTailProperties
    <3>. HIDE DEF t, s
    <3>6. t /= <<>>
      BY <2>1, <3>5
    <3>7. r \in Seq(Bytes) /\ Len(r) = Len(t) - 1 /\ \A i \in 1 .. Len(r) : r[i] = t[i + 1]
      BY <3>5, <3>6, HeadTailProperties
    <3>8. r = << <<>> >>
      BY <2>2 DEF t
    <3>. HIDE DEF r, u
    <3>9. Len(r) = 1 /\ r[1] = <<>>
      <4>. DEFINE e == <<>>
      <4>1. r = <<e>>
        BY <3>8
      <4>. HIDE DEF e
      <4>2. Len(r) = 1 /\ r[1] = e
        BY <4>1
      <4>. QED
        BY <4>2 DEF e
    <3>10. Len(s) = 3 /\ Len(t) = 2
      <4>. DEFINE x == Len(s)
                  y == Len(t)
                  z == Len(r)
      <4>1. x \in Nat /\ y \in Nat /\ y = x - 1 /\ z = y - 1 /\ z = 1
        <5>1. x \in Nat /\ y \in Nat
          BY <2>1, <3>5
        <5>2. y = x - 1
          BY <3>5
        <5>3. z = y - 1
          BY <3>7
        <5>4. z = 1
          BY <3>9
        <5>. QED
          BY <5>1, <5>2, <5>3, <5>4
      <4>. HIDE DEF x, y, z
      <4>2. x = 3 /\ y = 2
        BY <4>1
      <4>. QED
        BY <4>2 DEF x, y
    <3>11. s[3] = <<>>
      <4>1. 1 \in 1 .. Len(r) /\ 2 \in 1 .. Len(t) /\ 1 + 1 = 2 /\ 2 + 1 = 3
        BY <3>9, <3>10
      <4>. QED
        BY <3>5, <3>7, <3>9, <4>1
    <3>12. /\ u \in Seq(Bytes) /\ Len(u) = 2 /\ u[1] = s[1] /\ u[2] = s[2] /\ <<>> \in Bytes
      BY <3>3, Empty DEF u
    <3>13. /\ Append(u, <<>>) \in Seq(Bytes) /\ Len(Append(u, <<>>)) = 3
           /\ Append(u, <<>>)[3] = <<>> /\ \A i \in 1 .. 2 : Append(u, <<>>)[i] = u[i]
      <4>. DEFINE e == <<>>
      <4>1. e \in Bytes
        BY <3>12
      <4>. HIDE DEF e
      <4>2. /\ Append(u, e) \in Seq(Bytes) /\ Len(Append(u, e)) = Len(u) + 1
            /\ \A i \in 1 .. Len(u) : Append(u, e)[i] = u[i]
            /\ Append(u, e)[Len(u) + 1] = e
        <5>1. u \in Seq(Bytes)
          BY <3>12
        <5>. QED
          BY <4>1, <5>1, AppendProperties
      <4>. QED
        BY <3>12, <4>2 DEF e
    <3>. DEFINE v == Append(u, <<>>)
    <3>14. v \in Seq(Bytes) /\ Len(v) = 3 /\ v[1] = s[1] /\ v[2] = s[2] /\ v[3] = s[3]
      <4>1. 1 \in 1 .. 2 /\ 2 \in 1 .. 2
        OBVIOUS
      <4>. QED
        BY <3>11, <3>12, <3>13, <4>1
    <3>. HIDE DEF v
    <3>15. v = s
      <4>1. \A i \in 1 .. 3 : v[i] = s[i]
        <5>1. \A i \in 1 .. 3 : i = 1 \/ i = 2 \/ i = 3
          OBVIOUS
        <5>. QED
          BY <3>14, <5>1
      <4>2. s \in Seq(Bytes) /\ v \in Seq(Bytes) /\ Len(v) = Len(s) /\ \A i \in 1 .. Len(v) : v[i] = s[i]
        BY <2>1, <3>10, <3>14, <4>1
      <4>. QED
        BY <4>2, SeqEqual
    <3>16. Written(call) = u
      BY <3>1 DEF u, s
    <3>17. WithOptions(call.op, Written(call)) = v
      BY <1>4, <3>12, <3>16 DEF WithOptions, v
    <3>18. a >= 2
      <4>1. a = Len(u) /\ Len(u) = 2
        BY <3>12, <3>16
      <4>2. a = 2
        BY <4>1
      <4>. QED
        BY <4>2
    <3>. QED
      BY <1>1, <1>4, <2>1, <3>15, <3>17, <3>18 DEF s
  <2>3. CASE Tail(Tail(s)) /= << <<>> >>
    <3>1. Written(call) = s
      BY <1>4, <2>3 DEF Written
    <3>2. Len(s) /= 2 /\ a >= 2
      <4>. DEFINE x == Len(s)
      <4>1. x >= 3 /\ x \in Nat /\ a = x
        BY <2>1, <3>1
      <4>. HIDE DEF x
      <4>2. x /= 2 /\ a >= 2
        BY <4>1
      <4>. QED
        BY <4>2 DEF x
    <3>. QED
      BY <1>1, <1>4, <2>1, <3>1, <3>2 DEF WithOptions
  <2>. QED
    BY <2>2, <2>3
<1>. QED
  BY <1>3, <1>4

\* Class Client can say what does not slip.
LEMMA SpeakableIs ==
    ASSUME NEW call, IsCall(call)
    PROVE  Speakable(call) <=> \A i \in 1 .. Len(Words(call)) : ~Slips(call, i)
<1>. DEFINE w == Written(call)
            s == call.strings
            a == Len(w)
            nums == call.numbers
            b == Len(nums)
            m == Len(Words(call))
<1>1. /\ a \in Nat /\ b \in Nat /\ m = a + b /\ WithOptions(call.op, w) = s
  BY WrittenParts
<1>2. w \in Seq(Bytes) /\ s \in Seq(Bytes) /\ nums \in Seq(-IntMax - 1 .. IntMax)
  BY WrittenIs
<1>3. s = w \/ s = Append(w, <<>>)
  BY <1>1 DEF WithOptions
<1>4. /\ \A i \in 1 .. a : i \in 1 .. Len(s) /\ s[i] = w[i]
      /\ \A i \in 1 .. Len(s) : i \in 1 .. a \/ s[i] = <<>>
  <2>1. CASE s = w
    BY <2>1
  <2>2. CASE s = Append(w, <<>>)
    <3>. DEFINE e == <<>>
    <3>1. e \in Bytes /\ s = Append(w, e)
      BY <2>2, Empty
    <3>. HIDE DEF e, w, s, a
    <3>2. /\ Len(s) = a + 1 /\ \A i \in 1 .. a : s[i] = w[i]
          /\ s[a + 1] = e
      BY <1>2, <3>1, AppendProperties DEF a
    <3>3. \A i \in 1 .. a + 1 : i \in 1 .. a \/ i = a + 1
      BY <1>1
    <3>4. \A i \in 1 .. a : i \in 1 .. a + 1
      BY <1>1
    <3>. QED
      BY <3>2, <3>3, <3>4 DEF e
  <2>. QED
    BY <1>3, <2>1, <2>2
<1>5. DOMAIN s = 1 .. Len(s) /\ DOMAIN nums = 1 .. b
  BY <1>2
<1>6. \A i \in 1 .. b : nums[i] \in Int
  <2>. TAKE i \in 1 .. b
  <2>. DEFINE n == nums[i]
  <2>1. n \in -IntMax - 1 .. IntMax /\ IntMax \in Nat
    BY <1>2, ElementOfSeq, IntMaxAssumption
  <2>. HIDE DEF n
  <2>2. n \in Int
    BY <2>1
  <2>. QED
    BY <2>2 DEF n
<1>7. Speakable(call) <=> /\ \A i \in 1 .. b : nums[i] >= 0
                          /\ \A i \in 1 .. Len(s) : Delete \notin ToSet(s[i])
  BY <1>5 DEF Speakable
<1>8. /\ \A i \in 1 .. a : Slips(call, i) <=> Delete \in ToSet(w[i])
      /\ \A i \in 1 .. b : a + i \in 1 .. m /\ (Slips(call, a + i) <=> ~(nums[i] >= 0))
      /\ \A i \in 1 .. m : i \in 1 .. a \/ \E k \in 1 .. b : i = a + k
      /\ \A i \in 1 .. a : i \in 1 .. m
  <2>1. \A i \in 1 .. a : Slips(call, i) <=> Delete \in ToSet(w[i])
    BY DEF Slips
  <2>2. ASSUME NEW i \in 1 .. b
        PROVE  a + i \in 1 .. m /\ (Slips(call, a + i) <=> ~(nums[i] >= 0))
    <3>. HIDE DEF a, b, m, nums
    <3>1. a + i \in 1 .. m /\ ~(a + i <= a) /\ a + i - a = i
      BY <1>1
    <3>2. Slips(call, a + i) <=> nums[i] < 0
      BY <3>1 DEF Slips, a, nums
    <3>. QED
      BY <1>6, <3>1, <3>2
  <2>3. ASSUME NEW i \in 1 .. m, i \notin 1 .. a
        PROVE  \E k \in 1 .. b : i = a + k
    <3>. HIDE DEF a, b, m
    <3>1. i - a \in 1 .. b /\ i = a + (i - a)
      BY <1>1, <2>3
    <3>. QED
      BY <3>1
  <2>4. \A i \in 1 .. a : i \in 1 .. m
    <3>. HIDE DEF a, b, m
    <3>. QED
      BY <1>1
  <2>. QED
    BY <2>1, <2>2, <2>3, <2>4
<1>. HIDE DEF w, s, a, nums, b, m
<1>9. Delete \notin ToSet(<<>>)
  BY DEF ToSet
<1>10. (\A i \in 1 .. m : ~Slips(call, i)) <=> /\ \A i \in 1 .. b : nums[i] >= 0
                                             /\ \A i \in 1 .. a : Delete \notin ToSet(w[i])
  BY <1>8
<1>11. (\A i \in 1 .. Len(s) : Delete \notin ToSet(s[i])) <=> \A i \in 1 .. a : Delete \notin ToSet(w[i])
  BY <1>4, <1>9
<1>. QED
  BY <1>7, <1>10, <1>11 DEF m

\* A call that cannot be expressed is no call to the daemon.
LEMMA CallMisheard ==
    ASSUME NEW call, IsCall(call), ~Speakable(call)
    PROVE  Parsed(Line(call)) = Malformed
<1>. DEFINE op == call.op
            a == Len(Written(call))
            b == Len(call.numbers)
            m == Len(Words(call))
            head == Token(op, <<op>>, 2)
<1>1. PICK args \in Seq(LexTokens) :
         /\ Tokens[Line(call)] = <<head>> \o args
         /\ (\E i \in 1 .. m : Slips(call, i)) => SlipsFrom(call, args, 0)
  BY LineRead
<1>2. SlipsFrom(call, args, 0)
  BY <1>1, SpeakableIs
<1>3. /\ a \in Nat /\ b \in Nat /\ m = a + b /\ op \in Keywords
      /\ op = Tok_exec => b = 0
      /\ op /= Tok_exec => Expects(op, a, b)
  BY WrittenParts, WrittenIs
<1>4. PICK k \in 1 .. Len(args) :
         /\ k <= m /\ args[k].kind \in {Tok_none, Tok_str} /\ args[k].kind /= Kind(call, k)
  <2>1. PICK k \in 1 .. Len(args) :
           /\ 0 + k <= m /\ args[k].kind \in {Tok_none, Tok_str} /\ args[k].kind /= Kind(call, 0 + k)
    BY <1>2 DEF SlipsFrom
  <2>2. 0 + k = k
    BY <2>1
  <2>. QED
    BY <2>1, <2>2
<1>. DEFINE kinds == [i \in DOMAIN args |-> args[i].kind]
            n == Len(args)
<1>5. kinds \in Seq(Nat) /\ Len(kinds) = n /\ n \in Nat /\ \A i \in 1 .. n : kinds[i] = args[i].kind
  <2>1. n \in Nat /\ DOMAIN args = 1 .. n
    OBVIOUS
  <2>2. kinds = [i \in 1 .. n |-> args[i].kind]
    BY <2>1
  <2>3. \A i \in 1 .. n : args[i].kind \in Nat
    <3>. TAKE i \in 1 .. n
    <3>1. args[i] \in LexTokens
      BY ElementOfSeq
    <3>. QED
      BY <3>1 DEF LexTokens
  <2>4. kinds \in Seq(Nat)
    BY <2>1, <2>2, <2>3, IsASeq
  <2>. QED
    BY <2>1, <2>2, <2>4
<1>6. Kind(call, k) = IF k <= a THEN Tok_str ELSE Tok_num
  BY <1>4 DEF Kind
<1>. HIDE DEF kinds, a, b, m, n, op
<1>7. ~WellFormed(op, kinds)
  <2>1. CASE op = Tok_exec
    <3>1. k <= a /\ k \in 1 .. n /\ k \in Int
      <4>1. k \in 1 .. n
        BY <1>4 DEF n
      <4>. QED
        BY <1>3, <1>4, <1>5, <2>1, <4>1
    <3>2. kinds[k] = Tok_none /\ Tok_none /= Tok_str /\ Tok_none /= Newline
      <4>1. Tok_none /= Tok_str /\ Tok_none /= Newline
        BY DEF Tok_none, Tok_str, Newline
      <4>. QED
        BY <1>4, <1>5, <1>6, <3>1, <4>1
    <3>3. CASE k = n
      <4>1. Last(kinds) = Tok_none
        BY <1>5, <3>2, <3>3 DEF Last
      <4>. QED
        BY <2>1, <3>2, <4>1 DEF WellFormed, IsExec
    <3>4. CASE k /= n
      <4>1. k \in 1 .. n - 1
        BY <1>5, <3>1, <3>4
      <4>. QED
        BY <1>5, <2>1, <3>2, <4>1 DEF WellFormed, IsExec
    <3>. QED
      BY <3>3, <3>4
  <2>2. CASE op /= Tok_exec
    <3>. DEFINE p == Pattern(op)
    <3>1. /\ p \in Seq(Nat) /\ Len(p) >= a + b
          /\ \A i \in 1 .. a : p[i] = Tok_str
          /\ \A i \in a + 1 .. a + b : p[i] = Tok_num
      <4>1. /\ p \in Seq(Nat)
            /\ Len(p) = (IF op \in {Tok_delGroup, Tok_delSpecialKey} THEN 0 ELSE 1) + a + b
            /\ \A i \in 1 .. a : p[i] = Tok_str
            /\ \A i \in a + 1 .. a + b : p[i] = Tok_num
        BY <1>3, <2>2 DEF Expects
      <4>. HIDE DEF p
      <4>2. Len(p) = 0 + a + b \/ Len(p) = 1 + a + b
        BY <4>1
      <4>3. Len(p) >= a + b
        BY <1>3, <4>2
      <4>. QED
        BY <4>1, <4>3
    <3>. HIDE DEF p
    <3>2. k \in 1 .. a + b /\ k \in 1 .. n /\ k \in 1 .. Len(p) /\ (k <= a => k \in 1 .. a)
          /\ (~(k <= a) => k \in a + 1 .. a + b)
      <4>1. k \in 1 .. n
        BY <1>4 DEF n
      <4>. QED
        BY <1>3, <1>4, <1>5, <3>1, <4>1
    <3>3. p[k] = Kind(call, k)
      BY <1>6, <3>1, <3>2
    <3>4. p[k] /= kinds[k]
      BY <1>4, <1>5, <3>2, <3>3
    <3>5. ~IsPrefix(p, kinds)
      BY <1>5, <3>1, <3>2, <3>4, PrefixElements
    <3>. QED
      BY <2>2, <3>5 DEF WellFormed, p
  <2>. QED
    BY <2>1, <2>2
<1>8. head \in LexTokens /\ head.kind = op
  <2>1. op \in Nat /\ <<op>> \in Texts
    <3>1. op \in Symbol /\ op \in Nat
      BY <1>3 DEF Symbol, Keywords
    <3>. QED
      BY <3>1, TextOne
  <2>. QED
    BY <2>1 DEF LexTokens, Token
<1>. HIDE DEF head
<1>9. CallOf[<<head>> \o args] = Malformed
  <2>1. ~WellFormed(op, [i \in DOMAIN args |-> args[i].kind])
    BY <1>7 DEF kinds
  <2>. QED
    BY <1>3, <1>8, <2>1, CallOfIs
<1>. QED
  BY <1>1, <1>9 DEF Parsed

\* The texts of the tokens of a kind that come first.
LEMMA FirstTextsAre ==
    ASSUME NEW tokens \in Seq(LexTokens), NEW kind, NEW b \in Nat, b <= Len(tokens),
           \A i \in 1 .. Len(tokens) : tokens[i].kind = kind <=> i \in 1 .. b
    PROVE  /\ TextsOf(tokens, kind) \in Seq(Texts) /\ Len(TextsOf(tokens, kind)) = b
           /\ \A i \in 1 .. b : TextsOf(tokens, kind)[i] = tokens[i].text
<1>. DEFINE z == 0
            n == Len(tokens)
<1>1. z \in Nat /\ n \in Nat /\ b <= n /\ \A i \in 1 .. n : tokens[i].kind = kind <=> i \in 1 .. b
  OBVIOUS
<1>2. z + b = b /\ \A i : i \in z + 1 .. z + b <=> i \in 1 .. b
  OBVIOUS
<1>3. \A i \in 1 .. b : z + i = i
  OBVIOUS
<1>. HIDE DEF z, n
<1>4. /\ z + b <= Len(tokens)
      /\ \A i \in 1 .. Len(tokens) : tokens[i].kind = kind <=> i \in z + 1 .. z + b
  <2>1. z + b <= n /\ \A i \in 1 .. n : tokens[i].kind = kind <=> i \in z + 1 .. z + b
    BY <1>1, <1>2
  <2>. QED
    BY <2>1 DEF n
<1>5. /\ TextsOf(tokens, kind) \in Seq(Texts) /\ Len(TextsOf(tokens, kind)) = b
      /\ \A i \in 1 .. b : TextsOf(tokens, kind)[i] = tokens[z + i].text
  BY ONLY <1>1, <1>4, TextsAre, ZenonT(60), tokens \in Seq(LexTokens), b \in Nat
<1>. QED
  BY <1>3, <1>5

\* The strings and the numbers of tokens that are read as they were written.
LEMMA ArgumentsUnderstood ==
    ASSUME NEW call, IsCall(call), NEW place, NEW args \in Seq(LexTokens),
           Len(args) >= Len(Words(call)), Len(args) <= Len(Words(call)) + 1,
           \A k \in 1 .. Len(args) : args[k] = Read(call, place, k),
           \A k \in 1 .. Len(call.numbers) : call.numbers[k] >= 0
    PROVE  Understood(call.op, args) = call
<1>. DEFINE w == Written(call)
            nums == call.numbers
            a == Len(w)
            b == Len(nums)
            n == Len(args)
<1>1. /\ a \in Nat /\ b \in Nat /\ a + b <= n /\ n <= a + b + 1 /\ Len(Words(call)) = a + b
      /\ WithOptions(call.op, w) = call.strings
  <2>. DEFINE m == Len(Words(call))
  <2>1. /\ a \in Nat /\ b \in Nat /\ m = a + b
        /\ WithOptions(call.op, w) = call.strings
    BY WrittenParts
  <2>2. n >= m /\ n <= m + 1 /\ n \in Nat
    OBVIOUS
  <2>3. a + b <= n /\ n <= a + b + 1
    <3>. HIDE DEF a, b, n, m
    <3>. QED
      BY <2>1, <2>2
  <2>. QED
    BY <2>1, <2>3
<1>2. w \in Seq(Texts) /\ w \in Seq(Bytes) /\ nums \in Seq(-IntMax - 1 .. IntMax) /\ n \in Nat
  <2>1. w \in Seq(Bytes) /\ nums \in Seq(-IntMax - 1 .. IntMax)
    BY WrittenIs
  <2>2. \A i \in 1 .. a : w[i] \in Texts
    BY <2>1, ElementOfSeq, BytesAreTexts
  <2>3. w \in Seq(Texts)
    BY <2>1, <2>2
  <2>. QED
    BY <2>1, <2>3
<1>3. ASSUME NEW k \in 1 .. a
      PROVE  k \in 1 .. n /\ args[k].kind = Tok_str /\ args[k].text = w[k]
  <2>1. k \in 1 .. n /\ k <= a
    <3>. HIDE DEF a, b, n
    <3>. QED
      BY <1>1, <1>2
  <2>2. args[k] = Token(Tok_str, w[k], place[k])
    BY <2>1 DEF Read
  <2>. QED
    BY <2>1, <2>2 DEF Token
<1>4. ASSUME NEW k \in 1 .. b
      PROVE  a + k \in 1 .. n /\ args[a + k].kind = Tok_num /\ args[a + k].text = Digits[nums[k]]
  <2>1. a + k \in 1 .. n /\ ~(a + k <= a) /\ a + k <= a + b /\ a + k - a = k
    <3>. HIDE DEF a, b, n
    <3>. QED
      BY <1>1, <1>2
  <2>2. args[a + k] = Token(Tok_num, Digits[nums[k]], place[a + k])
    <3>1. args[a + k] = Read(call, place, a + k)
      BY <2>1
    <3>. QED
      BY <1>1, <2>1, <3>1 DEF Read
  <2>. QED
    BY <2>1, <2>2 DEF Token
<1>5. ASSUME NEW k \in 1 .. n, k \notin 1 .. a, k \notin a + 1 .. a + b
      PROVE  args[k].kind = Newline
  <2>1. ~(k <= a) /\ ~(k <= a + b)
    <3>. HIDE DEF a, b, n
    <3>. QED
      BY <1>1, <1>2, <1>5
  <2>2. args[k] = Token(Newline, <<>>, place[Len(Words(call))] + 1)
    BY <1>1, <2>1 DEF Read
  <2>. QED
    BY <2>2 DEF Token
<1>. HIDE DEF w, nums, a, b, n
<1>6. Tok_str /= Tok_num /\ Tok_str /= Newline /\ Tok_num /= Newline
  BY DEF Tok_str, Tok_num, Newline
<1>7. \A k \in a + 1 .. a + b : k \in 1 .. n /\ args[k].kind = Tok_num
  <2>. TAKE k \in a + 1 .. a + b
  <2>1. k - a \in 1 .. b /\ a + (k - a) = k
    BY <1>1
  <2>. QED
    BY <1>4, <2>1
<1>8. \A k \in 1 .. n : (args[k].kind = Tok_str <=> k \in 1 .. a) /\ (args[k].kind = Tok_num <=> k \in a + 1 .. a + b)
  BY <1>3, <1>5, <1>6, <1>7
<1>. DEFINE strs == TextsOf(args, Tok_str)
            digs == TextsOf(args, Tok_num)
<1>9. strs = w
  <2>1. a \in Nat /\ a <= Len(args)
    <3>1. a <= n
      BY <1>1, <1>2
    <3>. QED
      BY <1>1, <3>1 DEF n
  <2>2. \A k \in 1 .. Len(args) : args[k].kind = Tok_str <=> k \in 1 .. a
    BY <1>8 DEF n
  <2>3. strs \in Seq(Texts) /\ Len(strs) = a /\ \A k \in 1 .. a : strs[k] = args[k].text
    BY <2>1, <2>2, FirstTextsAre
  <2>4. \A k \in 1 .. a : strs[k] = w[k]
    BY <1>3, <2>3
  <2>. HIDE DEF strs
  <2>. QED
    BY <1>2, <2>3, <2>4, SeqEqual DEF a
<1>10. digs \in Seq(Texts) /\ Len(digs) = b /\ \A k \in 1 .. b : digs[k] = Digits[nums[k]]
  <2>1. /\ a + b <= Len(args)
        /\ \A k \in 1 .. Len(args) : args[k].kind = Tok_num <=> k \in a + 1 .. a + b
    BY <1>1, <1>8 DEF n
  <2>2. digs \in Seq(Texts) /\ Len(digs) = b /\ \A k \in 1 .. b : digs[k] = args[a + k].text
    BY <1>1, <2>1, TextsAre
  <2>. QED
    BY <1>4, <2>2
<1>. HIDE DEF strs, digs
<1>11. [i \in DOMAIN digs |-> ToInt(digs[i])] = nums
  <2>1. \A k \in 1 .. b : ToInt(digs[k]) = nums[k]
    <3>. TAKE k \in 1 .. b
    <3>. DEFINE v == nums[k]
    <3>1. v \in -IntMax - 1 .. IntMax /\ IntMax \in Nat /\ v >= 0
      BY <1>2, ElementOfSeq, IntMaxAssumption DEF b, nums
    <3>2. digs[k] = Digits[v]
      BY <1>10
    <3>. HIDE DEF v
    <3>3. v \in 0 .. IntMax
      BY <3>1
    <3>4. ToInt(digs[k]) = v
      BY <3>2, <3>3, ToIntIs
    <3>. QED
      BY <3>4 DEF v
  <2>2. DOMAIN digs = 1 .. b /\ DOMAIN nums = 1 .. b
    BY <1>2, <1>10 DEF b
  <2>3. [i \in DOMAIN digs |-> ToInt(digs[i])] = [i \in 1 .. b |-> nums[i]]
    BY <2>1, <2>2
  <2>4. nums = [i \in 1 .. b |-> nums[i]]
    BY <1>2, <2>2
  <2>. QED
    BY <2>3, <2>4
<1>12. Understood(call.op, args)
          = [op |-> call.op, strings |-> call.strings, numbers |-> call.numbers]
  <2>1. Understood(call.op, args)
           = [op |-> call.op, strings |-> WithOptions(call.op, strs),
              numbers |-> [i \in DOMAIN digs |-> ToInt(digs[i])]]
    BY DEF Understood, strs, digs
  <2>2. WithOptions(call.op, strs) = call.strings
    BY <1>1, <1>9
  <2>3. [i \in DOMAIN digs |-> ToInt(digs[i])] = call.numbers
    BY <1>11 DEF nums
  <2>. QED
    BY <2>1, <2>2, <2>3
<1>13. call = [op |-> call.op, strings |-> call.strings, numbers |-> call.numbers]
  BY DEF IsCall
<1>. QED
  BY <1>12, <1>13

\* A call that can be expressed reaches the daemon as it was made, whatever its
\* strings are: with every argument, and no other call.
LEMMA CallHeard ==
    ASSUME NEW call, IsCall(call), Speakable(call)
    PROVE  Parsed(Line(call)) = call
<1>. DEFINE op == call.op
            a == Len(Written(call))
            b == Len(call.numbers)
            m == Len(Words(call))
            head == Token(op, <<op>>, 2)
<1>1. PICK place, args :
         /\ args \in Seq(LexTokens)
         /\ Tokens[Line(call)] = <<head>> \o args
         /\ (\A i \in 1 .. m : ~Slips(call, i)) => ReadFrom(call, place, args, 0)
  BY LineRead
<1>2. /\ a \in Nat /\ b \in Nat /\ m = a + b /\ op \in Keywords
      /\ op = Tok_exec => a >= 2 /\ b = 0
      /\ op /= Tok_exec => Expects(op, a, b)
  BY WrittenParts, WrittenIs
<1>. DEFINE kinds == [i \in DOMAIN args |-> args[i].kind]
            n == Len(args)
<1>3. n = m + 1 /\ \A k \in 1 .. n : args[k] = Read(call, place, k)
  <2>1. ReadFrom(call, place, args, 0)
    BY <1>1, SpeakableIs
  <2>2. n = m + 1 - 0 /\ \A k \in 1 .. m + 1 - 0 : args[k] = Read(call, place, 0 + k)
    BY <2>1 DEF ReadFrom
  <2>3. m + 1 - 0 = m + 1 /\ \A k \in 1 .. m + 1 : 0 + k = k
    BY <1>2
  <2>. QED
    BY <2>2, <2>3
<1>4. \A k \in 1 .. Len(call.numbers) : call.numbers[k] >= 0
  <2>1. DOMAIN call.numbers = 1 .. Len(call.numbers)
    BY WrittenIs
  <2>. QED
    BY <2>1 DEF Speakable
<1>5. kinds \in Seq(Nat) /\ Len(kinds) = n /\ n \in Nat /\ \A i \in 1 .. n : kinds[i] = args[i].kind
  <2>1. n \in Nat /\ DOMAIN args = 1 .. n
    BY <1>1
  <2>2. kinds = [i \in 1 .. n |-> args[i].kind]
    BY <2>1
  <2>3. \A i \in 1 .. n : args[i].kind \in Nat
    <3>. TAKE i \in 1 .. n
    <3>1. args[i] \in LexTokens
      BY <1>1, ElementOfSeq
    <3>. QED
      BY <3>1 DEF LexTokens
  <2>4. kinds \in Seq(Nat)
    BY <2>1, <2>2, <2>3, IsASeq
  <2>. QED
    BY <2>1, <2>2, <2>4
<1>6. ASSUME NEW k \in 1 .. n
      PROVE  kinds[k] = Kind(call, k)
  <2>1. kinds[k] = Read(call, place, k).kind
    BY <1>3, <1>5
  <2>. QED
    BY <2>1 DEF Read, Kind, Token
<1>7. ASSUME NEW k \in 1 .. n
      PROVE  Kind(call, k) = IF k <= a THEN Tok_str ELSE IF k <= m THEN Tok_num ELSE Newline
  BY DEF Kind
<1>. HIDE DEF kinds, a, b, m, n, op
<1>8. WellFormed(op, kinds)
  <2>1. CASE op = Tok_exec
    <3>1. Len(kinds) >= 3 /\ n \in 1 .. n /\ ~(n <= a) /\ ~(n <= m)
      BY <1>2, <1>3, <1>5, <2>1
    <3>2. Last(kinds) = Newline
      BY <1>5, <1>6, <1>7, <3>1 DEF Last
    <3>3. \A i \in 1 .. Len(kinds) - 1 : kinds[i] = Tok_str
      <4>. TAKE i \in 1 .. Len(kinds) - 1
      <4>1. i \in 1 .. n /\ i <= a
        BY <1>2, <1>3, <1>5, <2>1
      <4>. QED
        BY <1>6, <1>7, <4>1
    <3>. QED
      BY <2>1, <3>1, <3>2, <3>3 DEF WellFormed, IsExec
  <2>2. CASE op /= Tok_exec
    <3>. DEFINE p == Pattern(op)
                l == Len(p)
    <3>1. /\ p \in Seq(Nat)
          /\ l = (IF op \in {Tok_delGroup, Tok_delSpecialKey} THEN 0 ELSE 1) + a + b
          /\ \A k \in 1 .. a : p[k] = Tok_str
          /\ \A k \in a + 1 .. a + b : p[k] = Tok_num
          /\ op \notin {Tok_delGroup, Tok_delSpecialKey} => p[a + b + 1] = Newline
      BY <1>2, <2>2 DEF Expects
    <3>. HIDE DEF p, l
    <3>2. l <= n
      <4>1. l = 0 + a + b \/ l = 1 + a + b
        BY <3>1
      <4>. QED
        BY <1>2, <1>3, <4>1
    <3>5. l \in Nat
      BY <1>2, <3>1
    <3>3. ASSUME NEW k \in 1 .. l
          PROVE  p[k] = kinds[k]
      <4>1. k \in 1 .. n
        BY <1>5, <3>2, <3>5
      <4>2. kinds[k] = IF k <= a THEN Tok_str ELSE IF k <= m THEN Tok_num ELSE Newline
        BY <1>6, <1>7, <4>1
      <4>3. CASE k <= a
        <5>1. k \in 1 .. a
          BY <1>2, <4>3
        <5>. QED
          BY <3>1, <4>2, <4>3, <5>1
      <4>4. CASE ~(k <= a) /\ k <= m
        <5>1. k \in a + 1 .. a + b
          BY <1>2, <4>4
        <5>. QED
          BY <3>1, <4>2, <4>4, <5>1
      <4>5. CASE ~(k <= a) /\ ~(k <= m)
        <5>1. op \notin {Tok_delGroup, Tok_delSpecialKey} /\ k = a + b + 1
          <6>1. CASE op \in {Tok_delGroup, Tok_delSpecialKey}
            <7>1. l = 0 + a + b
              BY <3>1, <6>1
            <7>. QED
              BY <1>2, <4>5, <7>1
          <6>2. CASE op \notin {Tok_delGroup, Tok_delSpecialKey}
            <7>1. l = 1 + a + b
              BY <3>1, <6>2
            <7>. QED
              BY <1>2, <4>5, <6>2, <7>1
          <6>. QED
            BY <6>1, <6>2
        <5>. QED
          BY <3>1, <4>2, <4>5, <5>1
      <4>. QED
        BY <4>3, <4>4, <4>5
    <3>4. IsPrefix(p, kinds)
      BY <1>5, <3>1, <3>2, <3>3, PrefixElements DEF l
    <3>. QED
      BY <2>2, <3>4 DEF WellFormed, p
  <2>. QED
    BY <2>1, <2>2
<1>9. head \in LexTokens /\ head.kind = op
  <2>1. op \in Nat /\ <<op>> \in Texts
    <3>1. op \in Symbol /\ op \in Nat
      BY <1>2 DEF Symbol, Keywords
    <3>. QED
      BY <3>1, TextOne
  <2>. QED
    BY <2>1 DEF LexTokens, Token
<1>. HIDE DEF head
<1>10. CallOf[<<head>> \o args] = IF op \in {Tok_delGroup, Tok_delSpecialKey}
                                  THEN Understood(op, <<args[1]>>) ELSE Understood(op, args)
  <2>1. WellFormed(op, [i \in DOMAIN args |-> args[i].kind])
    BY <1>8 DEF kinds
  <2>. QED
    BY <1>1, <1>2, <1>9, <2>1, CallOfIs
<1>11. CASE op \in {Tok_delGroup, Tok_delSpecialKey}
  <2>. DEFINE t == args[1]
              one == <<t>>
  <2>1. m = 1
    <3>1. Arity(op) = <<1, 0>>
      BY <1>11 DEF Arity, Tok_delGroup, Tok_delSpecialKey, Tok_pass, Tok_set, Tok_delCmd, Tok_prio,
                   Tok_sched, Tok_ping, Tok_exit, Tok_stop
    <3>2. op /= Tok_exec
      BY <1>11 DEF Tok_exec, Tok_delGroup, Tok_delSpecialKey
    <3>3. <<Len(call.strings), Len(call.numbers)>> = <<1, 0>> /\ Written(call) = call.strings
      BY <3>1, <3>2 DEF IsCall, Written, op
    <3>4. a = 1 /\ b = 0
      BY <3>3 DEF a, b
    <3>. QED
      BY <1>2, <3>4
  <2>2. 1 \in 1 .. n /\ t \in LexTokens /\ t = Read(call, place, 1)
    <3>1. 1 \in 1 .. n
      BY <1>3, <2>1
    <3>. QED
      BY <1>1, <1>3, <3>1, ElementOfSeq DEF n
  <2>. HIDE DEF t
  <2>3. /\ one \in Seq(LexTokens) /\ Len(one) = 1 /\ one[1] = t
    BY <2>2
  <2>. HIDE DEF one
  <2>4. \A k \in 1 .. Len(one) : one[k] = Read(call, place, k)
    <3>1. \A k \in 1 .. Len(one) : k = 1
      BY <2>3
    <3>. QED
      BY <2>2, <2>3, <3>1
  <2>5. Len(one) >= Len(Words(call)) /\ Len(one) <= Len(Words(call)) + 1
    BY <2>1, <2>3 DEF m
  <2>6. Understood(op, one) = call
    BY <1>4, <2>3, <2>4, <2>5, ArgumentsUnderstood DEF op
  <2>. QED
    BY <1>1, <1>10, <1>11, <2>6 DEF Parsed, one, t
<1>12. CASE op \notin {Tok_delGroup, Tok_delSpecialKey}
  <2>1. Len(args) >= Len(Words(call)) /\ Len(args) <= Len(Words(call)) + 1
    <3>1. n >= m /\ n <= m + 1
      BY <1>2, <1>3
    <3>. QED
      BY <3>1 DEF n, m
  <2>2. Understood(op, args) = call
    BY <1>1, <1>3, <1>4, <2>1, ArgumentsUnderstood DEF op, n
  <2>. QED
    BY <1>1, <1>10, <1>12, <2>2 DEF Parsed
<1>. QED
  BY <1>11, <1>12

-----------------------------------------------------------------------------
(* A call is one line.                                                       *)

\* Texts without a newline.
Plain == Seq(Symbol \ {Newline})

\* Texts without a newline can be joined.
LEMMA PlainIs ==
    /\ <<>> \in Plain
    /\ \A c \in Symbol \ {Newline} : <<c>> \in Plain
    /\ \A a, b \in Plain : a \o b \in Plain
    /\ \A a \in Plain : a \in Texts
BY ConcatProperties DEF Plain, Texts, Symbol

\* And so can any number of them.
LEMMA FlattenOver ==
    ASSUME NEW A, NEW texts \in Seq(Seq(A))
    PROVE  FlattenSeq(texts) \in Seq(A)
<1>1. PICK joined : IsFlattened(joined, texts, A)
  BY FlattenUnfolds
<1>2. Len(texts) \in 0 .. Len(texts)
  OBVIOUS
<1>. QED
  BY <1>1, <1>2 DEF IsFlattened

\* escape() writes a newline with other characters.
LEMMA EscapedPlain ==
    ASSUME NEW c \in 0 .. 255
    PROVE  Escaped(c) \in Plain
<1>1. CASE c < 32
  <2>1. Escaped(c) = <<Backslash, Caret, c + At>>
    BY <1>1, EscapedIs
  <2>2. {Backslash, Caret, c + At} \subseteq Symbol \ {Newline}
    BY <1>1 DEF Backslash, Caret, At, Symbol, Newline
  <2>. QED
    BY <2>1, <2>2 DEF Plain
<1>2. CASE ~(c < 32) /\ c \in {Backslash, Quote}
  <2>1. Escaped(c) = <<Backslash, c>>
    BY <1>2, EscapedIs
  <2>2. {Backslash, c} \subseteq Symbol \ {Newline}
    BY <1>2 DEF Backslash, Symbol, Newline
  <2>. QED
    BY <2>1, <2>2 DEF Plain
<1>3. CASE ~(c < 32) /\ c \notin {Backslash, Quote}
  <2>1. Escaped(c) = <<c>>
    BY <1>3, EscapedIs
  <2>2. c \in Symbol \ {Newline}
    BY <1>3 DEF Symbol, Newline
  <2>. QED
    BY <2>1, <2>2, PlainIs
<1>. QED
  BY <1>1, <1>2, <1>3

\* So a string has no newline in a line; nor is it shorter there.
LEMMA EscapePlain ==
    ASSUME NEW text \in Bytes
    PROVE  Escape(text) \in Plain /\ Len(Escape(text)) >= Len(text) + 2
<1>. DEFINE parts == EscapedChars(text)
            n == Len(text)
            F == FlattenSeq(parts)
            q == <<Quote>>
<1>1. parts \in Seq(Plain) /\ Len(parts) = n /\ n \in Nat /\ \A i \in 1 .. n : Len(parts[i]) >= 1
  <2>1. /\ parts \in Seq(Texts) /\ Len(parts) = n
        /\ \A i \in 1 .. n : parts[i] = Escaped(text[i]) /\ text[i] \in 0 .. 255
    BY EscapedCharsAre
  <2>. HIDE DEF parts
  <2>2. \A i \in 1 .. n : parts[i] \in Plain
    BY <2>1, EscapedPlain
  <2>3. parts \in Seq(Plain)
    BY <2>1, <2>2
  <2>4. \A i \in 1 .. n : Len(Escaped(text[i])) \in {1, 2, 3}
    BY <2>1, EscapedText
  <2>5. \A i \in 1 .. n : Len(parts[i]) >= 1
    <3>. TAKE i \in 1 .. n
    <3>1. parts[i] = Escaped(text[i])
      BY <2>1
    <3>2. Len(Escaped(text[i])) \in {1, 2, 3}
      BY <2>4
    <3>. DEFINE l == Len(parts[i])
    <3>3. l \in {1, 2, 3}
      BY <3>1, <3>2
    <3>. HIDE DEF l
    <3>4. l >= 1
      BY <3>3
    <3>. QED
      BY <3>4 DEF l
  <2>6. n \in Nat
    BY DEF Bytes
  <2>. QED
    BY <2>1, <2>3, <2>5, <2>6
<1>2. Escape(text) = q \o F \o q
  BY DEF Escape, EscapedChars
<1>. HIDE DEF parts
<1>3. PICK joined : IsFlattened(joined, parts, Symbol \ {Newline})
  BY <1>1, FlattenUnfolds DEF Plain
<1>4. F \in Plain
  BY <1>1, FlattenOver DEF Plain
<1>5. Len(F) >= n /\ Len(F) \in Nat
  <2>. DEFINE T == {i \in 0 .. n : Len(joined[i]) >= i /\ Len(joined[i]) \in Nat}
  <2>1. 0 \in T
    BY <1>1, <1>3 DEF IsFlattened
  <2>2. ASSUME NEW i \in 1 .. n, i - 1 \in T
        PROVE  i \in T
    <3>. DEFINE x == joined[i - 1]
                y == parts[i]
                a == Len(x)
                b == Len(y)
    <3>1. joined[i] = x \o y /\ x \in Plain
      <4>1. i \in 1 .. Len(parts) /\ i - 1 \in 0 .. Len(parts)
        BY <1>1
      <4>2. /\ joined \in [0 .. Len(parts) -> Plain]
            /\ joined[i] = joined[i - 1] \o parts[i]
        BY <1>3, <4>1 DEF IsFlattened, Plain
      <4>. QED
        BY <4>1, <4>2
    <3>2. y \in Plain /\ b >= 1
      BY <1>1, ElementOfSeq
    <3>3. Len(x \o y) = a + b /\ a \in Nat /\ b \in Nat
      <4>. HIDE DEF x, y
      <4>. QED
        BY <3>1, <3>2, ConcatProperties DEF Plain
    <3>4. a >= i - 1
      BY <2>2
    <3>. HIDE DEF x, y, a, b
    <3>. QED
      BY <1>1, <3>1, <3>2, <3>3, <3>4
  <2>. HIDE DEF T
  <2>3. n \in T
    <3>1. 0 .. n \subseteq T
      BY <1>1, <2>1, <2>2, Upward
    <3>. QED
      BY <1>1, <3>1
  <2>. QED
    BY <1>1, <1>3, <2>3 DEF T, IsFlattened
<1>6. q \in Plain /\ Len(q) = 1
  BY PlainIs DEF Quote, Newline, Symbol
<1>. HIDE DEF F, q
<1>7. q \o F \in Plain /\ Len(q \o F) = 1 + Len(F)
  BY <1>4, <1>6, ConcatProperties DEF Plain
<1>8. (q \o F) \o q \in Plain /\ Len((q \o F) \o q) = 1 + Len(F) + 1
  BY <1>6, <1>7, ConcatProperties DEF Plain
<1>. QED
  BY <1>1, <1>2, <1>5, <1>8

\* Digits are bytes.
LEMMA DecimalPlain ==
    ASSUME NEW n \in -IntMax - 1 .. IntMax
    PROVE  Decimal(n) \in Plain /\ Decimal(n) \in Bytes /\ Len(Decimal(n)) >= 1
<1>1. IntMax \in Nat
  BY IntMaxAssumption
<1>2. ASSUME NEW m \in 0 .. IntMax + 1
      PROVE  Digits[m] \in Seq(45 .. 57) /\ Digits[m] /= <<>>
  <2>1. AreDigits(Digits[m])
    BY DigitsCount
  <2>. DEFINE d == Digits[m]
  <2>2. d \in Texts /\ d /= <<>> /\ \A k \in 1 .. Len(d) : IsDigit(d[k])
    BY <2>1 DEF AreDigits
  <2>. HIDE DEF d
  <2>3. \A k \in 1 .. Len(d) : d[k] \in 45 .. 57
    BY <2>2 DEF IsDigit, Zero
  <2>4. d \in Seq(45 .. 57)
    BY <2>2, <2>3 DEF Texts
  <2>. QED
    BY <2>2, <2>4 DEF d
<1>3. Decimal(n) \in Seq(45 .. 57) /\ Decimal(n) /= <<>>
  <2>1. CASE n < 0
    <3>1. Decimal(n) = <<Minus>> \o Digits[-n] /\ -n \in 0 .. IntMax + 1
      BY <1>1, <2>1 DEF Decimal
    <3>2. <<Minus>> \in Seq(45 .. 57) /\ Len(<<Minus>>) = 1
      BY DEF Minus
    <3>. QED
      BY <1>2, <3>1, <3>2, ConcatProperties
  <2>2. CASE ~(n < 0)
    BY <1>1, <1>2, <2>2 DEF Decimal
  <2>. QED
    BY <2>1, <2>2
<1>4. 45 .. 57 \subseteq Symbol \ {Newline} /\ 45 .. 57 \subseteq 0 .. 255
  BY DEF Symbol, Newline
<1>. HIDE DEF Decimal
<1>. QED
  BY <1>3, <1>4 DEF Plain, Bytes

\* No word of a call has a newline.
LEMMA WordsPlain ==
    ASSUME NEW call, IsCall(call)
    PROVE  Words(call) \in Seq(Plain)
<1>. DEFINE a == Len(Written(call))
            b == Len(call.numbers)
            w == Words(call)
<1>1. /\ w \in Seq(Texts) /\ a \in Nat /\ b \in Nat /\ Len(w) = a + b
      /\ \A i \in 1 .. a : w[i] = Escape(Written(call)[i])
      /\ \A i \in 1 .. b : w[a + i] = Decimal(call.numbers[i])
  BY WordsAre
<1>2. /\ \A i \in 1 .. a : Written(call)[i] \in Bytes
      /\ \A i \in 1 .. b : call.numbers[i] \in -IntMax - 1 .. IntMax
  BY WrittenIs, ElementOfSeq
<1>. HIDE DEF a, b, w
<1>3. ASSUME NEW i \in 1 .. Len(w)
      PROVE  w[i] \in Plain
  <2>1. CASE i <= a
    <3>1. i \in 1 .. a
      BY <1>1, <2>1
    <3>. QED
      BY <1>1, <1>2, <3>1, EscapePlain
  <2>2. CASE ~(i <= a)
    <3>1. i - a \in 1 .. b /\ a + (i - a) = i
      BY <1>1, <2>2
    <3>. QED
      BY <1>1, <1>2, <3>1, DecimalPlain
  <2>. QED
    BY <2>1, <2>2
<1>4. w \in Seq(Plain)
  BY <1>1, <1>3
<1>. QED
  BY <1>4 DEF w

\* A plain text and a newline are a line.
LEMMA PlainLine ==
    ASSUME NEW text \in Plain
    PROVE  IsLine(text \o <<Newline>>)
<1>. DEFINE line == text \o <<Newline>>
            n == Len(text)
<1>1. <<Newline>> \in Seq(Symbol) /\ Len(<<Newline>>) = 1 /\ <<Newline>>[1] = Newline /\ text \in Seq(Symbol)
  BY PlainIs DEF Symbol, Newline, Texts
<1>2. line \in Seq(Symbol) /\ n \in Nat /\ Len(line) = n + 1 /\ line[n + 1] = Newline
      /\ \A i \in 1 .. n : line[i] = text[i]
  <2>1. /\ line \in Seq(Symbol) /\ n \in Nat /\ Len(line) = n + 1
        /\ \A i \in 1 .. n : line[i] = text[i]
        /\ \A i \in 1 .. 1 : line[n + i] = <<Newline>>[i]
    BY <1>1, JoinParts
  <2>2. 1 \in 1 .. 1
    OBVIOUS
  <2>. QED
    BY <1>1, <2>1, <2>2
<1>3. \A i \in 1 .. n : text[i] /= Newline
  BY ElementOfSeq DEF Plain
<1>. HIDE DEF line, n
<1>4. IndexOf(line, Newline) = n + 1
  <2>1. n + 1 \in 1 .. Len(line) /\ \A i \in 1 .. n + 1 - 1 : line[i] /= Newline
    BY <1>2, <1>3
  <2>. QED
    BY <1>2, <2>1, FirstPlaceIs
<1>5. line /= <<>>
  BY <1>2
<1>. QED
  BY <1>2, <1>4, <1>5 DEF IsLine, line, Texts, Symbol

\* Whatever its strings are, a call is one line.
LEMMA CallIsLine ==
    ASSUME NEW call, IsCall(call)
    PROVE  IsLine(Line(call))
<1>. DEFINE words == Words(call)
            parts == [i \in DOMAIN words |-> Spaced(words[i])]
            F == FlattenSeq(parts)
            head == <<call.op>>
<1>1. words \in Seq(Plain) /\ DOMAIN words = 1 .. Len(words) /\ Len(words) \in Nat
  BY WordsPlain
<1>2. Line(call) = head \o F \o <<Newline>>
  BY DEF Line, Words, Spaced
<1>3. head \in Plain /\ <<Space>> \in Plain
  <2>1. Space \in Symbol \ {Newline} /\ call.op \in Symbol \ {Newline}
    BY WrittenIs DEF Symbol, Space, Newline, Keywords
  <2>. QED
    BY <2>1, PlainIs
<1>. HIDE DEF words, head
<1>4. parts \in Seq(Plain)
  <2>1. \A i \in 1 .. Len(words) : Spaced(words[i]) \in Plain
    BY <1>1, <1>3, ElementOfSeq, PlainIs DEF Spaced
  <2>2. parts = [i \in 1 .. Len(words) |-> Spaced(words[i])]
    BY <1>1
  <2>. QED
    BY <1>1, <2>1, <2>2, IsASeq
<1>. HIDE DEF parts
<1>5. F \in Plain
  BY <1>4, FlattenOver DEF Plain
<1>. HIDE DEF F
<1>6. head \o F \in Plain
  BY <1>3, <1>5, PlainIs
<1>. QED
  BY <1>2, <1>6, PlainLine

-----------------------------------------------------------------------------
(* The calls in a stream of bytes.                                           *)

ParsedLines == {Parsed(line) : line \in Texts}

NextCalls(f, bytes) ==
    LET end == IndexOf(bytes, Newline)
    IN  IF end = 0 THEN <<>>
        ELSE <<Parsed(FirstOf(bytes, end))>> \o f[After(bytes, end)]

\* A text that is cut in two.
LEMMA TextCut ==
    ASSUME NEW s \in Texts, NEW n \in 0 .. Len(s)
    PROVE  /\ FirstOf(s, n) \in Texts /\ After(s, n) \in Texts
           /\ Len(s) \in Nat /\ Len(FirstOf(s, n)) = n /\ Len(After(s, n)) = Len(s) - n
           /\ \A i \in 1 .. Len(s) - n : After(s, n)[i] = s[n + i]
           /\ FirstOf(s, n) \o After(s, n) = s
<1>1. s \in Seq(0 .. 315)
  BY DEF Texts
<1>2. /\ FirstOf(s, n) \in Seq(0 .. 315) /\ After(s, n) \in Seq(0 .. 315)
      /\ Len(FirstOf(s, n)) = n /\ Len(After(s, n)) = Len(s) - n
      /\ \A i \in 1 .. Len(s) - n : After(s, n)[i] = s[n + i]
  BY <1>1, CutParts
<1>3. FirstOf(s, n) \o After(s, n) = s
  BY <1>1, CutJoins
<1>. QED
  BY <1>1, <1>2, <1>3 DEF Texts

\* Texts may be joined in any order.
LEMMA TextJoins ==
    ASSUME NEW a \in Texts, NEW b \in Texts, NEW c \in Texts
    PROVE  (a \o b) \o c = a \o (b \o c)
BY ConcatAssociative DEF Texts

\* A line that is cut off.
LEMMA CutLine ==
    ASSUME NEW bytes \in Texts, NEW end, end = IndexOf(bytes, Newline), end /= 0
    PROVE  /\ end \in 1 .. Len(bytes) /\ Len(bytes) \in Nat
           /\ FirstOf(bytes, end) \in Texts /\ After(bytes, end) \in Texts
           /\ Len(After(bytes, end)) \in Nat /\ Len(After(bytes, end)) < Len(bytes)
           /\ FirstOf(bytes, end) \o After(bytes, end) = bytes
           /\ Parsed(FirstOf(bytes, end)) \in ParsedLines
<1>. DEFINE n == Len(bytes)
            r == After(bytes, end)
<1>1. n \in Nat /\ end \in 1 .. n
  BY FirstPlace DEF Texts
<1>2. FirstOf(bytes, end) \in Texts /\ r \in Texts /\ Len(r) = n - end
  <2>1. end \in 0 .. Len(bytes)
    BY <1>1
  <2>. QED
    BY <2>1, TextCut
<1>3. FirstOf(bytes, end) \o r = bytes
  <2>1. end \in 0 .. Len(bytes)
    BY <1>1
  <2>. QED
    BY <2>1, TextCut
<1>4. Parsed(FirstOf(bytes, end)) \in ParsedLines
  BY <1>2 DEF ParsedLines
<1>5. n - end \in Nat /\ n - end < n
  <2>. HIDE DEF n
  <2>. QED
    BY <1>1
<1>. QED
  BY <1>1, <1>2, <1>3, <1>4, <1>5

\* The calls in a stream are those of its lines, one after the other.
LEMMA CallsUnfold ==
    /\ CallsIn \in [Texts -> Seq(ParsedLines)]
    /\ \A bytes \in Texts : CallsIn[bytes] = NextCalls(CallsIn, bytes)
<1>. DEFINE S == Texts
            V == Seq(ParsedLines)
            step == [p \in [S -> V] \X S |-> NextCalls(p[1], p[2])]
            size == [s \in S |-> Len(s)]
            B(g) == [s \in S |-> NextCalls(g, s)]
<1>1. ASSUME NEW g \in [S -> V], NEW s \in S
      PROVE  NextCalls(g, s) \in V
  <2>. DEFINE end == IndexOf(s, Newline)
              one == Parsed(FirstOf(s, end))
              rest == g[After(s, end)]
  <2>1. CASE end = 0
    BY <2>1 DEF NextCalls
  <2>2. CASE end /= 0
    <3>1. NextCalls(g, s) = <<one>> \o rest
      BY <2>2 DEF NextCalls
    <3>2. one \in ParsedLines /\ rest \in V
      BY <2>2, CutLine
    <3>. HIDE DEF one, rest
    <3>. QED
      BY <3>1, <3>2, OneMore
  <2>. QED
    BY <2>1, <2>2
<1>2. step \in [[S -> V] \X S -> V]
  <2>. HIDE DEF S, V
  <2>. QED
    BY <1>1
<1>3. Decides(step, S, V, size)
  <2>1. ASSUME NEW s \in S, NEW g \in [S -> V], NEW h \in [S -> V],
               \A r \in S : size[r] < size[s] => g[r] = h[r]
        PROVE  step[<<g, s>>] = step[<<h, s>>]
    <3>. DEFINE end == IndexOf(s, Newline)
                r == After(s, end)
    <3>1. end /= 0 => g[r] = h[r]
      <4>1. end /= 0 => r \in S /\ Len(r) < Len(s)
        BY CutLine
      <4>2. end /= 0 => r \in S /\ size[r] < size[s]
        <5>. HIDE DEF r
        <5>. QED
          BY <4>1
      <4>. HIDE DEF r, size
      <4>. QED
        BY <2>1, <4>2
    <3>2. NextCalls(g, s) = NextCalls(h, s)
      BY <3>1 DEF NextCalls
    <3>3. step[<<g, s>>] = NextCalls(g, s) /\ step[<<h, s>>] = NextCalls(h, s)
      <4>. HIDE DEF S, V
      <4>. QED
        OBVIOUS
    <3>. QED
      BY <3>2, <3>3
  <2>. HIDE DEF step, S, V, size
  <2>. QED
    BY <2>1 DEF Decides
<1>4. PICK g \in [S -> V] : g = B(g)
  <2>1. size \in [S -> Nat]
    BY DEF Texts
  <2>2. V /= {}
    BY EmptySeq
  <2>. HIDE DEF step, S, V, size
  <2>3. PICK g \in [S -> V] : Unfolds(g, step, S)
    BY <1>2, <1>3, <2>1, <2>2, Recursion
  <2>4. \A s \in S : g[s] = step[<<g, s>>]
    BY <2>3 DEF Unfolds
  <2>5. \A s \in S : g[s] = NextCalls(g, s)
    BY <2>4 DEF step
  <2>6. g = B(g)
    BY <2>5
  <2>. QED
    BY <2>6
<1>5. CallsIn = CHOOSE f : f = B(f)
  BY DEF CallsIn, NextCalls
<1>6. CallsIn = B(CallsIn)
  <2>. HIDE DEF B
  <2>. QED
    BY <1>4, <1>5
<1>7. \A s \in S : CallsIn[s] = NextCalls(CallsIn, s)
  <2>. HIDE DEF S
  <2>. QED
    BY <1>6
<1>8. DOMAIN CallsIn = S /\ CallsIn = [s \in S |-> CallsIn[s]]
  <2>. HIDE DEF S
  <2>. QED
    BY <1>6
<1>9. \A s \in S : CallsIn[s] \in V
  <2>. DEFINE T == {s \in S : CallsIn[s] \in V}
  <2>1. ASSUME NEW s \in S, \A r \in S : size[r] < size[s] => r \in T
        PROVE  s \in T
    <3>. DEFINE end == IndexOf(s, Newline)
                r == After(s, end)
                one == Parsed(FirstOf(s, end))
    <3>1. CASE end = 0
      <4>1. CallsIn[s] = <<>>
        BY <1>7, <3>1 DEF NextCalls
      <4>2. CallsIn[s] \in V
        BY <4>1, EmptySeq
      <4>. QED
        BY <4>2
    <3>2. CASE end /= 0
      <4>1. CallsIn[s] = <<one>> \o CallsIn[r]
        BY <1>7, <3>2 DEF NextCalls
      <4>2. r \in S /\ Len(r) < Len(s) /\ one \in ParsedLines
        BY <3>2, CutLine
      <4>3. r \in S /\ size[r] < size[s]
        <5>. HIDE DEF r
        <5>. QED
          BY <4>2
      <4>4. r \in T
        <5>. HIDE DEF r, size, T
        <5>. QED
          BY <2>1, <4>3
      <4>5. CallsIn[r] \in V
        BY <4>4
      <4>. DEFINE rest == CallsIn[r]
      <4>6. <<one>> \o rest \in V
        <5>1. one \in ParsedLines /\ rest \in Seq(ParsedLines)
          BY <4>2, <4>5
        <5>. HIDE DEF one, rest
        <5>. QED
          BY <5>1, OneMore
      <4>7. CallsIn[s] \in V
        BY <4>1, <4>6
      <4>. QED
        BY <4>7
    <3>. QED
      BY <3>1, <3>2
  <2>2. size \in [S -> Nat]
    BY DEF Texts
  <2>. HIDE DEF T, size, S
  <2>3. S \subseteq T
    BY <2>1, <2>2, Induction DEF Hereditary
  <2>. QED
    BY <2>3 DEF T
<1>. QED
  BY <1>7, <1>8, <1>9

\* Whole lines.
Whole(bytes) == bytes \in Texts /\ (bytes /= <<>> => bytes[Len(bytes)] = Newline)

\* Nothing has come.
LEMMA CallsOfNothing == CallsIn[<<>>] = <<>> /\ Whole(<<>>)
<1>1. <<>> \in Texts
  BY TextOne
<1>2. IndexOf(<<>>, Newline) = 0
  <2>1. <<>> \in Seq(Symbol) /\ Len(<<>>) = 0
    OBVIOUS
  <2>2. IndexOf(<<>>, Newline) \in 0 .. Len(<<>>)
    BY <2>1, FirstPlace
  <2>. QED
    BY <2>1, <2>2
<1>. QED
  BY <1>1, <1>2, CallsUnfold DEF NextCalls, Whole

\* A line that comes after whole lines is a call after theirs.
LEMMA OneMoreCall ==
    ASSUME NEW bytes, Whole(bytes), NEW line, IsLine(line)
    PROVE  /\ CallsIn[bytes \o line] = Append(CallsIn[bytes], Parsed(line))
           /\ Whole(bytes \o line)
<1>. DEFINE S == {b \in Texts : Whole(b)}
            size == [b \in S |-> Len(b)]
            T == {b \in S : CallsIn[b \o line] = Append(CallsIn[b], Parsed(line))}
<1>1. line \in Texts /\ line /= <<>> /\ Len(line) \in Nat /\ IndexOf(line, Newline) = Len(line)
  BY DEF IsLine, Texts
<1>. DEFINE m == Len(line)
<1>2. m \in Nat \ {0} /\ line[m] = Newline /\ \A i \in 1 .. m - 1 : line[i] /= Newline
  <2>1. m \in Nat \ {0}
    BY <1>1 DEF Texts
  <2>. QED
    BY <1>1, <2>1, FirstPlace DEF Texts
<1>3. ASSUME NEW b \in S, \A r \in S : size[r] < size[b] => r \in T
      PROVE  b \in T
  <2>1. CASE b = <<>>
    <3>1. b \o line = line
      BY <1>1, <2>1, ConcatEmptySeq DEF Texts
    <3>2. FirstOf(line, m) = line /\ After(line, m) = <<>>
      <4>1. line \o <<>> = line
        BY <1>1, ConcatEmptySeq DEF Texts
      <4>2. FirstOf(line \o <<>>, Len(line)) = line /\ After(line \o <<>>, Len(line)) = <<>>
        <5>1. <<>> \in Seq(0 .. 315) /\ line \in Seq(0 .. 315)
          BY <1>1 DEF Texts
        <5>. QED
          BY <5>1, CutIs
      <4>. QED
        BY <4>1, <4>2
    <3>3. CallsIn[line] = <<Parsed(line)>> \o <<>>
      BY <1>1, <1>2, <3>2, CallsUnfold, CallsOfNothing DEF NextCalls
    <3>. DEFINE one == Parsed(line)
    <3>4. one \in ParsedLines
      BY <1>1 DEF ParsedLines
    <3>5. <<one>> \o <<>> = <<one>> /\ Append(<<>>, one) = <<one>>
      <4>. HIDE DEF one
      <4>. QED
        BY <3>4, ConcatEmptySeq
    <3>6. CallsIn[b \o line] = Append(CallsIn[b], one)
      BY <2>1, <3>1, <3>3, <3>5, CallsOfNothing
    <3>. QED
      BY <3>6
  <2>2. CASE b /= <<>>
    <3>. DEFINE end == IndexOf(b, Newline)
                r == After(b, end)
                f == FirstOf(b, end)
                one == Parsed(f)
                more == Parsed(line)
    <3>1. end /= 0
      <4>1. Len(b) \in 1 .. Len(b) /\ b[Len(b)] = Newline
        BY <2>2 DEF Whole, Texts
      <4>. QED
        BY <4>1, FirstPlace DEF Texts
    <3>2. /\ end \in 1 .. Len(b) /\ f \in Texts /\ r \in Texts /\ f \o r = b
          /\ Len(r) < Len(b) /\ one \in ParsedLines /\ Len(r) \in Nat
      BY <3>1, CutLine
    <3>3. Whole(r)
      <4>1. ASSUME r /= <<>>
            PROVE  r[Len(r)] = Newline
        <5>. DEFINE n == Len(b)
                    l == Len(r)
        <5>1. /\ l = n - end /\ n \in Nat /\ \A i \in 1 .. n - end : r[i] = b[end + i]
          <6>1. end \in 0 .. Len(b)
            BY <3>2
          <6>. QED
            BY <6>1, TextCut
        <5>2. l > 0
          BY <3>2, <4>1 DEF Texts
        <5>3. n - end \in 1 .. n - end /\ end + (n - end) = n /\ l = n - end
          <6>. HIDE DEF n, l, end
          <6>. QED
            BY <3>2, <5>1, <5>2
        <5>4. r[n - end] = b[n]
          BY <5>1, <5>3
        <5>. QED
          BY <2>2, <5>3, <5>4 DEF Whole
      <4>. QED
        BY <3>2, <4>1 DEF Whole
    <3>4. r \in T
      <4>1. r \in S /\ Len(r) < Len(b)
        BY <3>2, <3>3
      <4>2. r \in S /\ size[r] < size[b]
        <5>. HIDE DEF r
        <5>. QED
          BY <4>1
      <4>. HIDE DEF r, size, S, T
      <4>. QED
        BY <1>3, <4>2
    <3>5. /\ b \o line \in Texts /\ IndexOf(b \o line, Newline) = end
          /\ FirstOf(b \o line, end) = f /\ After(b \o line, end) = r \o line
      <4>. DEFINE t == b \o line
      <4>1. /\ t \in Texts /\ Len(b) \in Nat /\ Len(t) = Len(b) + m
            /\ \A i \in 1 .. Len(b) : t[i] = b[i]
        BY <1>1, TextParts
      <4>2. /\ b[end] = Newline /\ \A i \in 1 .. end - 1 : b[i] /= Newline
        BY <3>1, FirstPlace DEF Texts
      <4>3. t = f \o (r \o line)
        <5>1. f \in Texts /\ r \in Texts /\ line \in Texts /\ f \o r = b
          BY <1>1, <3>2
        <5>2. (f \o r) \o line = f \o (r \o line)
          BY <5>1, TextJoins
        <5>. QED
          BY <5>1, <5>2
      <4>4. Len(f) = end
        <5>1. end \in 0 .. Len(b)
          BY <3>2
        <5>. QED
          BY <5>1, TextCut
      <4>. HIDE DEF f, r, end, t, m
      <4>5. IndexOf(t, Newline) = end
        <5>1. end \in 1 .. Len(t) /\ \A i \in 1 .. end : t[i] = b[i]
          BY <1>2, <3>2, <4>1
        <5>2. t[end] = Newline /\ \A i \in 1 .. end - 1 : t[i] /= Newline
          BY <3>2, <4>2, <5>1
        <5>. QED
          BY <4>1, <5>1, <5>2, FirstPlaceIs DEF Texts
      <4>6. r \o line \in Texts
        BY <1>1, <3>2, TextJoin
      <4>7. FirstOf(t, end) = f /\ After(t, end) = r \o line
        BY <3>2, <4>3, <4>4, <4>6, CutIs DEF Texts
      <4>. QED
        BY <4>1, <4>5, <4>7 DEF t
    <3>6. CallsIn[b \o line] = <<one>> \o CallsIn[r \o line]
      BY <3>1, <3>5, CallsUnfold DEF NextCalls
    <3>7. CallsIn[b] = <<one>> \o CallsIn[r]
      BY <3>1, CallsUnfold DEF NextCalls
    <3>8. CallsIn[r \o line] = Append(CallsIn[r], more)
      BY <3>4
    <3>9. CallsIn[r] \in Seq(ParsedLines) /\ more \in ParsedLines
      BY <1>1, <3>2, CallsUnfold DEF ParsedLines
    <3>. DEFINE rest == CallsIn[r]
    <3>10. <<one>> \o Append(rest, more) = Append(<<one>> \o rest, more)
      <4>. HIDE DEF rest, one, more
      <4>1. <<one>> \in Seq(ParsedLines) /\ <<more>> \in Seq(ParsedLines) /\ rest \in Seq(ParsedLines)
        BY <3>2, <3>9 DEF rest
      <4>2. Append(rest, more) = rest \o <<more>> /\ Append(<<one>> \o rest, more) = (<<one>> \o rest) \o <<more>>
        BY <4>1, AppendIsConcat, ConcatProperties
      <4>. QED
        BY <4>1, <4>2, ConcatAssociative
    <3>11. CallsIn[b \o line] = Append(CallsIn[b], more)
      BY <3>6, <3>7, <3>8, <3>10
    <3>. QED
      BY <3>11
  <2>. QED
    BY <2>1, <2>2
<1>4. size \in [S -> Nat]
  BY DEF Texts
<1>5. bytes \in T
  <2>1. bytes \in S
    BY DEF Whole
  <2>. HIDE DEF S, size, T
  <2>2. S \subseteq T
    BY <1>3, <1>4, Induction DEF Hereditary
  <2>. QED
    BY <2>1, <2>2
<1>6. Whole(bytes \o line)
  <2>. DEFINE t == bytes \o line
              n == Len(bytes)
  <2>1. /\ t \in Texts /\ n \in Nat /\ Len(t) = n + m
        /\ \A i \in 1 .. m : t[n + i] = line[i]
    BY <1>1, TextParts DEF Whole
  <2>2. m \in 1 .. m
    BY <1>2
  <2>. HIDE DEF t
  <2>3. t \in Texts /\ t[Len(t)] = Newline
    BY <1>2, <2>1, <2>2
  <2>. QED
    BY <2>3 DEF Whole, t
<1>. QED
  BY <1>5, <1>6

-----------------------------------------------------------------------------
(* No command is executed without its arguments.                             *)

\* The texts of a kind are at least those of the tokens in one place.
LEMMA TextsAtLeast ==
    ASSUME NEW tokens \in Seq(LexTokens), NEW kind, NEW a \in Nat, NEW b \in Nat,
           a + b <= Len(tokens),
           \A i \in a + 1 .. a + b : tokens[i].kind = kind
    PROVE  TextsOf(tokens, kind) \in Seq(Texts) /\ Len(TextsOf(tokens, kind)) >= b
<1>. DEFINE n == Len(tokens)
            one(i) == IF tokens[i].kind = kind THEN <<tokens[i].text>> ELSE <<>>
            texts == [i \in DOMAIN tokens |-> one(i)]
<1>1. n \in Nat /\ DOMAIN tokens = 1 .. n /\ a + b <= n
  OBVIOUS
<1>2. \A i \in 1 .. n : one(i) \in Seq(Texts)
  <2>. TAKE i \in 1 .. n
  <2>1. tokens[i] \in LexTokens
    BY ElementOfSeq
  <2>2. tokens[i].text \in Texts
    BY <2>1 DEF LexTokens
  <2>. QED
    BY <2>2
<1>3. texts = [i \in 1 .. n |-> one(i)]
  BY <1>1
<1>. HIDE DEF one, n
<1>4. texts \in Seq(Seq(Texts)) /\ Len(texts) = n /\ \A i \in 1 .. n : texts[i] = one(i)
  <2>1. texts \in Seq(Seq(Texts))
    BY <1>1, <1>2, <1>3, IsASeq
  <2>. QED
    BY <1>1, <1>3, <2>1
<1>5. TextsOf(tokens, kind) = FlattenSeq(texts)
  BY DEF TextsOf, one
<1>. HIDE DEF texts
<1>6. PICK joined : IsFlattened(joined, texts, Texts)
  BY <1>4, FlattenUnfolds
<1>7. /\ joined \in [0 .. n -> Seq(Texts)]
      /\ \A i \in 1 .. n : joined[i] = joined[i - 1] \o one(i)
      /\ TextsOf(tokens, kind) = joined[n]
  BY <1>4, <1>5, <1>6 DEF IsFlattened
<1>. DEFINE l(i) == Len(joined[i])
            Long(i) == l(i) \in Nat /\ l(i) >= i - a /\ l(i) >= 0
            Enough(i) == l(i) >= b
            T == {i \in 0 .. n : l(i) \in Nat /\ (i <= a + b => l(i) >= i - a) /\ (i >= a + b => l(i) >= b)}
<1>8. ASSUME NEW i \in 1 .. n
      PROVE  /\ l(i) = l(i - 1) + Len(one(i)) /\ l(i - 1) \in Nat /\ Len(one(i)) \in Nat
             /\ i \in a + 1 .. a + b => Len(one(i)) = 1
  <2>1. joined[i - 1] \in Seq(Texts) /\ one(i) \in Seq(Texts) /\ joined[i] = joined[i - 1] \o one(i)
    <3>1. i - 1 \in 0 .. n /\ i \in 1 .. n
      BY <1>1
    <3>2. joined[i - 1] \in Seq(Texts)
      BY <1>7, <3>1
    <3>. QED
      BY <1>2, <1>7, <3>1, <3>2
  <2>2. Len(joined[i - 1] \o one(i)) = Len(joined[i - 1]) + Len(one(i))
    BY <2>1, ConcatProperties
  <2>3. i \in a + 1 .. a + b => one(i) = <<tokens[i].text>>
    BY DEF one
  <2>. QED
    BY <2>1, <2>2, <2>3
<1>9. ASSUME NEW i \in 1 .. n, i - 1 \in T
      PROVE  i \in T
  <2>. DEFINE x == l(i - 1)
              y == Len(one(i))
              z == l(i)
  <2>1. /\ z = x + y /\ x \in Nat /\ y \in Nat /\ (i \in a + 1 .. a + b => y = 1)
    BY <1>8
  <2>2. (i - 1 <= a + b => x >= i - 1 - a) /\ (i - 1 >= a + b => x >= b)
    BY <1>9
  <2>. HIDE DEF x, y, z
  <2>3. i \in 0 .. n /\ z \in Nat /\ (i <= a + b => z >= i - a)
    <3>1. CASE i <= a
      BY <1>1, <2>1, <3>1
    <3>2. CASE ~(i <= a)
      BY <1>1, <2>1, <2>2, <3>2
    <3>. QED
      BY <3>1, <3>2
  <2>4. i >= a + b => z >= b
    <3>1. CASE i = a + b
      BY <1>1, <2>3, <3>1
    <3>2. CASE i > a + b
      BY <1>1, <2>1, <2>2, <3>2
    <3>. QED
      BY <1>1, <3>1, <3>2
  <2>. QED
    BY <2>3, <2>4 DEF z
<1>10. 0 \in T
  <2>1. l(0) = 0
    BY <1>6 DEF IsFlattened
  <2>2. 0 \in 0 .. n /\ 0 >= 0 - a /\ (0 >= a + b => 0 >= b) /\ 0 \in Nat
    BY <1>1
  <2>. HIDE DEF l
  <2>. QED
    BY <2>1, <2>2
<1>. HIDE DEF T, l
<1>11. n \in T
  <2>1. 0 .. n \subseteq T
    BY <1>1, <1>9, <1>10, Upward
  <2>. QED
    BY <1>1, <2>1
<1>12. l(n) >= b
  BY <1>1, <1>11 DEF T
<1>. QED
  BY <1>1, <1>7, <1>12 DEF l

\* There is always a first token.
LEMMA TokensBegin ==
    ASSUME NEW line \in Texts
    PROVE  \E t \in LexTokens, args \in Seq(LexTokens) : Tokens[line] = <<t>> \o args
<1>1. PICK from : IsTokens(from, line) /\ Tokens[line] = from[1]
  BY TokensUnfold
<1>. DEFINE t == Lex(line, 1)
<1>2. Len(line) \in Nat /\ 1 \in 1 .. Len(line) + 2
  BY DEF Texts
<1>3. from[1] = IF t.kind \in {Newline, Tok_none} THEN <<t>> ELSE <<t>> \o from[t.next]
  BY <1>1, <1>2 DEF IsTokens, TokensAt
<1>4. /\ t \in LexTokens
      /\ t.kind \notin {Newline, Tok_none} => t.next \in 1 + 1 .. Len(line) + 1
  BY <1>2, LexMoves
<1>. HIDE DEF t
<1>5. CASE t.kind \in {Newline, Tok_none}
  <2>1. <<t>> = <<t>> \o <<>> /\ <<>> \in Seq(LexTokens)
    BY <1>4, ConcatEmptySeq
  <2>. QED
    BY <1>1, <1>3, <1>4, <1>5, <2>1
<1>6. CASE t.kind \notin {Newline, Tok_none}
  <2>1. t.next \in 1 .. Len(line) + 1
    BY <1>2, <1>4, <1>6
  <2>2. from[t.next] \in Seq(LexTokens)
    BY <1>1, <2>1, FromInside DEF Inside
  <2>. QED
    BY <1>1, <1>3, <1>4, <1>6, <2>2
<1>. QED
  BY <1>5, <1>6

Complete(call) ==
    IF call.op = Tok_exec THEN Len(call.strings) >= 3
    ELSE Len(call.strings) >= Arity(call.op)[1] /\ Len(call.numbers) >= Arity(call.op)[2]

\* Of tokens that begin as a command wants them, no argument is missing.
LEMMA UnderstoodComplete ==
    ASSUME NEW op \in Keywords, op /= Tok_exec, NEW args \in Seq(LexTokens),
           Arity(op)[1] + Arity(op)[2] <= Len(args),
           \A k \in 1 .. Arity(op)[1] : args[k].kind = Tok_str,
           \A k \in Arity(op)[1] + 1 .. Arity(op)[1] + Arity(op)[2] : args[k].kind = Tok_num
    PROVE  /\ Understood(op, args).op = op /\ Complete(Understood(op, args))
           /\ Understood(op, args).strings \in Seq(Texts)
<1>. DEFINE a == Arity(op)[1]
            b == Arity(op)[2]
            strs == TextsOf(args, Tok_str)
            nums == TextsOf(args, Tok_num)
<1>1. a \in Nat /\ b \in Nat
  BY PatternIs DEF Expects
<1>2. strs \in Seq(Texts) /\ Len(strs) >= a
  <2>. DEFINE z == 0
  <2>1. z \in Nat /\ z + a <= Len(args) /\ \A k \in z + 1 .. z + a : args[k].kind = Tok_str
    <3>1. z + a = a /\ z + 1 = 1 /\ a <= Len(args)
      <4>. DEFINE n == Len(args)
      <4>1. n \in Nat /\ a + b <= n
        OBVIOUS
      <4>. HIDE DEF n, a, b
      <4>2. a <= n /\ z + a = a /\ z + 1 = 1
        BY <1>1, <4>1
      <4>. QED
        BY <4>2 DEF n
    <3>. QED
      BY <3>1
  <2>. HIDE DEF z, a
  <2>. QED
    BY ONLY <1>1, <2>1, TextsAtLeast, args \in Seq(LexTokens)
<1>3. nums \in Seq(Texts) /\ Len(nums) >= b
  <2>. HIDE DEF a, b
  <2>1. a + b <= Len(args) /\ \A k \in a + 1 .. a + b : args[k].kind = Tok_num
    BY DEF a, b
  <2>. QED
    BY <1>1, <2>1, TextsAtLeast
<1>4. Understood(op, args)
         = [op |-> op, strings |-> strs, numbers |-> [i \in DOMAIN nums |-> ToInt(nums[i])]]
  BY DEF Understood, WithOptions
<1>. HIDE DEF strs, nums, a, b
<1>5. Len([i \in DOMAIN nums |-> ToInt(nums[i])]) = Len(nums)
  <2>1. DOMAIN nums = 1 .. Len(nums) /\ Len(nums) \in Nat
    BY <1>3
  <2>. QED
    BY <2>1
<1>. DEFINE u == Understood(op, args)
<1>6. u.op = op /\ u.strings = strs /\ Len(u.numbers) = Len(nums)
  BY <1>4, <1>5
<1>. HIDE DEF u
<1>7. Complete(u)
  BY <1>2, <1>3, <1>6 DEF Complete, a, b
<1>. QED
  BY <1>2, <1>6, <1>7 DEF u

\* The kinds of tokens.
LEMMA KindsAre ==
    ASSUME NEW args \in Seq(LexTokens), NEW kinds, kinds = [i \in DOMAIN args |-> args[i].kind]
    PROVE  /\ kinds \in Seq(Nat) /\ Len(kinds) = Len(args) /\ Len(args) \in Nat
           /\ \A i \in 1 .. Len(args) : kinds[i] = args[i].kind /\ args[i] \in LexTokens
<1>. DEFINE n == Len(args)
<1>1. n \in Nat /\ DOMAIN args = 1 .. n
  OBVIOUS
<1>2. kinds = [i \in 1 .. n |-> args[i].kind]
  BY <1>1
<1>3. \A i \in 1 .. n : args[i].kind \in Nat /\ args[i] \in LexTokens
  <2>. TAKE i \in 1 .. n
  <2>1. args[i] \in LexTokens
    BY <1>1, ElementOfSeq
  <2>. QED
    BY <2>1 DEF LexTokens
<1>4. kinds \in Seq(Nat)
  BY <1>1, <1>2, <1>3, IsASeq
<1>. QED
  BY <1>1, <1>2, <1>3, <1>4

\* What does not begin with a keyword is no command.
LEMMA NoKeyword ==
    ASSUME NEW t \in LexTokens, t.kind \notin Keywords, NEW args \in Seq(LexTokens)
    PROVE  CallOf[<<t>> \o args] = Unknown
<1>. DEFINE tokens == <<t>> \o args
<1>1. tokens \in Seq(LexTokens) /\ tokens[1] = t
  BY OneMore
<1>. HIDE DEF tokens
<1>2. tokens \in TokenLists
  BY <1>1 DEF TokenLists, LexTokens
<1>3. CallOf[tokens] = Unknown
  <2>. HIDE DEF WellFormed, Malformed, Understood, Unknown
  <2>. QED
    BY <1>1, <1>2 DEF CallOf
<1>. QED
  BY <1>3 DEF tokens

\* Of a line that is executed, no argument is missing.
LEMMA ArgumentsThere ==
    ASSUME NEW op \in Keywords, NEW args \in Seq(LexTokens),
           WellFormed(op, [i \in DOMAIN args |-> args[i].kind]),
           NEW call,
           call = IF op \in {Tok_delGroup, Tok_delSpecialKey} THEN Understood(op, <<args[1]>>)
                  ELSE Understood(op, args)
    PROVE  call.op = op /\ Complete(call) /\ call.strings \in Seq(Texts)
<1>. DEFINE kinds == [i \in DOMAIN args |-> args[i].kind]
            n == Len(args)
<1>1. /\ kinds \in Seq(Nat) /\ Len(kinds) = n /\ n \in Nat
      /\ \A i \in 1 .. n : kinds[i] = args[i].kind /\ args[i] \in LexTokens
  BY KindsAre
<1>2. WellFormed(op, kinds)
  OBVIOUS
<1>. HIDE DEF kinds, n
<1>3. CASE op = Tok_exec
  <2>. DEFINE b == n - 1
              z == 0
              strs == TextsOf(args, Tok_str)
  <2>1. n >= 3 /\ \A i \in 1 .. b : kinds[i] = Tok_str
    BY <1>1, <1>2, <1>3 DEF WellFormed, IsExec
  <2>2. b \in Nat /\ b >= 2 /\ z \in Nat /\ z + b <= n /\ \A i : i \in z + 1 .. z + b => i \in 1 .. b /\ i \in 1 .. n
    BY <1>1, <2>1
  <2>3. z + b <= Len(args) /\ \A i \in z + 1 .. z + b : args[i].kind = Tok_str
    <3>1. \A i \in z + 1 .. z + b : args[i].kind = Tok_str
      <4>. HIDE DEF z, b
      <4>. QED
        BY <1>1, <2>1, <2>2
    <3>. QED
      BY <2>2, <3>1 DEF n
  <2>4. strs \in Seq(Texts) /\ Len(strs) >= b
    <3>. HIDE DEF z, b
    <3>. QED
      BY ONLY <2>2, <2>3, TextsAtLeast, args \in Seq(LexTokens)
  <2>5. op \notin {Tok_delGroup, Tok_delSpecialKey}
    BY <1>3 DEF Tok_exec, Tok_delGroup, Tok_delSpecialKey
  <2>6. call.op = op /\ call.strings = WithOptions(op, strs)
    BY <2>5 DEF Understood
  <2>. DEFINE l == Len(strs)
              more == Append(strs, <<>>)
  <2>7. l \in Nat /\ l >= 2
    <3>1. l \in Nat /\ l >= b
      BY <2>4
    <3>. HIDE DEF l, b
    <3>. QED
      BY <2>2, <3>1
  <2>8. more \in Seq(Texts) /\ Len(more) = l + 1
    <3>1. strs \in Seq(Texts) /\ <<>> \in Texts
      BY <2>4, TextOne
    <3>. HIDE DEF strs
    <3>. QED
      BY <3>1, AppendProperties
  <2>9. CASE l = 2
    <3>1. call.strings = more
      BY <1>3, <2>6, <2>9 DEF WithOptions
    <3>2. Len(more) = 2 + 1
      BY <2>8, <2>9
    <3>3. Len(call.strings) >= 3
      <4>. DEFINE k == Len(call.strings)
      <4>1. k = Len(more)
        BY <3>1
      <4>2. k = 2 + 1
        BY <3>2, <4>1
      <4>. HIDE DEF k
      <4>3. k >= 3
        BY ONLY <4>2
      <4>. QED
        BY <4>3 DEF k
    <3>4. call.strings \in Seq(Texts)
      <4>. HIDE DEF more
      <4>. QED
        BY <2>8, <3>1
    <3>5. call.op = op /\ call.op = Tok_exec
      BY <1>3, <2>6
    <3>. QED
      BY ONLY <3>3, <3>4, <3>5 DEF Complete
  <2>10. CASE l /= 2
    <3>1. call.strings = strs
      BY <1>3, <2>6, <2>10 DEF WithOptions
    <3>2. l >= 3
      <4>. HIDE DEF l
      <4>. QED
        BY <2>7, <2>10
    <3>3. Len(call.strings) >= 3
      BY <3>1, <3>2
    <3>. QED
      BY <1>3, <2>4, <2>6, <3>1, <3>3 DEF Complete
  <2>. QED
    BY <2>9, <2>10
<1>4. CASE op /= Tok_exec
  <2>. DEFINE p == Pattern(op)
              l == Len(p)
              a == Arity(op)[1]
              b == Arity(op)[2]
  <2>1. /\ a \in Nat /\ b \in Nat /\ p \in Seq(Nat)
        /\ l = (IF op \in {Tok_delGroup, Tok_delSpecialKey} THEN 0 ELSE 1) + a + b
        /\ \A k \in 1 .. a : p[k] = Tok_str
        /\ \A k \in a + 1 .. a + b : p[k] = Tok_num
    BY <1>4, PatternIs DEF Expects
  <2>2. IsPrefix(p, kinds)
    BY <1>2, <1>4 DEF WellFormed
  <2>3. l <= n /\ \A k \in 1 .. l : p[k] = kinds[k]
    <3>. HIDE DEF p
    <3>1. p \in Seq(Nat) /\ kinds \in Seq(Nat) /\ IsPrefix(p, kinds)
      BY <1>1, <2>1, <2>2
    <3>2. Len(p) <= Len(kinds) /\ \A k \in 1 .. Len(p) : p[k] = kinds[k]
      BY ONLY <3>1, PrefixElements
    <3>. QED
      BY <1>1, <3>2
  <2>. HIDE DEF p, l, a, b
  <2>4. l \in Nat /\ a + b <= l
    <3>1. l = 0 + a + b \/ l = 1 + a + b
      BY <2>1
    <3>. QED
      BY <2>1, <3>1
  <2>5. a + b <= n
    BY <1>1, <2>1, <2>3, <2>4
  <2>6. \A k \in 1 .. a : args[k].kind = Tok_str
    <3>. TAKE k \in 1 .. a
    <3>1. k \in 1 .. l /\ k \in 1 .. n
      BY <1>1, <2>1, <2>4, <2>5
    <3>. QED
      BY <1>1, <2>1, <2>3, <3>1
  <2>7. \A k \in a + 1 .. a + b : args[k].kind = Tok_num
    <3>. TAKE k \in a + 1 .. a + b
    <3>1. k \in 1 .. l /\ k \in 1 .. n
      BY <1>1, <2>1, <2>4, <2>5
    <3>. QED
      BY <1>1, <2>1, <2>3, <3>1
  <2>8. CASE op \notin {Tok_delGroup, Tok_delSpecialKey}
    <3>1. /\ a + b <= Len(args) /\ call = Understood(op, args)
          /\ \A k \in 1 .. a : args[k].kind = Tok_str
          /\ \A k \in a + 1 .. a + b : args[k].kind = Tok_num
      BY <2>5, <2>6, <2>7, <2>8 DEF n
    <3>. QED
      BY <1>4, <3>1, UnderstoodComplete DEF a, b
  <2>9. CASE op \in {Tok_delGroup, Tok_delSpecialKey}
    <3>. DEFINE t == args[1]
                one == <<t>>
    <3>1. a = 1 /\ b = 0
      <4>1. Arity(op) = <<1, 0>>
        BY <2>9 DEF Arity, Tok_delGroup, Tok_delSpecialKey, Tok_pass, Tok_set, Tok_delCmd, Tok_prio,
                    Tok_sched, Tok_ping, Tok_exit, Tok_stop
      <4>. QED
        BY <4>1 DEF a, b
    <3>2. t \in LexTokens /\ t.kind = Tok_str
      <4>1. 1 \in 1 .. a /\ 1 \in 1 .. n
        BY <1>1, <2>5, <3>1
      <4>. QED
        BY <1>1, <2>6, <4>1
    <3>3. call = Understood(op, one)
      BY <2>9
    <3>. HIDE DEF t
    <3>4. one \in Seq(LexTokens) /\ Len(one) = 1 /\ one[1] = t
      BY <3>2
    <3>. HIDE DEF one
    <3>5. /\ a + b <= Len(one)
          /\ \A k \in 1 .. a : one[k].kind = Tok_str
          /\ \A k \in a + 1 .. a + b : one[k].kind = Tok_num
      <4>1. \A k \in 1 .. a : k = 1
        BY <3>1
      <4>2. a + 1 .. a + b = {}
        BY <3>1
      <4>3. a + b = 1
        BY <3>1
      <4>. QED
        BY <3>2, <3>4, <4>1, <4>2, <4>3
    <3>. QED
      BY <1>4, <3>3, <3>4, <3>5, UnderstoodComplete DEF a, b
  <2>. QED
    BY <2>8, <2>9
<1>. QED
  BY <1>3, <1>4

\* Whatever a line looks like, doCommand() executes it only if every argument is there that
\* its command uses: it never reads behind the last token (handler.cpp:172-539).
THEOREM NoArgumentMissing ==
    ASSUME NEW line \in Texts, NEW call, call = Parsed(line), call \notin {Malformed, Unknown}
    PROVE  call.op \in Keywords /\ Complete(call) /\ call.strings \in Seq(Texts)
<1>1. PICK t \in LexTokens, args \in Seq(LexTokens) : Tokens[line] = <<t>> \o args
  BY TokensBegin
<1>2. call = CallOf[<<t>> \o args]
  BY <1>1 DEF Parsed
<1>3. t.kind \in Keywords
  BY <1>2, NoKeyword
<1>4. CallOf[<<t>> \o args] =
         IF ~WellFormed(t.kind, [i \in DOMAIN args |-> args[i].kind]) THEN Malformed
         ELSE IF t.kind \in {Tok_delGroup, Tok_delSpecialKey} THEN Understood(t.kind, <<args[1]>>)
         ELSE Understood(t.kind, args)
  BY <1>3, CallOfIs
<1>5. WellFormed(t.kind, [i \in DOMAIN args |-> args[i].kind])
  <2>. HIDE DEF WellFormed, Understood, Malformed, Unknown
  <2>. QED
    BY <1>2, <1>4
<1>6. call = IF t.kind \in {Tok_delGroup, Tok_delSpecialKey} THEN Understood(t.kind, <<args[1]>>)
             ELSE Understood(t.kind, args)
  <2>. HIDE DEF WellFormed, Understood
  <2>. QED
    BY <1>2, <1>4, <1>5
<1>7. call.op = t.kind /\ Complete(call) /\ call.strings \in Seq(Texts)
  <2>. HIDE DEF WellFormed, Understood, Complete
  <2>. QED
    BY <1>3, <1>5, <1>6, ArgumentsThere
<1>. QED
  BY <1>3, <1>7

-----------------------------------------------------------------------------
(* Answers come back as they were.                                           *)

\* Bytes that are joined, and bytes that begin others.
LEMMA BytesParts ==
    ASSUME NEW a \in Bytes, NEW b \in Bytes
    PROVE  /\ a \o b \in Bytes /\ Len(a) \in Nat /\ Len(b) \in Nat
           /\ Len(a \o b) = Len(a) + Len(b)
           /\ \A i \in 1 .. Len(a) : (a \o b)[i] = a[i]
           /\ \A i \in 1 .. Len(b) : (a \o b)[Len(a) + i] = b[i]
<1>1. a \in Texts /\ b \in Texts
  BY BytesAreTexts
<1>. QED
  BY <1>1, TextParts, Join

\* What begins a sequence of bytes.
LEMMA BytesPrefix ==
    ASSUME NEW a \in Bytes, NEW b \in Bytes
    PROVE  IsPrefix(a, b) <=> Len(a) <= Len(b) /\ \A i \in 1 .. Len(a) : a[i] = b[i]
<1>. DEFINE B == 0 .. 255
<1>1. a \in Seq(B) /\ b \in Seq(B)
  BY DEF Bytes
<1>. HIDE DEF B
<1>. QED
  BY ONLY <1>1, PrefixElements

\* NO, and OK with any text behind it.
IsAnswer(answer) ==
    \/ answer = No
    \/ \E text \in Bytes : answer = Answer(TRUE, text)

Beginning(answer) ==
    (IF answer.ok THEN OkText ELSE NoText)
    \o (IF answer.text = <<>> THEN <<>> ELSE <<Space>> \o answer.text)

BeginsWell(answer, head, l) ==
    /\ answer.text \in Bytes /\ l \in Nat /\ head \in Bytes /\ answer.ok \in BOOLEAN
    /\ Len(head) = IF l = 0 THEN 2 ELSE l + 3
    /\ head[1] = (IF answer.ok THEN 79 ELSE 78) /\ head[2] = (IF answer.ok THEN 75 ELSE 79)
    /\ l /= 0 => head[3] = Space /\ \A i \in 1 .. l : head[3 + i] = answer.text[i]
    /\ answer = Answer(answer.ok, answer.text)
    /\ ~answer.ok => answer = No

\* How an answer is written.
LEMMA BeginningIs ==
    ASSUME NEW answer, IsAnswer(answer)
    PROVE  BeginsWell(answer, Beginning(answer), Len(answer.text))
<1>. DEFINE text == answer.text
            l == Len(text)
            head == Beginning(answer)
            word == IF answer.ok THEN OkText ELSE NoText
            rest == IF text = <<>> THEN <<>> ELSE <<Space>> \o text
            s == <<Space>>
<1>1. /\ text \in Bytes /\ answer.ok \in BOOLEAN /\ answer = Answer(answer.ok, text)
      /\ ~answer.ok => answer = No
  <2>1. CASE answer = No
    BY <2>1, Empty DEF No, Answer
  <2>2. CASE \E t \in Bytes : answer = Answer(TRUE, t)
    BY <2>2 DEF Answer
  <2>. QED
    BY <2>1, <2>2 DEF IsAnswer
<1>2. l \in Nat /\ (l = 0 <=> text = <<>>)
  <2>1. text \in Seq(0 .. 255)
    BY <1>1 DEF Bytes
  <2>. HIDE DEF text
  <2>. QED
    BY <2>1
<1>3. /\ word \in Seq(0 .. 255) /\ Len(word) = 2
      /\ word[1] = (IF answer.ok THEN 79 ELSE 78) /\ word[2] = (IF answer.ok THEN 75 ELSE 79)
  <2>1. CASE answer.ok
    <3>1. word = OkText
      BY <2>1
    <3>. QED
      BY <2>1, <3>1 DEF OkText
  <2>2. CASE ~answer.ok
    <3>1. word = NoText
      BY <2>2
    <3>. QED
      BY <2>2, <3>1 DEF NoText
  <2>. QED
    BY <2>1, <2>2
<1>4. head = word \o rest
  BY DEF Beginning
<1>5. s \in Seq(0 .. 255) /\ Len(s) = 1 /\ s[1] = Space
  BY DEF Space
<1>. HIDE DEF text, word, l, head
<1>6. CASE l = 0
  <2>1. head = word
    BY <1>2, <1>3, <1>4, <1>6, ConcatEmptySeq
  <2>. QED
    BY <1>1, <1>2, <1>3, <1>6, <2>1 DEF Bytes, BeginsWell, text, l, head
<1>7. CASE l /= 0
  <2>1. rest = s \o text
    BY <1>2, <1>7
  <2>. HIDE DEF rest, s
  <2>2. text \in Seq(0 .. 255) /\ Len(text) = l
    BY <1>1 DEF Bytes, text, l
  <2>3. /\ rest \in Seq(0 .. 255) /\ Len(rest) = 1 + l
        /\ \A i \in 1 .. 1 : rest[i] = s[i]
        /\ \A i \in 1 .. l : rest[1 + i] = text[i]
    <3>1. s \in Bytes /\ text \in Bytes
      BY <1>5, <1>3, <2>2 DEF Bytes
    <3>2. /\ s \o text \in Bytes /\ Len(s \o text) = Len(s) + Len(text)
          /\ \A i \in 1 .. Len(s) : (s \o text)[i] = s[i]
          /\ \A i \in 1 .. Len(text) : (s \o text)[Len(s) + i] = text[i]
      BY <3>1, BytesParts
    <3>. QED
      BY <1>5, <2>1, <2>2, <3>2 DEF Bytes
  <2>4. /\ head \in Seq(0 .. 255) /\ Len(head) = 2 + (1 + l)
        /\ \A i \in 1 .. 2 : head[i] = word[i]
        /\ \A i \in 1 .. 1 + l : head[2 + i] = rest[i]
    <3>1. word \in Bytes /\ rest \in Bytes
      BY <1>5, <1>3, <2>2, <2>3 DEF Bytes
    <3>2. /\ word \o rest \in Bytes /\ Len(word \o rest) = Len(word) + Len(rest)
          /\ \A i \in 1 .. Len(word) : (word \o rest)[i] = word[i]
          /\ \A i \in 1 .. Len(rest) : (word \o rest)[Len(word) + i] = rest[i]
      BY <3>1, BytesParts
    <3>. QED
      BY <1>3, <1>4, <2>3, <3>2 DEF Bytes
  <2>5. rest[1] = Space
    <3>1. 1 \in 1 .. 1
      OBVIOUS
    <3>. QED
      BY <1>5, <2>3, <3>1
  <2>6. head[3] = Space
    <3>1. 1 \in 1 .. 1 + l /\ 2 + 1 = 3
      BY <1>2
    <3>. QED
      BY <2>4, <2>5, <3>1
  <2>7. head[1] = word[1] /\ head[2] = word[2]
    <3>1. 1 \in 1 .. 2 /\ 2 \in 1 .. 2
      OBVIOUS
    <3>. QED
      BY <2>4, <3>1
  <2>8. \A i \in 1 .. l : head[3 + i] = text[i]
    <3>. TAKE i \in 1 .. l
    <3>1. 1 + i \in 1 .. 1 + l /\ 2 + (1 + i) = 3 + i
      BY <1>2
    <3>2. head[2 + (1 + i)] = rest[1 + i]
      BY <2>4, <3>1
    <3>3. rest[1 + i] = text[i]
      BY <2>3, <1>5
    <3>. QED
      BY <3>1, <3>2, <3>3
  <2>9. Len(head) = l + 3
    BY <1>2, <2>4
  <2>. QED
    BY <1>1, <1>2, <1>3, <1>7, <2>4, <2>6, <2>7, <2>8, <2>9 DEF Bytes, BeginsWell, text, l, head
<1>. QED
  BY <1>6, <1>7

EndsWell(reply, head) ==
    /\ reply \in Bytes /\ Len(head) \in Nat /\ Len(reply) = Len(head) + 1 /\ reply /= <<>>
    /\ \A i \in 1 .. Len(head) : reply[i] = head[i]
    /\ reply[Len(head) + 1] = Newline

\* It ends with a newline.
LEMMA ReplyIs ==
    ASSUME NEW answer, IsAnswer(answer)
    PROVE  EndsWell(Reply(answer), Beginning(answer))
<1>. DEFINE nl == <<Newline>>
            head == Beginning(answer)
            reply == Reply(answer)
            n == Len(head)
<1>1. head \in Seq(0 .. 255)
  BY BeginningIs DEF Bytes, BeginsWell
<1>2. nl \in Seq(0 .. 255) /\ Len(nl) = 1 /\ nl[1] = Newline
  BY DEF Newline
<1>3. reply = head \o nl
  BY DEF Reply, Beginning
<1>. HIDE DEF nl, head, reply
<1>4. /\ reply \in Seq(0 .. 255) /\ n \in Nat /\ Len(reply) = n + 1
      /\ \A i \in 1 .. n : reply[i] = head[i]
      /\ \A i \in 1 .. 1 : reply[n + i] = nl[i]
  <2>0. head \in Bytes /\ nl \in Bytes
    BY <1>1, <1>2 DEF Bytes
  <2>1. /\ head \o nl \in Bytes /\ Len(head \o nl) = Len(head) + Len(nl) /\ Len(head) \in Nat
        /\ \A i \in 1 .. Len(head) : (head \o nl)[i] = head[i]
        /\ \A i \in 1 .. Len(nl) : (head \o nl)[Len(head) + i] = nl[i]
    BY <2>0, BytesParts
  <2>. QED
    BY <1>2, <1>3, <2>1 DEF Bytes
<1>5. reply[n + 1] = Newline
  <2>1. 1 \in 1 .. 1
    OBVIOUS
  <2>. QED
    BY <1>2, <1>4, <2>1
<1>. HIDE DEF n
<1>6. reply /= <<>>
  BY <1>4
<1>. QED
  BY <1>4, <1>5, <1>6 DEF Bytes, n, EndsWell, head, reply

\* What command() makes of an answer that fits into its buffer: the answer.
THEOREM ReadBack ==
    ASSUME NEW answer, IsAnswer(answer), Nul \notin ToSet(answer.text)
    PROVE  Reading(Reply(answer)) = answer
<1>. DEFINE reply == Reply(answer)
            head == Beginning(answer)
            text == answer.text
            l == Len(text)
            h == Len(head)
<1>1. /\ text \in Bytes /\ l \in Nat /\ answer.ok \in BOOLEAN
      /\ h = IF l = 0 THEN 2 ELSE l + 3
      /\ head[1] = (IF answer.ok THEN 79 ELSE 78) /\ head[2] = (IF answer.ok THEN 75 ELSE 79)
      /\ l /= 0 => head[3] = Space /\ \A i \in 1 .. l : head[3 + i] = text[i]
      /\ answer = Answer(answer.ok, text)
      /\ ~answer.ok => answer = No
  BY BeginningIs DEF BeginsWell
<1>2. /\ reply \in Bytes /\ h \in Nat /\ Len(reply) = h + 1
      /\ \A i \in 1 .. h : reply[i] = head[i]
      /\ reply[h + 1] = Newline
  BY ReplyIs DEF EndsWell
<1>3. \A i \in 1 .. l : text[i] /= Nul
  <2>1. DOMAIN text = 1 .. l
    BY <1>1 DEF Bytes
  <2>. QED
    BY <2>1 DEF ToSet
<1>. HIDE DEF reply, head, text, l, h
<1>4. \A i \in 1 .. h + 1 : reply[i] /= Nul
  <2>. TAKE i \in 1 .. h + 1
  <2>1. CASE i = 1 \/ i = 2
    BY <1>1, <1>2, <2>1 DEF Nul
  <2>2. CASE i = h + 1
    BY <1>2, <2>2 DEF Newline, Nul
  <2>3. CASE i > 2 /\ i <= h
    <3>1. l /= 0 /\ reply[i] = head[i] /\ i \in Int
      BY <1>1, <1>2, <2>3
    <3>2. CASE i = 3
      BY <1>1, <3>1, <3>2 DEF Space, Nul
    <3>3. CASE i /= 3
      <4>1. i - 3 \in 1 .. l /\ 3 + (i - 3) = i
        BY <1>1, <1>2, <2>3, <3>1, <3>3
      <4>. QED
        BY <1>1, <1>3, <3>1, <4>1
    <3>. QED
      BY <3>2, <3>3
  <2>. QED
    BY <1>2, <2>1, <2>2, <2>3
<1>5. UpToNul(reply) = reply
  <2>1. reply \in Seq(0 .. 255)
    BY <1>2 DEF Bytes
  <2>2. IndexOf(reply, Nul) = 0
    <3>1. IndexOf(reply, Nul) \in 0 .. Len(reply)
      BY <2>1, FirstPlace
    <3>2. IndexOf(reply, Nul) > 0 => reply[IndexOf(reply, Nul)] = Nul
      BY <2>1, FirstPlace
    <3>. DEFINE k == IndexOf(reply, Nul)
    <3>. HIDE DEF k
    <3>3. k \in 0 .. h + 1 /\ (k > 0 => reply[k] = Nul)
      BY <1>2, <3>1, <3>2 DEF k
    <3>4. k = 0
      BY <1>2, <1>4, <3>3
    <3>. QED
      BY <3>4 DEF k
  <2>. QED
    BY <2>2 DEF UpToNul
<1>6. IsPrefix(OkText, reply) <=> answer.ok
  <2>1. /\ OkText \in Seq(0 .. 255) /\ Len(OkText) = 2 /\ OkText[1] = 79 /\ OkText[2] = 75
        /\ reply \in Seq(0 .. 255)
    BY <1>2 DEF OkText, Bytes
  <2>2. IsPrefix(OkText, reply) <=> Len(OkText) <= Len(reply) /\ \A i \in 1 .. Len(OkText) : OkText[i] = reply[i]
    <3>1. OkText \in Bytes
      BY <2>1 DEF Bytes
    <3>. QED
      BY <1>2, <3>1, BytesPrefix
  <2>3. 2 <= h + 1 /\ 1 \in 1 .. h /\ 2 \in 1 .. h
    BY <1>1, <1>2
  <2>4. reply[1] = (IF answer.ok THEN 79 ELSE 78) /\ reply[2] = (IF answer.ok THEN 75 ELSE 79)
    BY <1>1, <1>2, <2>3
  <2>5. IsPrefix(OkText, reply) <=> 79 = reply[1] /\ 75 = reply[2]
    <3>1. \A i : i \in 1 .. 2 <=> i = 1 \/ i = 2
      OBVIOUS
    <3>. QED
      BY <1>2, <2>1, <2>2, <2>3, <3>1
  <2>. QED
    BY <1>1, <2>4, <2>5
<1>7. CASE answer.ok
  <2>. DEFINE cut == SubSeq(reply, 4, h + 1 - 1)
  <2>1. Reading(reply) = Answer(TRUE, cut)
    <3>1. Reading(reply) = IF IsPrefix(OkText, UpToNul(reply))
                           THEN Answer(TRUE, SubSeq(UpToNul(reply), 4, Len(UpToNul(reply)) - 1))
                           ELSE No
      BY DEF Reading
    <3>. QED
      BY <1>2, <1>5, <1>6, <1>7, <3>1
  <2>2. /\ Len(cut) = l /\ \A i \in 1 .. l : cut[i] = reply[3 + i]
        /\ cut \in Seq(0 .. 255)
    <3>1. /\ \A i \in 4 .. h : reply[i] \in 0 .. 255
      <4>1. \A i \in 4 .. h : i \in 1 .. Len(reply)
        BY <1>2
      <4>. QED
        BY <1>2, <4>1, ElementOfSeq DEF Bytes
    <3>2. h + 1 - 1 = h
      BY <1>2
    <3>3. /\ SubSeq(reply, 4, h) \in Seq(0 .. 255)
          /\ Len(SubSeq(reply, 4, h)) = IF 4 <= h THEN h - 4 + 1 ELSE 0
          /\ \A i \in 1 .. h - 4 + 1 : SubSeq(reply, 4, h)[i] = reply[4 + i - 1]
      BY <1>2, <3>1, SubSeqProperties
    <3>4. (IF 4 <= h THEN h - 4 + 1 ELSE 0) = l /\ \A i \in 1 .. l : i \in 1 .. h - 4 + 1 /\ 4 + i - 1 = 3 + i
      BY <1>1
    <3>. QED
      BY <3>2, <3>3, <3>4
  <2>. HIDE DEF cut
  <2>3. \A i \in 1 .. l : cut[i] = text[i]
    <3>. TAKE i \in 1 .. l
    <3>1. l /= 0 /\ 3 + i \in 1 .. h
      BY <1>1
    <3>. QED
      BY <1>1, <1>2, <2>2, <3>1
  <2>4. cut = text
    BY <1>1, <2>2, <2>3, SeqEqual DEF Bytes, l
  <2>5. answer.ok = TRUE
    BY <1>1, <1>7
  <2>. QED
    BY <1>1, <2>1, <2>4, <2>5 DEF reply
<1>8. CASE ~answer.ok
  BY <1>1, <1>5, <1>6, <1>8 DEF Reading, reply
<1>. QED
  BY <1>7, <1>8

-----------------------------------------------------------------------------
(* What is called and what is answered.                                      *)

\* SET has a key, a value and a group, and a time-out.
LEMMA SetArity ==
    Arity(Tok_set) = <<3, 1>> /\ Tok_set /= Tok_exec /\ Arity(Tok_set)[1] = 3
<1>1. Arity(Tok_set) = <<3, 1>>
  BY DEF Arity, Tok_set, Tok_pass, Tok_delCmd, Tok_prio, Tok_sched, Tok_ping, Tok_exit, Tok_stop
<1>. QED
  BY <1>1 DEF Tok_set, Tok_exec

\* What is heard of a call that was made: the call, or none.
LEMMA CallParsed ==
    ASSUME NEW call \in ClientCalls
    PROVE  /\ IsCall(call) /\ IsLine(Line(call)) /\ call \notin {Malformed, Unknown}
           /\ Parsed(Line(call)) = IF Speakable(call) THEN call ELSE Malformed
           /\ Parsed(Line(call)) \in AllCalls \cup {Malformed}
<1>1. IsCall(call)
  BY InputAssumption
<1>2. Parsed(Line(call)) = IF Speakable(call) THEN call ELSE Malformed
  BY <1>1, CallHeard, CallMisheard
<1>3. call \notin {Malformed, Unknown}
  <2>1. call.op \in Keywords
    BY <1>1, WrittenIs
  <2>. QED
    BY <2>1 DEF Malformed, Unknown, Keywords, Tok_none, Tok_str
<1>. QED
  BY <1>1, <1>2, <1>3, CallIsLine DEF AllCalls

\* What is heard of a line that a program wrote itself.
LEMMA RawParsed ==
    ASSUME NEW line \in RawLines
    PROVE  IsLine(line) /\ Parsed(line) \in AllCalls
BY InputAssumption DEF AllCalls, Heard

\* What variables are set to.
Values == {<<>>} \cup {call.strings[2] : call \in {c \in Named : c.op = Tok_set}}

\* A value is bytes, whoever has set it.
LEMMA ValuesAreBytes ==
    ASSUME NEW value \in Values
    PROVE  value \in Bytes
<1>1. ASSUME NEW call \in Named, call.op = Tok_set
      PROVE  call.strings[2] \in Bytes
  <2>1. CASE call \in ClientCalls
    <3>1. IsCall(call) /\ call.op /= Tok_exec
      BY <1>1, <2>1, InputAssumption DEF Tok_set, Tok_exec
    <3>2. Arity(Tok_set) = <<3, 1>>
      BY SetArity
    <3>3. <<Len(call.strings), Len(call.numbers)>> = <<3, 1>> /\ call.strings \in Seq(Bytes)
      BY <1>1, <3>1, <3>2 DEF IsCall
    <3>4. 2 \in 1 .. Len(call.strings)
      BY <3>3
    <3>. QED
      BY <3>3, <3>4, ElementOfSeq
  <2>2. CASE call \in Heard
    <3>1. PICK line \in RawLines : call = Parsed(line)
      BY <2>2 DEF Heard
    <3>2. line \in Texts /\ ToSet(call.strings) \subseteq Bytes
      BY <3>1, InputAssumption DEF IsLine
    <3>3. call \notin {Malformed, Unknown}
      BY <1>1 DEF Malformed, Unknown, Tok_none, Tok_str, Tok_set
    <3>4. Complete(call) /\ call.strings \in Seq(Texts)
      BY <3>1, <3>2, <3>3, NoArgumentMissing
    <3>5. Arity(Tok_set)[1] = 3 /\ Tok_set /= Tok_exec
      BY SetArity
    <3>6. Len(call.strings) >= 3
      BY <1>1, <3>4, <3>5 DEF Complete
    <3>7. 2 \in DOMAIN call.strings
      <4>. DEFINE n == Len(call.strings)
      <4>1. n \in Nat /\ n >= 3 /\ DOMAIN call.strings = 1 .. n
        BY <3>4, <3>6
      <4>. HIDE DEF n
      <4>. QED
        BY <4>1
    <3>. QED
      BY <3>2, <3>7 DEF ToSet
  <2>. QED
    BY <1>1, <2>1, <2>2 DEF Named, AllCalls
<1>. QED
  BY <1>1, Empty DEF Values

\* What the daemon answers is an answer, and OK or NO with bytes.
LEMMA AnswersAre ==
    /\ No \in AllAnswers /\ Ok \in AllAnswers
    /\ \A value \in Values : Answer(TRUE, value) \in AllAnswers
    /\ \A list \in KeyLists : Answer(TRUE, list) \in AllAnswers
    /\ \A n \in ExitCodes : Answer(TRUE, Decimal(n)) \in AllAnswers
    /\ \A answer \in AllAnswers : IsAnswer(answer)
<1>1. \A n \in ExitCodes : Decimal(n) \in Bytes
  <2>1. \A n \in ExitCodes : n \in -IntMax - 1 .. IntMax
    BY WireAssumption, IntMaxAssumption
  <2>. QED
    BY <2>1, DecimalPlain
<1>2. KeyLists \subseteq Bytes
  BY WireAssumption
<1>3. Values \subseteq AnswerTexts /\ AnswerTexts = Values \cup KeyLists \cup {Decimal(n) : n \in ExitCodes}
  BY DEF Values, AnswerTexts
<1>4. \A text \in AnswerTexts : text \in Bytes
  BY <1>1, <1>2, <1>3, ValuesAreBytes
<1>5. AllAnswers = {No} \cup {Answer(TRUE, text) : text \in AnswerTexts}
  BY DEF AllAnswers
<1>6. <<>> \in Values
  BY DEF Values
<1>7. \A text \in AnswerTexts : Answer(TRUE, text) \in AllAnswers
  BY <1>5
<1>8. /\ \A list \in KeyLists : list \in AnswerTexts
      /\ \A n \in ExitCodes : Decimal(n) \in AnswerTexts
      /\ \A value \in Values : value \in AnswerTexts
  BY <1>3
<1>9. \A answer \in AllAnswers : IsAnswer(answer)
  BY <1>4, <1>5 DEF IsAnswer
<1>. HIDE DEF No, Answer
<1>. QED
  BY <1>5, <1>6, <1>7, <1>8, <1>9 DEF Ok

\* A variable is shorter than the line that sets it.
LEMMA LongerLine ==
    ASSUME NEW call, IsCall(call), call.op = Tok_set
    PROVE  /\ Len(Line(call)) \in Nat /\ Len(call.strings[2]) \in Nat
           /\ Len(Line(call)) >= Len(call.strings[2]) + 7
<1>. DEFINE words == Words(call)
            line == Line(call)
            l == Len(line)
<1>1. PICK place : PlacedIn(line, words, place)
  BY LineAt
<1>2. /\ Written(call) = call.strings /\ call.strings \in Seq(Bytes)
      /\ Len(call.strings) = 3 /\ Len(call.numbers) = 1
  <2>1. call.op /= Tok_exec /\ Arity(call.op) = <<3, 1>>
    BY SetArity
  <2>2. Written(call) = call.strings
    BY <2>1 DEF Written
  <2>3. <<Len(call.strings), Len(call.numbers)>> = <<3, 1>>
    BY <2>1 DEF IsCall
  <2>. QED
    BY <2>2, <2>3, WrittenIs
<1>3. words \in Seq(Texts) /\ Len(words) = 4 /\ \A i \in 1 .. 3 : words[i] = Escape(call.strings[i])
  <2>1. /\ words \in Seq(Texts) /\ Len(words) = Len(call.strings) + Len(call.numbers)
        /\ \A i \in 1 .. Len(call.strings) : words[i] = Escape(call.strings[i])
    BY <1>2, WordsAre
  <2>. HIDE DEF words
  <2>. QED
    BY <1>2, <2>1
<1>4. call.strings[2] \in Bytes
  <2>1. 2 \in 1 .. Len(call.strings)
    BY <1>2
  <2>. QED
    BY <1>2, <2>1, ElementOfSeq
<1>. DEFINE v == Len(call.strings[2])
<1>5. v \in Nat /\ Len(words[2]) >= v + 2
  <2>1. words[2] = Escape(call.strings[2])
    <3>1. 2 \in 1 .. 3
      OBVIOUS
    <3>. HIDE DEF words
    <3>. QED
      BY <1>3, <3>1
  <2>2. Len(Escape(call.strings[2])) >= v + 2
    BY <1>4, EscapePlain
  <2>. QED
    BY <1>4, <2>1, <2>2 DEF Bytes
<1>. HIDE DEF words, line, l
<1>6. ASSUME NEW i \in 1 .. 4
      PROVE  /\ place[i - 1] \in Nat /\ place[i] = place[i - 1] + 1 + Len(words[i]) /\ Len(words[i]) \in Nat
  <2>1. words[i] \in Texts
    BY <1>3, ElementOfSeq
  <2>2. Len(Spaced(words[i])) = 1 + Len(words[i]) /\ Len(words[i]) \in Nat
    <3>1. <<Space>> \in Texts /\ Len(<<Space>>) = 1
      BY TextOne DEF Space, Symbol
    <3>. HIDE DEF Space
    <3>2. Len(<<Space>> \o words[i]) = Len(<<Space>>) + Len(words[i]) /\ Len(words[i]) \in Nat
      BY <2>1, <3>1, TextParts
    <3>. QED
      BY <3>1, <3>2 DEF Spaced
  <2>3. place[i] = place[i - 1] + Len(Spaced(words[i])) /\ place[i - 1] \in 2 .. Len(line)
    <3>1. i \in 1 .. Len(words) /\ i - 1 \in 0 .. Len(words)
      BY <1>3
    <3>. QED
      BY <1>1, <3>1 DEF PlacedIn
  <2>. DEFINE x == Len(words[i])
              y == place[i - 1]
              z == Len(Spaced(words[i]))
  <2>4. y \in Nat
    BY <2>3
  <2>5. place[i] = y + z /\ z = 1 + x /\ x \in Nat
    BY <2>2, <2>3
  <2>. HIDE DEF x, y, z
  <2>6. place[i] = y + 1 + x /\ y \in Nat /\ x \in Nat
    BY <2>4, <2>5
  <2>. QED
    BY <2>6 DEF x, y
<1>7. place[0] = 2 /\ place[4] = l /\ l \in Nat
  <2>1. line \in Texts
    BY LineIs DEF line
  <2>. QED
    BY <1>1, <1>3, <2>1 DEF PlacedIn, l, Texts
<1>. DEFINE x1 == Len(words[1])
            x2 == Len(words[2])
            x3 == Len(words[3])
            x4 == Len(words[4])
<1>8. /\ place[1] = 2 + 1 + x1 /\ place[2] = place[1] + 1 + x2
      /\ place[3] = place[2] + 1 + x3 /\ l = place[3] + 1 + x4
      /\ x1 \in Nat /\ x2 \in Nat /\ x3 \in Nat /\ x4 \in Nat
  <2>1. 1 - 1 = 0 /\ 2 - 1 = 1 /\ 3 - 1 = 2 /\ 4 - 1 = 3 /\ 1 \in 1 .. 4 /\ 2 \in 1 .. 4 /\ 3 \in 1 .. 4 /\ 4 \in 1 .. 4
    OBVIOUS
  <2>2. place[1] = place[0] + 1 + Len(words[1]) /\ Len(words[1]) \in Nat
    BY <1>6, <2>1
  <2>3. place[2] = place[1] + 1 + Len(words[2]) /\ Len(words[2]) \in Nat
    BY <1>6, <2>1
  <2>4. place[3] = place[2] + 1 + Len(words[3]) /\ Len(words[3]) \in Nat
    BY <1>6, <2>1
  <2>5. place[4] = place[3] + 1 + Len(words[4]) /\ Len(words[4]) \in Nat
    BY <1>6, <2>1
  <2>. QED
    BY <1>7, <2>2, <2>3, <2>4, <2>5
<1>9. x2 >= v + 2 /\ v \in Nat
  BY <1>5
<1>. HIDE DEF x1, x2, x3, x4, v
<1>10. l >= v + 7
  BY <1>8, <1>9
<1>. QED
  BY <1>7, <1>9, <1>10 DEF l, v, line

-----------------------------------------------------------------------------
(* What is on the way: the inductive invariant.                              *)

\* What has been sent and not handled.
Coming == buf \o stream

\* A text of which an answer is never too long, and an answer that is not too long unless
\* it lists keys.
Short(text) == Len(text) + 5 <= BufSize
Fitting(answer) == answer.text \in KeyLists \/ Short(answer.text)

\* Types, as the actions keep them.
Basics ==
    /\ program \in Programs /\ made \in 0 .. MaxCalls[program] /\ waiting \in 0 .. made
    /\ Received /\ Len(buf) < BufSize - 1
    /\ mode \in {"select", "handle", "closed"}
    /\ store \in [Names -> Values]
    /\ replies \in Bytes /\ inStep \in BOOLEAN /\ owed \in Seq(AllAnswers)

\* Whole lines are on their way, and they are the calls in flight.
OnTheWay ==
    /\ Whole(Coming) /\ flight = CallsIn[Coming]
    /\ flight \in Seq(AllCalls \cup {Malformed})
    /\ mode = "closed" => Coming = <<>>

\* A program that does not wait for its answers waits for as many as come at most.
Counted ==
    program /= "client" =>
        /\ inStep
        /\ owed = <<>> <=> replies = <<>>
        /\ Len(owed) + Len(flight) <= waiting

\* Why a connection may be closed.
Fault == made > 0 /\ (last.op = Tok_stop \/ ~Speakable(last) \/ ~Fits(last))

\* A client in step waits for nothing, or its one call is on its way, whole, or the one
\* answer is; nothing else is.
Idle ==
    /\ Coming = <<>> /\ owed = <<>> /\ replies = <<>>
    /\ waiting = 0 \/ mode = "closed"
    /\ mode = "closed" => Fault

Asked ==
    /\ Coming = Line(last) /\ made > 0 /\ mode /= "closed" /\ waiting = 1
    /\ owed = <<>> /\ replies = <<>>

Answered ==
    /\ Coming = <<>> /\ made > 0 /\ waiting = 1
    /\ \E answer \in AllAnswers :
          owed = <<answer>> /\ replies = Reply(answer) /\ Fitting(answer)
    /\ Speakable(last) /\ Fits(last)
    /\ mode = "closed" => last.op = Tok_stop

TurnByTurn ==
    program = "client" /\ inStep =>
        /\ made > 0 => last \in ClientCalls
        /\ \A n \in Names : Short(store[n])
        /\ Idle \/ Asked \/ Answered

WireInv == Basics /\ OnTheWay /\ Counted /\ TurnByTurn

\* With nothing on its way there are no calls either.
LEMMA NothingComing ==
    <<>> \o <<>> = <<>> /\ <<>> \in Texts /\ CallsIn[<<>>] = <<>> /\ Whole(<<>>)
BY CallsOfNothing, TextOne

\* What has arrived comes before what has not.
LEMMA ComingText ==
    ASSUME Received
    PROVE  /\ Coming \in Texts /\ Len(buf) \in Nat /\ Len(stream) \in Nat
           /\ Len(Coming) = Len(buf) + Len(stream)
           /\ \A i \in 1 .. Len(buf) : Coming[i] = buf[i]
           /\ stream /= <<>> => Coming /= <<>>
<1>1. /\ Coming \in Texts /\ Len(buf) \in Nat /\ Len(stream) \in Nat
      /\ Len(Coming) = Len(buf) + Len(stream)
      /\ \A i \in 1 .. Len(buf) : Coming[i] = buf[i]
  BY TextParts DEF Received, Coming
<1>2. ASSUME stream /= <<>>
      PROVE  Coming /= <<>>
  <2>1. Len(stream) > 0
    BY <1>2 DEF Received, Texts
  <2>. DEFINE l == Len(Coming)
              a == Len(buf)
              b == Len(stream)
  <2>2. l = a + b /\ a \in Nat /\ b \in Nat /\ b > 0
    BY <1>1, <2>1
  <2>. HIDE DEF l, a, b
  <2>3. l /= 0
    BY <2>2
  <2>. QED
    BY <2>3 DEF l
<1>. QED
  BY <1>1, <1>2

\* A step that leaves what is on the way alone.
LEMMA SameFlight ==
    ASSUME OnTheWay, Recorded, Coming' = Coming
    PROVE  flight' = flight
BY DEF OnTheWay, Recorded, Coming

\* A line more on the way is a call more.
LEMMA SaidFlight ==
    ASSUME Basics, OnTheWay, NEW line, Say(line), IsLine(line), Recorded
    PROVE  /\ Coming' = Coming \o line /\ Whole(Coming')
           /\ flight' = CallsIn[Coming'] /\ flight' = Append(flight, Parsed(line))
<1>1. buf' = buf /\ stream' = stream \o line
  BY DEF Say
<1>2. buf \in Texts /\ stream \in Texts /\ line \in Texts
  BY DEF Basics, Received, IsLine
<1>3. Coming' = Coming \o line
  <2>1. (buf \o stream) \o line = buf \o (stream \o line)
    BY <1>2, TextJoins
  <2>2. Coming' = buf \o (stream \o line)
    BY <1>1 DEF Coming
  <2>. QED
    BY <2>1, <2>2 DEF Coming
<1>4. CallsIn[Coming \o line] = Append(CallsIn[Coming], Parsed(line)) /\ Whole(Coming \o line)
  BY OneMoreCall DEF OnTheWay
<1>5. flight' = CallsIn[Coming'] /\ flight = CallsIn[Coming]
  BY DEF Recorded, Coming, OnTheWay
<1>. QED
  BY <1>3, <1>4, <1>5

\* The line that is complete is the first one of those on the way.
LEMMA FirstFlight ==
    ASSUME Received, Whole(Coming), flight = CallsIn[Coming], EndOfLine /= 0,
           NEW rest, rest = After(buf, EndOfLine) \o stream
    PROVE  /\ EndOfLine \in 1 .. Len(buf) /\ IndexOf(Coming, Newline) = EndOfLine
           /\ FirstLine \in Texts /\ rest \in Texts /\ Whole(rest)
           /\ After(buf, EndOfLine) \in Texts /\ Len(After(buf, EndOfLine)) <= Len(buf)
           /\ FirstLine \o rest = Coming /\ FirstOf(Coming, EndOfLine) = FirstLine
           /\ flight = <<Parsed(FirstLine)>> \o CallsIn[rest]
           /\ CallsIn[rest] \in Seq(ParsedLines) /\ Parsed(FirstLine) \in ParsedLines
<1>. DEFINE end == EndOfLine
            r == After(buf, end)
            f == FirstLine
<1>1. buf \in Texts /\ stream \in Texts
  BY DEF Received
<1>2. /\ end \in 1 .. Len(buf) /\ f \in Texts /\ r \in Texts /\ f \o r = buf
      /\ Len(r) < Len(buf) /\ Len(r) \in Nat /\ Len(buf) \in Nat /\ Parsed(f) \in ParsedLines
  <2>1. end = IndexOf(buf, Newline) /\ f = FirstOf(buf, end)
    BY DEF EndOfLine, FirstLine
  <2>. HIDE DEF end, f
  <2>2. end /= 0
    BY DEF end
  <2>. QED
    BY <1>1, <2>1, <2>2, CutLine
<1>3. Len(f) = end
  <2>1. end \in 0 .. Len(buf) /\ f = FirstOf(buf, end)
    BY <1>2 DEF FirstLine
  <2>. HIDE DEF end, f
  <2>. QED
    BY <1>1, <2>1, TextCut
<1>. HIDE DEF f, r, end
<1>4. rest = r \o stream /\ rest \in Texts
  BY <1>1, <1>2, TextJoin DEF r, end
<1>5. Coming = f \o rest
  <2>1. (f \o r) \o stream = f \o (r \o stream)
    BY <1>1, <1>2, TextJoins
  <2>. QED
    BY <1>2, <1>4, <2>1 DEF Coming
<1>6. FirstOf(Coming, end) = f /\ After(Coming, end) = rest
  BY <1>2, <1>3, <1>4, <1>5, CutIs DEF Texts
<1>7. IndexOf(Coming, Newline) = end
  <2>1. /\ Coming \in Texts /\ Len(Coming) = Len(buf) + Len(stream) /\ Len(stream) \in Nat
        /\ \A i \in 1 .. Len(buf) : Coming[i] = buf[i]
    BY ComingText
  <2>2. end = IndexOf(buf, Newline)
    BY DEF end, EndOfLine
  <2>3. buf[end] = Newline /\ \A i \in 1 .. end - 1 : buf[i] /= Newline
    <3>1. /\ IndexOf(buf, Newline) > 0 => buf[IndexOf(buf, Newline)] = Newline
          /\ \A i \in 1 .. IndexOf(buf, Newline) - 1 : buf[i] /= Newline
      BY <1>1, FirstPlace DEF Texts
    <3>2. end > 0
      BY <1>2
    <3>. QED
      BY <2>2, <3>1, <3>2
  <2>4. end \in 1 .. Len(Coming) /\ Coming[end] = Newline /\ \A i \in 1 .. end - 1 : Coming[i] /= Newline
    <3>1. end \in 1 .. Len(Coming) /\ \A i \in 1 .. end - 1 : i \in 1 .. Len(buf)
      BY <1>2, <2>1
    <3>. QED
      BY <1>2, <2>1, <2>3, <3>1
  <2>. QED
    BY <2>1, <2>4, FirstPlaceIs DEF Texts
<1>8. CallsIn[Coming] = <<Parsed(f)>> \o CallsIn[rest]
  <2>1. Coming \in Texts /\ end /= 0
    BY <1>2, ComingText
  <2>. QED
    BY <1>6, <1>7, <2>1, CallsUnfold DEF NextCalls
<1>9. Whole(rest)
  <2>1. ASSUME rest /= <<>>
        PROVE  rest[Len(rest)] = Newline
    <3>. DEFINE n == Len(Coming)
                l == Len(rest)
    <3>1. end \in 0 .. n /\ Coming \in Texts /\ n \in Nat
      <4>1. n = Len(buf) + Len(stream) /\ Len(stream) \in Nat /\ Coming \in Texts
        BY ComingText
      <4>. HIDE DEF n
      <4>. QED
        BY <1>2, <4>1
    <3>2. /\ l = n - end /\ \A i \in 1 .. n - end : rest[i] = Coming[end + i]
      BY <1>6, <3>1, TextCut
    <3>3. l > 0
      BY <1>4, <2>1 DEF Texts
    <3>4. n - end \in 1 .. n - end /\ end + (n - end) = n /\ l = n - end /\ n /= 0
      <4>. HIDE DEF n, l
      <4>. QED
        BY <3>1, <3>2, <3>3
    <3>5. rest[n - end] = Coming[n]
      BY <3>2, <3>4
    <3>6. Coming /= <<>>
      BY <3>4
    <3>. QED
      BY <3>4, <3>5, <3>6 DEF Whole
  <2>. QED
    BY <1>4, <2>1 DEF Whole
<1>10. CallsIn[rest] \in Seq(ParsedLines)
  BY <1>4, CallsUnfold
<1>. QED
  BY <1>2, <1>4, <1>5, <1>6, <1>7, <1>8, <1>9, <1>10 DEF f, r, end

-----------------------------------------------------------------------------
(* The program keeps it.                                                     *)

\* At first nothing is on its way.
LEMMA InitWire ==
    ASSUME Init
    PROVE  WireInv
<1>1. BufSize \in Nat /\ BufSize >= 5 /\ MaxCalls \in [Programs -> Nat]
  BY WireAssumption
<1>2. Received
  BY InitReceived
<1>3. Coming = <<>> /\ made = 0 /\ waiting = 0 /\ mode = "select" /\ flight = <<>> /\ owed = <<>> /\ replies = <<>>
  BY DEF Init, Coming
<1>4. store \in [Names -> Values] /\ \A n \in Names : store[n] = <<>>
  <2>1. <<>> \in Values
    BY DEF Values
  <2>. QED
    BY <2>1 DEF Init
<1>5. Basics
  <2>1. MaxCalls[program] \in Nat /\ program \in Programs
    BY <1>1 DEF Init
  <2>2. Len(buf) = 0 /\ 0 < BufSize - 1
    BY <1>1 DEF Init
  <2>3. replies \in Bytes /\ inStep \in BOOLEAN /\ owed \in Seq(AllAnswers)
    BY Empty DEF Init
  <2>4. made \in 0 .. MaxCalls[program] /\ waiting \in 0 .. made
    BY <1>3, <2>1
  <2>. QED
    BY <1>2, <1>3, <1>4, <2>1, <2>2, <2>3, <2>4 DEF Basics
<1>6. OnTheWay
  BY <1>3, NothingComing DEF OnTheWay
<1>7. Counted
  BY <1>3 DEF Counted, Init
<1>8. TurnByTurn
  <2>1. \A n \in Names : Short(store[n])
    <3>1. Short(<<>>)
      BY <1>1 DEF Short
    <3>. QED
      BY <1>4, <3>1
  <2>2. Idle
    BY <1>3 DEF Idle
  <2>. QED
    BY <1>3, <2>1, <2>2 DEF TurnByTurn
<1>. QED
  BY <1>5, <1>6, <1>7, <1>8 DEF WireInv

\* A line more is a call more that waits.
LEMMA SayWire ==
    ASSUME WireInv, NEW line, Say(line), IsLine(line), Parsed(line) \in AllCalls \cup {Malformed}, Recorded
    PROVE  Basics' /\ OnTheWay' /\ Counted'
<1>1. /\ mode /= "closed" /\ made < MaxCalls[program]
      /\ stream' = stream \o line /\ made' = made + 1 /\ waiting' = waiting + 1
      /\ program' = program /\ buf' = buf /\ mode' = mode /\ store' = store
      /\ replies' = replies /\ owed' = owed /\ inStep' = inStep
  BY DEF Say
<1>2. MaxCalls[program] \in Nat /\ made \in Nat /\ waiting \in Nat /\ waiting <= made
  BY WireAssumption DEF WireInv, Basics
<1>3. Received'
  BY <1>1, TextJoin DEF WireInv, Basics, Received, IsLine
<1>4. Basics'
  <2>1. made' \in 0 .. MaxCalls[program] /\ waiting' \in 0 .. made'
    BY <1>1, <1>2
  <2>. QED
    BY <1>1, <1>3, <2>1 DEF WireInv, Basics
<1>5. /\ Coming' = Coming \o line /\ Whole(Coming')
      /\ flight' = CallsIn[Coming'] /\ flight' = Append(flight, Parsed(line))
  BY SaidFlight DEF WireInv
<1>6. flight \in Seq(AllCalls \cup {Malformed})
  BY DEF WireInv, OnTheWay
<1>7. /\ flight' \in Seq(AllCalls \cup {Malformed})
      /\ Len(flight') = Len(flight) + 1 /\ Len(flight) \in Nat
  BY <1>5, <1>6, AppendProperties
<1>8. OnTheWay'
  BY <1>1, <1>5, <1>7 DEF OnTheWay
<1>9. Counted'
  <2>1. ASSUME program /= "client"
        PROVE  Len(owed) + (Len(flight) + 1) <= waiting + 1
    <3>1. Len(owed) + Len(flight) <= waiting /\ Len(owed) \in Nat
      BY <2>1 DEF WireInv, Counted, Basics
    <3>. DEFINE a == Len(owed)
                b == Len(flight)
    <3>. HIDE DEF a, b
    <3>2. a + b <= waiting /\ a \in Nat /\ b \in Nat
      BY <1>7, <3>1 DEF a, b
    <3>3. a + (b + 1) <= waiting + 1
      BY <1>2, <3>2
    <3>. QED
      BY <3>3 DEF a, b
  <2>. QED
    BY <1>1, <1>7, <2>1 DEF WireInv, Counted
<1>. QED
  BY <1>4, <1>8, <1>9

\* A client that waits for nothing calls.
LEMMA CallWire ==
    ASSUME WireInv, NEW call \in ClientCalls, Call(call), Recorded
    PROVE  WireInv'
<1>1. /\ IsLine(Line(call)) /\ Parsed(Line(call)) \in AllCalls \cup {Malformed}
      /\ Say(Line(call)) /\ last' = call
  BY CallParsed DEF Call
<1>2. Basics' /\ OnTheWay' /\ Counted'
  BY <1>1, SayWire
<1>3. ASSUME program = "client", inStep
      PROVE  last' \in ClientCalls /\ (\A n \in Names : Short(store'[n])) /\ Asked'
  <2>1. waiting < 1
    BY <1>3 DEF Call
  <2>2. /\ mode /= "closed" /\ made' = made + 1 /\ waiting' = waiting + 1
        /\ mode' = mode /\ store' = store /\ replies' = replies /\ owed' = owed
    BY <1>1 DEF Say
  <2>3. Idle /\ \A n \in Names : Short(store[n])
    BY <1>3, <2>1 DEF WireInv, TurnByTurn, Asked, Answered
  <2>4. Coming' = Coming \o Line(call) /\ Coming = <<>>
    BY <1>1, <2>3, SaidFlight DEF WireInv, Idle
  <2>5. Coming' = Line(last')
    BY <1>1, <2>4, ConcatEmptySeq DEF IsLine, Texts
  <2>6. waiting = 0 /\ made \in Nat
    BY <2>2, <2>3 DEF Idle, WireInv, Basics
  <2>7. waiting' = 1 /\ made' > 0
    BY <2>2, <2>6
  <2>8. Asked'
    BY <2>2, <2>3, <2>5, <2>7 DEF Asked, Idle
  <2>. QED
    BY <1>1, <2>2, <2>3, <2>8
<1>4. program' = program /\ inStep' = inStep
  BY <1>1 DEF Say
<1>5. TurnByTurn'
  BY <1>3, <1>4 DEF TurnByTurn
<1>. QED
  BY <1>2, <1>5 DEF WireInv

\* A stranger says something.
LEMMA SayRawWire ==
    ASSUME WireInv, program = "stranger", NEW line \in RawLines, SayRaw(line), Recorded
    PROVE  WireInv'
<1>1. IsLine(line) /\ Parsed(line) \in AllCalls /\ Say(line)
  BY RawParsed DEF SayRaw
<1>2. Basics' /\ OnTheWay' /\ Counted'
  BY <1>1, SayWire
<1>3. program' /= "client"
  BY <1>1 DEF Say
<1>4. TurnByTurn'
  BY <1>3 DEF TurnByTurn
<1>. QED
  BY <1>2, <1>4 DEF WireInv

\* An answer, of which there is only one, and which is not too long, is read at once.
LEMMA ReplyRead ==
    ASSUME NEW answer \in AllAnswers, Readable(answer)
    PROVE  /\ FirstOf(Reply(answer), BufSize - 1) = Reply(answer)
           /\ After(Reply(answer), BufSize - 1) = <<>>
           /\ Reading(Reply(answer)) = answer
<1>. DEFINE r == Reply(answer)
            n == BufSize - 1
<1>1. IsAnswer(answer)
  BY AnswersAre
<1>2. r \in Bytes
  BY <1>1, ReplyIs DEF EndsWell
<1>3. Len(r) < BufSize /\ Nul \notin ToSet(answer.text)
  BY DEF Readable
<1>4. Reading(r) = answer
  BY <1>1, <1>3, ReadBack
<1>. HIDE DEF r
<1>5. Len(r) \in Nat /\ n \in Nat /\ Len(r) <= n
  BY <1>2, <1>3, WireAssumption DEF Bytes
<1>6. FirstOf(r, n) = SubSeq(r, 1, Len(r))
  <2>1. (IF n < Len(r) THEN n ELSE Len(r)) = Len(r)
    BY <1>5
  <2>. QED
    BY <2>1 DEF FirstOf
<1>7. SubSeq(r, 1, Len(r)) = r
  BY <1>2, SubSeqFull DEF Bytes
<1>8. After(r, n) = <<>>
  <2>1. n + 1 > Len(r) /\ n + 1 \in Int
    BY <1>5
  <2>2. SubSeq(r, n + 1, Len(r)) = <<>>
    BY <1>2, <1>5, <2>1, SubSeqEmpty DEF Bytes
  <2>. QED
    BY <2>2 DEF After
<1>. QED
  BY <1>4, <1>6, <1>7, <1>8 DEF r

\* An answer that is readable is the only one, and leaves nothing behind.
LEMMA ReturnWire ==
    ASSUME WireInv, Return, Recorded
    PROVE  WireInv'
<1>1. /\ program = "client" /\ waiting > 0 /\ replies /= <<>>
      /\ replies' = After(replies, BufSize - 1) /\ waiting' = waiting - 1
      /\ inStep' = (inStep /\ owed /= <<>> /\ Readable(Head(owed)))
      /\ owed' = IF owed = <<>> THEN owed ELSE Tail(owed)
      /\ program' = program /\ made' = made /\ last' = last /\ stream' = stream /\ buf' = buf
      /\ mode' = mode /\ store' = store
  BY DEF Return, callerVars, inVars
<1>2. Coming' = Coming
  BY <1>1 DEF Coming
<1>3. Basics'
  <2>1. waiting' \in 0 .. made
    BY <1>1 DEF WireInv, Basics
  <2>2. Received'
    BY <1>1 DEF WireInv, Basics, Received
  <2>3. replies' \in Bytes
    <3>1. replies \in Seq(0 .. 255) /\ Len(replies) \in Nat /\ BufSize - 1 \in Nat
      BY WireAssumption DEF WireInv, Basics, Bytes
    <3>2. \A i \in BufSize - 1 + 1 .. Len(replies) : replies[i] \in 0 .. 255
      <4>1. \A i \in BufSize - 1 + 1 .. Len(replies) : i \in 1 .. Len(replies)
        BY <3>1
      <4>. QED
        BY <3>1, <4>1, ElementOfSeq
    <3>3. SubSeq(replies, BufSize - 1 + 1, Len(replies)) \in Seq(0 .. 255)
      BY <3>1, <3>2, SubSeqProperties
    <3>. QED
      BY <1>1, <3>3 DEF After, Bytes
  <2>4. inStep' \in BOOLEAN
    BY <1>1
  <2>5. owed' \in Seq(AllAnswers)
    <3>1. owed \in Seq(AllAnswers)
      BY DEF WireInv, Basics
    <3>2. owed /= <<>> => Tail(owed) \in Seq(AllAnswers)
      BY <3>1, HeadTailProperties
    <3>. QED
      BY <1>1, <3>1, <3>2
  <2>. QED
    BY <1>1, <2>1, <2>2, <2>3, <2>4, <2>5 DEF WireInv, Basics
<1>4. OnTheWay'
  BY <1>1, <1>2, SameFlight DEF WireInv, OnTheWay
<1>5. Counted'
  BY <1>1 DEF Counted
<1>6. TurnByTurn'
  <2>. SUFFICES ASSUME inStep'
                PROVE  (made > 0 => last \in ClientCalls) /\ (\A n \in Names : Short(store[n])) /\ Idle'
    BY <1>1 DEF TurnByTurn
  <2>1. inStep /\ owed /= <<>> /\ Readable(Head(owed))
    BY <1>1
  <2>2. Answered /\ (made > 0 => last \in ClientCalls) /\ (\A n \in Names : Short(store[n]))
    BY <1>1, <2>1 DEF WireInv, TurnByTurn, Idle, Asked
  <2>3. PICK answer \in AllAnswers : owed = <<answer>> /\ replies = Reply(answer)
    BY <2>2 DEF Answered
  <2>4. Head(owed) = answer /\ Tail(owed) = <<>>
    BY <2>3
  <2>5. After(Reply(answer), BufSize - 1) = <<>>
    BY <2>1, <2>4, ReplyRead
  <2>6. replies' = <<>> /\ owed' = <<>>
    BY <1>1, <2>1, <2>3, <2>4, <2>5
  <2>7. waiting' = 0
    BY <1>1, <2>2 DEF Answered
  <2>8. Coming' = <<>>
    BY <1>2, <2>2 DEF Answered
  <2>9. mode' = "closed" => Fault'
    BY <1>1, <2>2 DEF Answered, Fault
  <2>10. Idle'
    BY <2>6, <2>7, <2>8, <2>9 DEF Idle
  <2>. QED
    BY <2>2, <2>10
<1>. QED
  BY <1>3, <1>4, <1>5, <1>6 DEF WireInv

\* Nothing is left to be read.
LEMMA EndOfFileWire ==
    ASSUME WireInv, EndOfFile, Recorded
    PROVE  WireInv'
<1>1. /\ waiting > 0 /\ replies = <<>> /\ mode = "closed" /\ waiting' = 0
      /\ program' = program /\ made' = made /\ last' = last /\ stream' = stream /\ buf' = buf
      /\ mode' = mode /\ store' = store /\ replies' = replies /\ owed' = owed /\ inStep' = inStep
  BY DEF EndOfFile, callerVars, inVars
<1>2. Coming' = Coming /\ Coming = <<>>
  BY <1>1 DEF Coming, WireInv, OnTheWay
<1>3. Basics'
  <2>1. waiting' \in 0 .. made
    BY <1>1 DEF WireInv, Basics
  <2>2. Received'
    BY <1>1 DEF WireInv, Basics, Received
  <2>. QED
    BY <1>1, <2>1, <2>2 DEF WireInv, Basics
<1>4. flight' = flight /\ flight = <<>>
  BY <1>2, SameFlight, NothingComing DEF WireInv, OnTheWay
<1>5. OnTheWay'
  BY <1>1, <1>2, <1>4 DEF WireInv, OnTheWay
<1>6. Counted'
  <2>1. program /= "client" => owed = <<>>
    BY <1>1 DEF WireInv, Counted
  <2>2. Len(<<>>) + Len(<<>>) <= 0
    OBVIOUS
  <2>. QED
    BY <1>1, <1>4, <2>1, <2>2 DEF WireInv, Counted
<1>7. TurnByTurn'
  <2>. SUFFICES ASSUME program = "client", inStep
                PROVE  (made > 0 => last \in ClientCalls) /\ (\A n \in Names : Short(store[n])) /\ Idle'
    BY <1>1 DEF TurnByTurn
  <2>1. \A answer \in AllAnswers : Reply(answer) /= <<>>
    BY AnswersAre, ReplyIs DEF EndsWell
  <2>2. (made > 0 => last \in ClientCalls) /\ (\A n \in Names : Short(store[n])) /\ Idle
    BY <1>1, <2>1 DEF WireInv, TurnByTurn, Asked, Answered
  <2>3. Idle'
    BY <1>1, <1>2, <2>2 DEF Idle, Fault
  <2>. QED
    BY <2>2, <2>3
<1>. QED
  BY <1>3, <1>5, <1>6, <1>7 DEF WireInv

\* A pipeline reads what there is.
LEMMA DrainWire ==
    ASSUME WireInv, Drain, Recorded
    PROVE  WireInv'
<1>1. /\ program /= "client" /\ waiting' = waiting - Len(owed) /\ replies' = <<>> /\ owed' = <<>>
      /\ program' = program /\ made' = made /\ last' = last /\ stream' = stream /\ buf' = buf
      /\ mode' = mode /\ store' = store /\ inStep' = inStep
  BY DEF Drain, callerVars, inVars
<1>2. Coming' = Coming
  BY <1>1 DEF Coming
<1>3. flight' = flight
  BY <1>2, SameFlight DEF WireInv
<1>4. waiting' \in 0 .. made /\ 0 + Len(flight') <= waiting'
  <2>. DEFINE a == Len(owed)
              b == Len(flight)
  <2>1. a \in Nat /\ b \in Nat /\ waiting \in 0 .. made /\ made \in Nat
    BY DEF WireInv, Basics, OnTheWay
  <2>2. a + b <= waiting /\ waiting' = waiting - a /\ Len(flight') = b
    BY <1>1, <1>3 DEF WireInv, Counted
  <2>. HIDE DEF a, b
  <2>. QED
    BY <2>1, <2>2
<1>5. Basics'
  <2>1. Received'
    BY <1>1 DEF WireInv, Basics, Received
  <2>. QED
    BY <1>1, <1>4, <2>1, Empty DEF WireInv, Basics
<1>6. OnTheWay'
  BY <1>1, <1>2, <1>3 DEF WireInv, OnTheWay
<1>7. Counted'
  BY <1>1, <1>4 DEF WireInv, Counted
<1>8. TurnByTurn'
  BY <1>1 DEF TurnByTurn
<1>. QED
  BY <1>5, <1>6, <1>7, <1>8 DEF WireInv

-----------------------------------------------------------------------------
(* The daemon keeps it.                                                      *)

\* What recv() does with the bytes: none is lost unless the buffer is full.
LEMMA RecvIs ==
    ASSUME Basics, Recv
    PROVE  /\ mode = "select" /\ stream /= <<>> /\ Received'
           /\ \/ /\ mode' = "closed" /\ Coming' = <<>> /\ Len(buf') < BufSize - 1
                 /\ Len(Coming) >= BufSize - 1
              \/ /\ mode' = "handle" /\ Coming' = Coming /\ Len(buf') < BufSize - 1
<1>1. /\ buf \in Texts /\ stream \in Texts /\ Len(buf) < BufSize - 1
      /\ Len(buf) \in Nat /\ Len(stream) \in Nat /\ BufSize \in Nat
      /\ Len(Coming) = Len(buf) + Len(stream)
  BY WireAssumption, ComingText DEF Basics, Received
<1>2. PICK n \in 1 .. Len(FirstOf(stream, Room)) :
         IF TooLong(buf \o FirstOf(stream, n))
         THEN mode' = "closed" /\ stream' = <<>> /\ buf' = <<>>
         ELSE mode' = "handle" /\ stream' = After(stream, n) /\ buf' = buf \o FirstOf(stream, n)
  BY DEF Recv
<1>3. n \in 1 .. Len(stream) /\ Len(buf) + n <= BufSize - 1
  <2>. DEFINE l == Len(stream)
              b == Len(buf)
              m == IF Room < l THEN Room ELSE l
  <2>1. Room \in Nat /\ Room = BufSize - 1 - b
    BY <1>1 DEF Room
  <2>2. m \in 0 .. l /\ m <= Room /\ b \in Nat /\ l \in Nat
    <3>1. l \in Nat /\ b \in Nat
      BY <1>1
    <3>. HIDE DEF l, b
    <3>. QED
      BY <2>1, <3>1
  <2>3. FirstOf(stream, Room) = FirstOf(stream, m)
    BY <2>2 DEF FirstOf
  <2>4. Len(FirstOf(stream, m)) = m
    <3>. HIDE DEF m
    <3>. QED
      BY <1>1, <2>2, TextCut
  <2>5. n \in 1 .. m
    BY <1>2, <2>3, <2>4
  <2>6. n \in 1 .. l /\ b + n <= BufSize - 1
    <3>. HIDE DEF m, l, b
    <3>. QED
      BY <1>1, <2>1, <2>2, <2>5
  <2>. QED
    BY <2>6 DEF l, b
<1>. DEFINE f == FirstOf(stream, n)
            r == After(stream, n)
<1>4. f \in Texts /\ r \in Texts /\ Len(f) = n /\ f \o r = stream
  <2>1. n \in 0 .. Len(stream)
    BY <1>1, <1>3
  <2>. QED
    BY <1>1, <2>1, TextCut
<1>. HIDE DEF f, r
<1>5. buf \o f \in Texts /\ Len(buf \o f) = Len(buf) + n
  BY <1>1, <1>4, TextParts
<1>6. (buf \o f) \o r = Coming
  <2>1. (buf \o f) \o r = buf \o (f \o r)
    BY <1>1, <1>4, TextJoins
  <2>. QED
    BY <1>4, <2>1 DEF Coming
<1>7. mode = "select" /\ stream /= <<>>
  BY DEF Recv
<1>8. CASE TooLong(buf \o f)
  <2>1. Len(buf) + n = BufSize - 1
    BY <1>5, <1>8 DEF TooLong
  <2>2. Len(Coming) >= BufSize - 1
    <3>. DEFINE b == Len(buf)
                l == Len(stream)
                c == Len(Coming)
    <3>1. b \in Nat /\ l \in Nat /\ c = b + l /\ b + n = BufSize - 1 /\ n \in 1 .. l /\ BufSize \in Nat
      BY <1>1, <1>3, <2>1
    <3>2. c >= BufSize - 1
      <4>. HIDE DEF b, l, c
      <4>. QED
        BY <3>1
    <3>. QED
      BY <3>2 DEF c
  <2>3. mode' = "closed" /\ stream' = <<>> /\ buf' = <<>>
    BY <1>2, <1>8 DEF f
  <2>4. Len(buf') < BufSize - 1
    BY <2>3, WireAssumption
  <2>. QED
    BY <1>7, <2>2, <2>3, <2>4, NothingComing DEF Coming, Received
<1>9. CASE ~TooLong(buf \o f)
  <2>1. mode' = "handle" /\ stream' = r /\ buf' = buf \o f
    BY <1>2, <1>9 DEF f, r
  <2>2. Len(buf') < BufSize - 1
    <3>. DEFINE b == Len(buf)
    <3>1. b + n /= BufSize - 1 /\ b + n <= BufSize - 1 /\ b \in Nat /\ n \in Nat
      BY <1>1, <1>3, <1>5, <1>9 DEF TooLong
    <3>2. b + n < BufSize - 1
      <4>. HIDE DEF b
      <4>. QED
        BY <1>1, <3>1
    <3>. QED
      BY <1>5, <2>1, <3>2 DEF b
  <2>. QED
    BY <1>4, <1>5, <1>6, <1>7, <2>1, <2>2 DEF Coming, Received
<1>. QED
  BY <1>8, <1>9

\* Only a line that does not fit fills the buffer of a client.
LEMMA RecvWire ==
    ASSUME WireInv, Recv, Recorded
    PROVE  WireInv'
<1>1. /\ mode = "select" /\ stream /= <<>> /\ Received'
      /\ \/ /\ mode' = "closed" /\ Coming' = <<>> /\ Len(buf') < BufSize - 1
            /\ Len(Coming) >= BufSize - 1
         \/ /\ mode' = "handle" /\ Coming' = Coming /\ Len(buf') < BufSize - 1
  BY RecvIs DEF WireInv
<1>2. /\ program' = program /\ made' = made /\ last' = last /\ store' = store /\ waiting' = waiting
      /\ replies' = replies /\ owed' = owed /\ inStep' = inStep
  BY DEF Recv, callerVars, outVars
<1>3. Basics'
  BY <1>1, <1>2 DEF WireInv, Basics
<1>4. OnTheWay' /\ (flight' = <<>> \/ flight' = flight)
  <2>1. CASE Coming' = <<>>
    <3>1. flight' = <<>>
      BY <2>1, NothingComing DEF Recorded, Coming
    <3>. QED
      BY <2>1, <3>1, NothingComing DEF OnTheWay
  <2>2. CASE mode' = "handle" /\ Coming' = Coming
    BY <2>2, SameFlight DEF WireInv, OnTheWay
  <2>. QED
    BY <1>1, <2>1, <2>2
<1>5. Counted'
  <2>1. ASSUME program /= "client", flight' = <<>>
        PROVE  Len(owed) + Len(flight') <= waiting
    <3>. DEFINE a == Len(owed)
                b == Len(flight)
    <3>1. a + b <= waiting /\ a \in Nat /\ b \in Nat /\ waiting \in Nat
      BY <2>1 DEF WireInv, Counted, Basics, OnTheWay
    <3>2. Len(flight') = 0
      BY <2>1
    <3>3. a + 0 <= waiting
      <4>. HIDE DEF a, b
      <4>. QED
        BY <3>1
    <3>. QED
      BY <3>2, <3>3
  <2>. QED
    BY <1>2, <1>4, <2>1 DEF WireInv, Counted
<1>6. TurnByTurn'
  <2>. SUFFICES ASSUME program = "client", inStep
                PROVE  (made > 0 => last \in ClientCalls) /\ (\A n \in Names : Short(store[n])) /\ (Idle' \/ Asked')
    BY <1>2 DEF TurnByTurn
  <2>1. Coming /= <<>>
    BY <1>1, ComingText DEF WireInv, Basics
  <2>2. Asked /\ (made > 0 => last \in ClientCalls) /\ (\A n \in Names : Short(store[n]))
    BY <2>1 DEF WireInv, TurnByTurn, Idle, Answered
  <2>3. CASE mode' = "closed" /\ Coming' = <<>> /\ Len(Coming) >= BufSize - 1
    <3>1. ~Fits(last)
      <4>. DEFINE c == Len(Coming)
      <4>1. c \in Nat /\ c >= BufSize - 1 /\ BufSize \in Nat /\ Coming = Line(last)
        BY <2>2, <2>3, ComingText, WireAssumption DEF WireInv, Basics, Asked
      <4>2. ~(c <= BufSize - 2)
        <5>. HIDE DEF c
        <5>. QED
          BY <4>1
      <4>. QED
        BY <4>1, <4>2 DEF Fits
    <3>2. Fault'
      BY <1>2, <2>2, <3>1 DEF Fault, Asked
    <3>. QED
      BY <1>2, <2>2, <2>3, <3>2 DEF Idle, Asked
  <2>4. CASE mode' = "handle" /\ Coming' = Coming
    BY <1>2, <2>2, <2>4 DEF Asked
  <2>. QED
    BY <1>1, <2>2, <2>3, <2>4
<1>. QED
  BY <1>3, <1>4, <1>5, <1>6 DEF WireInv

\* The daemon waits for more.
LEMMA HandledWire ==
    ASSUME WireInv, Handled, Recorded
    PROVE  WireInv'
<1>1. /\ mode = "handle" /\ mode' = "select" /\ buf' = buf /\ stream' = stream
      /\ program' = program /\ made' = made /\ last' = last /\ store' = store /\ waiting' = waiting
      /\ replies' = replies /\ owed' = owed /\ inStep' = inStep
  BY DEF Handled, callerVars, inVars, outVars
<1>2. Coming' = Coming
  BY <1>1 DEF Coming
<1>3. flight' = flight
  BY <1>2, SameFlight DEF WireInv
<1>4. Basics'
  <2>1. Received'
    BY <1>1 DEF WireInv, Basics, Received
  <2>. QED
    BY <1>1, <2>1 DEF WireInv, Basics
<1>5. OnTheWay'
  BY <1>1, <1>2, <1>3 DEF WireInv, OnTheWay
<1>6. Counted'
  BY <1>1, <1>3 DEF WireInv, Counted
<1>7. TurnByTurn'
  BY <1>1, <1>2 DEF WireInv, TurnByTurn, Idle, Asked, Answered
<1>. QED
  BY <1>4, <1>5, <1>6, <1>7 DEF WireInv

\* The first call on the way is the line that is complete; what the daemon then
\* does to the buffer leaves the calls behind it, or none.
LEMMA HeadFlight ==
    ASSUME Basics, OnTheWay, EndOfLine /= 0, Recorded
    PROVE  /\ flight \in Seq(AllCalls \cup {Malformed}) /\ flight /= <<>>
           /\ Head(flight) = Parsed(FirstLine) /\ Parsed(FirstLine) \in AllCalls \cup {Malformed}
           /\ Tail(flight) \in Seq(AllCalls \cup {Malformed})
           /\ Len(Tail(flight)) \in Nat /\ Len(flight) = Len(Tail(flight)) + 1
           /\ Coming /= <<>>
           /\ Close => /\ flight' = <<>> /\ Coming' = <<>> /\ mode' = "closed"
                       /\ Received' /\ Len(buf') < BufSize - 1 /\ OnTheWay'
           /\ Continue => /\ flight' = Tail(flight) /\ mode' = "handle"
                          /\ Coming' = After(buf, EndOfLine) \o stream
                          /\ Received' /\ Len(buf') < BufSize - 1 /\ OnTheWay'
<1>. DEFINE rest == After(buf, EndOfLine) \o stream
            call == Parsed(FirstLine)
            r == After(buf, EndOfLine)
<1>1. /\ rest \in Texts /\ Whole(rest) /\ r \in Texts /\ Len(r) <= Len(buf)
      /\ flight = <<call>> \o CallsIn[rest]
      /\ CallsIn[rest] \in Seq(ParsedLines) /\ call \in ParsedLines
  BY FirstFlight DEF Basics, OnTheWay
<1>2. flight \in Seq(AllCalls \cup {Malformed})
  BY DEF OnTheWay
<1>3. Len(buf) \in Nat /\ Len(r) \in Nat /\ Len(buf) < BufSize - 1 /\ BufSize \in Nat /\ stream \in Texts
  BY <1>1, ComingText, WireAssumption DEF Basics, Received, Texts
<1>. HIDE DEF rest, call
<1>4. flight /= <<>> /\ Head(flight) = call /\ Tail(flight) = CallsIn[rest]
  <2>. DEFINE tail == CallsIn[rest]
  <2>1. flight = <<call>> \o tail /\ tail \in Seq(ParsedLines) /\ call \in ParsedLines
    BY <1>1
  <2>. HIDE DEF tail
  <2>2. flight /= <<>> /\ Head(flight) = call /\ Tail(flight) = tail
    BY <2>1
  <2>. QED
    BY <2>2 DEF tail
<1>5. /\ call \in AllCalls \cup {Malformed} /\ Tail(flight) \in Seq(AllCalls \cup {Malformed})
      /\ Len(Tail(flight)) \in Nat /\ Len(flight) = Len(Tail(flight)) + 1
  <2>. DEFINE C == AllCalls \cup {Malformed}
  <2>. HIDE DEF C
  <2>1. flight \in Seq(C) /\ flight /= <<>>
    BY <1>2, <1>4 DEF C
  <2>2. /\ Head(flight) \in C /\ Tail(flight) \in Seq(C)
        /\ Len(Tail(flight)) \in Nat /\ Len(flight) = Len(Tail(flight)) + 1
    BY <2>1
  <2>. QED
    BY <1>4, <2>2 DEF C
<1>6. Coming /= <<>>
  BY <1>4, NothingComing DEF OnTheWay
<1>7. ASSUME Close
      PROVE  /\ flight' = <<>> /\ Coming' = <<>> /\ mode' = "closed"
             /\ Received' /\ Len(buf') < BufSize - 1 /\ OnTheWay'
  <2>1. buf' = <<>> /\ stream' = <<>> /\ mode' = "closed"
    BY <1>7 DEF Close
  <2>2. Coming' = <<>> /\ flight' = <<>>
    BY <2>1, NothingComing DEF Coming, Recorded
  <2>3. OnTheWay'
    BY <2>1, <2>2, NothingComing DEF OnTheWay
  <2>4. Len(buf') < BufSize - 1
    BY <2>1, WireAssumption
  <2>. QED
    BY <2>1, <2>2, <2>3, <2>4, NothingComing DEF Received
<1>8. ASSUME Continue
      PROVE  /\ flight' = Tail(flight) /\ mode' = "handle" /\ Coming' = rest
             /\ Received' /\ Len(buf') < BufSize - 1 /\ OnTheWay'
  <2>1. buf' = r /\ stream' = stream /\ mode' = "handle"
    BY <1>8 DEF Continue
  <2>2. Coming' = rest
    BY <2>1 DEF Coming, rest
  <2>3. flight' = CallsIn[rest]
    BY <2>2 DEF Coming, Recorded
  <2>4. OnTheWay'
    BY <1>1, <1>4, <1>5, <2>1, <2>2, <2>3 DEF OnTheWay
  <2>5. Len(buf') < BufSize - 1
    <3>. DEFINE b == Len(buf)
                c == Len(r)
    <3>1. c <= b /\ b < BufSize - 1 /\ b \in Nat /\ c \in Nat
      BY <1>1, <1>3
    <3>2. c < BufSize - 1
      <4>. HIDE DEF b, c
      <4>. QED
        BY <1>3, <3>1
    <3>. QED
      BY <2>1, <3>2 DEF c
  <2>6. Received'
    BY <1>1, <1>3, <2>1 DEF Received
  <2>. QED
    BY <1>4, <2>1, <2>2, <2>3, <2>4, <2>5, <2>6
<1>. QED
  BY <1>2, <1>4, <1>5, <1>6, <1>7, <1>8 DEF rest, call

\* A program that waits has sent one line, and it is all that comes.
LEMMA OnlyLine ==
    ASSUME Received, Whole(Coming), flight = CallsIn[Coming], EndOfLine /= 0,
           last \in ClientCalls, Coming = Line(last), Len(buf) < BufSize - 1
    PROVE  /\ Parsed(FirstLine) = IF Speakable(last) THEN last ELSE Malformed
           /\ After(buf, EndOfLine) \o stream = <<>>
           /\ Fits(last)
<1>. DEFINE rest == After(buf, EndOfLine) \o stream
            line == Line(last)
            end == EndOfLine
<1>1. /\ IsLine(line) /\ Parsed(line) = IF Speakable(last) THEN last ELSE Malformed
  BY CallParsed
<1>2. /\ end \in 1 .. Len(buf) /\ IndexOf(line, Newline) = end
      /\ FirstLine \in Texts /\ rest \in Texts
      /\ FirstLine \o rest = line /\ FirstOf(line, end) = FirstLine
  BY FirstFlight
<1>3. end = Len(line) /\ line \in Texts /\ Len(line) \in Nat
  BY <1>1, <1>2 DEF IsLine, Texts
<1>4. FirstLine = line
  <2>. HIDE DEF line, end
  <2>1. FirstOf(line, end) = SubSeq(line, 1, Len(line))
    BY <1>3 DEF FirstOf
  <2>2. SubSeq(line, 1, Len(line)) = line
    BY <1>3, SubSeqFull DEF Texts
  <2>. QED
    BY <1>2, <2>1, <2>2
<1>5. rest = <<>>
  <2>1. Len(FirstLine \o rest) = Len(FirstLine) + Len(rest) /\ Len(rest) \in Nat
    <3>. HIDE DEF rest
    <3>. QED
      BY <1>2, TextParts
  <2>. DEFINE a == Len(line)
              b == Len(rest)
  <2>2. a = a + b /\ a \in Nat /\ b \in Nat
    BY <1>2, <1>3, <1>4, <2>1
  <2>3. b = 0
    <3>. HIDE DEF a, b
    <3>. QED
      BY <2>2
  <2>. HIDE DEF rest
  <2>. QED
    BY <1>2, <2>3 DEF b, Texts
<1>6. Fits(last)
  <2>. DEFINE a == Len(line)
              b == Len(buf)
  <2>1. a \in 1 .. b /\ b < BufSize - 1 /\ b \in Nat /\ BufSize \in Nat
    BY <1>2, <1>3, ComingText, WireAssumption
  <2>2. a <= BufSize - 2
    <3>. HIDE DEF a, b
    <3>. QED
      BY <2>1
  <2>. QED
    BY <2>2 DEF a, Fits
<1>. QED
  BY <1>1, <1>4, <1>5, <1>6 DEF line

\* The answers to a call are some that the promise has, and fit if the store does.
LEMMA AnswersGiven ==
    ASSUME store \in [Names -> Values], NEW call \in AllCalls, NEW answer \in AnswersTo(call)
    PROVE  /\ answer \in AllAnswers
           /\ (\A n \in Names : Short(store[n])) => Fitting(answer)
<1>1. Short(<<>>)
  BY WireAssumption DEF Short
<1>2. Ok \in AllAnswers /\ No \in AllAnswers /\ Fitting(Ok) /\ Fitting(No)
  BY <1>1, AnswersAre DEF Fitting, Ok, No, Answer
<1>3. CASE call.op = Tok_get
  <2>1. call.strings[1] \in Names
    BY <1>3 DEF Names, Named
  <2>2. store[call.strings[1]] \in Values
    BY <2>1
  <2>3. answer = IF store[call.strings[1]] = <<>> THEN No ELSE Answer(TRUE, store[call.strings[1]])
    <3>1. AnswersTo(call) = {IF store[call.strings[1]] = <<>> THEN No ELSE Answer(TRUE, store[call.strings[1]])}
      BY <1>3 DEF AnswersTo, Tok_get, Tok_getKeys, Tok_exit, Tok_exec, Tok_delCmd,
                Tok_delVar, Tok_delGroup, Tok_delSpecialKey, Tok_chkGroup
    <3>. QED
      BY <3>1
  <2>4. CASE store[call.strings[1]] = <<>>
    BY <1>2, <2>3, <2>4
  <2>5. CASE answer = Answer(TRUE, store[call.strings[1]])
    <3>1. answer.text = store[call.strings[1]]
      BY <2>5 DEF Answer
    <3>. QED
      BY <2>1, <2>2, <2>5, <3>1, AnswersAre DEF Fitting
  <2>. QED
    BY <2>3, <2>4, <2>5
<1>4. CASE call.op = Tok_getKeys
  <2>1. answer \in {No} \cup {Answer(TRUE, list) : list \in KeyLists}
    <3>1. Tok_getKeys /= Tok_get
      BY DEF Tok_getKeys, Tok_get
    <3>2. AnswersTo(call) = {No} \cup {Answer(TRUE, list) : list \in KeyLists}
      BY <1>4 DEF AnswersTo, Tok_get, Tok_getKeys, Tok_exit, Tok_exec, Tok_delCmd,
                Tok_delVar, Tok_delGroup, Tok_delSpecialKey, Tok_chkGroup
    <3>. QED
      BY <3>2
  <2>2. ASSUME NEW list \in KeyLists, answer = Answer(TRUE, list)
        PROVE  answer \in AllAnswers /\ Fitting(answer)
    BY <2>2, AnswersAre DEF Fitting, Answer
  <2>. QED
    BY <1>2, <2>1, <2>2
<1>5. CASE call.op = Tok_exit
  <2>1. answer \in {Answer(TRUE, Decimal(n)) : n \in ExitCodes}
    <3>1. Tok_exit /= Tok_get /\ Tok_exit /= Tok_getKeys
      BY DEF Tok_exit, Tok_getKeys, Tok_get
    <3>2. AnswersTo(call) = {Answer(TRUE, Decimal(n)) : n \in ExitCodes}
      BY <1>5 DEF AnswersTo, Tok_get, Tok_getKeys, Tok_exit, Tok_exec, Tok_delCmd,
                Tok_delVar, Tok_delGroup, Tok_delSpecialKey, Tok_chkGroup
    <3>. QED
      BY <3>2
  <2>2. PICK n \in ExitCodes : answer = Answer(TRUE, Decimal(n))
    BY <2>1
  <2>3. answer \in AllAnswers
    BY <2>2, AnswersAre
  <2>4. answer.text = Decimal(n) /\ Len(Decimal(n)) + 5 <= BufSize
    BY <2>2, WireAssumption DEF Answer
  <2>. QED
    BY <2>3, <2>4 DEF Fitting, Short
<1>6. CASE call.op \notin {Tok_get, Tok_getKeys, Tok_exit}
  <2>1. answer \in {Ok, No}
    BY <1>6, Zenon DEF AnswersTo
  <2>. QED
    BY <1>2, <2>1
<1>. QED
  BY <1>3, <1>4, <1>5, <1>6

\* The store after a call.
LEMMA StoreKept ==
    ASSUME store \in [Names -> Values], NEW call \in AllCalls
    PROVE  /\ StoreAfter(call) \in [Names -> Values]
           /\ (\A n \in Names : Short(store[n])) /\ IsCall(call) /\ Fits(call) =>
                 \A n \in Names : Short(StoreAfter(call)[n])
<1>1. Short(<<>>) /\ <<>> \in Values
  BY WireAssumption DEF Short, Values
<1>2. CASE call.op = Tok_set
  <2>1. StoreAfter(call) = [store EXCEPT ![call.strings[1]] = call.strings[2]]
    BY <1>2 DEF StoreAfter, Tok_set, Tok_delVar
  <2>2. call \in Named
    BY <1>2 DEF Named
  <2>3. call.strings[2] \in Values
    BY <1>2, <2>2 DEF Values
  <2>4. StoreAfter(call) \in [Names -> Values]
    BY <2>1, <2>3
  <2>5. ASSUME \A n \in Names : Short(store[n]), IsCall(call), Fits(call)
        PROVE  \A n \in Names : Short(StoreAfter(call)[n])
    <3>1. Short(call.strings[2])
      <4>. DEFINE a == Len(Line(call))
                  b == Len(call.strings[2])
      <4>1. a \in Nat /\ b \in Nat /\ a >= b + 7 /\ a <= BufSize - 2 /\ BufSize \in Nat
        BY <1>2, <2>5, LongerLine, WireAssumption DEF Fits
      <4>2. b + 5 <= BufSize
        <5>. HIDE DEF a, b
        <5>. QED
          BY <4>1
      <4>. QED
        BY <4>2 DEF Short
    <3>. QED
      BY <2>1, <2>5, <3>1
  <2>. QED
    BY <2>4, <2>5
<1>3. CASE call.op = Tok_delVar
  <2>1. StoreAfter(call) = [store EXCEPT ![call.strings[1]] = <<>>]
    BY <1>3 DEF StoreAfter, Tok_set, Tok_delVar
  <2>. QED
    BY <1>1, <2>1
<1>4. CASE call.op \notin {Tok_set, Tok_delVar}
  <2>1. StoreAfter(call) = store
    BY <1>4 DEF StoreAfter
  <2>. QED
    BY <2>1
<1>. QED
  BY <1>2, <1>3, <1>4

\* An answer more.
LEMMA RespondIs ==
    ASSUME Basics, NEW answer \in AllAnswers, Respond(answer)
    PROVE  /\ replies' \in Bytes /\ replies' /= <<>>
           /\ owed' \in Seq(AllAnswers) /\ owed' /= <<>>
           /\ Len(owed) \in Nat /\ Len(owed') = Len(owed) + 1
           /\ replies = <<>> => replies' = Reply(answer)
           /\ owed = <<>> => owed' = <<answer>>
           /\ waiting' = waiting /\ inStep' = inStep
<1>1. Reply(answer) \in Bytes /\ Reply(answer) /= <<>>
  BY AnswersAre, ReplyIs DEF EndsWell
<1>2. /\ replies \in Bytes /\ owed \in Seq(AllAnswers)
      /\ replies' = replies \o Reply(answer) /\ owed' = Append(owed, answer)
      /\ waiting' = waiting /\ inStep' = inStep
  BY DEF Basics, Respond
<1>3. replies' \in Bytes /\ Len(replies') = Len(replies) + Len(Reply(answer)) /\ Len(replies) \in Nat
  BY <1>1, <1>2, BytesParts
<1>4. replies' /= <<>>
  <2>. DEFINE a == Len(replies)
              b == Len(Reply(answer))
              c == Len(replies')
  <2>1. c = a + b /\ a \in Nat /\ b \in Nat /\ b /= 0
    BY <1>1, <1>3 DEF Bytes
  <2>2. c /= 0
    <3>. HIDE DEF a, b, c
    <3>. QED
      BY <2>1
  <2>. QED
    BY <2>2 DEF c
<1>5. replies = <<>> => replies' = Reply(answer)
  <2>. HIDE DEF Reply
  <2>1. Reply(answer) \in Seq(0 .. 255)
    BY <1>1 DEF Bytes
  <2>. QED
    BY <1>2, <2>1, ConcatEmptySeq
<1>6. /\ owed' \in Seq(AllAnswers) /\ owed' /= <<>>
      /\ Len(owed) \in Nat /\ Len(owed') = Len(owed) + 1
      /\ owed = <<>> => owed' = <<answer>>
  <2>. DEFINE A == AllAnswers
  <2>1. owed \in Seq(A) /\ answer \in A /\ owed' = Append(owed, answer)
    BY <1>2
  <2>. HIDE DEF A
  <2>2. owed' \in Seq(A) /\ Len(owed) \in Nat /\ Len(owed') = Len(owed) + 1
    BY <2>1, AppendProperties
  <2>3. owed' /= <<>>
    BY <2>2
  <2>4. owed = <<>> => owed' = <<answer>>
    BY <2>1
  <2>. QED
    BY <2>2, <2>3, <2>4 DEF A
<1>. QED
  BY <1>2, <1>3, <1>4, <1>5, <1>6

\* What the first call is to a program that waits: its last one, if it can be expressed.
LEMMA AskedFirst ==
    ASSUME WireInv, EndOfLine /= 0, Recorded, program = "client", inStep
    PROVE  /\ Asked /\ last \in ClientCalls /\ (\A n \in Names : Short(store[n])) /\ Fits(last)
           /\ Parsed(FirstLine) = IF Speakable(last) THEN last ELSE Malformed
           /\ After(buf, EndOfLine) \o stream = <<>>
<1>1. Coming /= <<>>
  BY HeadFlight DEF WireInv
<1>2. Asked /\ last \in ClientCalls /\ (\A n \in Names : Short(store[n]))
  BY <1>1 DEF WireInv, TurnByTurn, Idle, Asked, Answered
<1>3. /\ Fits(last) /\ Parsed(FirstLine) = IF Speakable(last) THEN last ELSE Malformed
      /\ After(buf, EndOfLine) \o stream = <<>>
  BY <1>2, OnlyLine DEF WireInv, Basics, OnTheWay, Asked
<1>. QED
  BY <1>2, <1>3

\* The call of a client that waits is executed, and is answered with something that
\* fits: a variable is shorter than the line that has set it.
LEMMA ExecuteWire ==
    ASSUME WireInv, mode = "handle", EndOfLine /= 0, Execute(Parsed(FirstLine)), Recorded
    PROVE  WireInv'
<1>. DEFINE call == Parsed(FirstLine)
<1>1. PICK answer \in AnswersTo(call) : Respond(answer)
  BY DEF Execute
<1>2. /\ call \notin {Malformed, Unknown}
      /\ program' = program /\ made' = made /\ last' = last /\ store' = StoreAfter(call)
      /\ IF call.op = Tok_stop THEN Close ELSE Continue
  BY DEF Execute, callerVars
<1>3. /\ flight \in Seq(AllCalls \cup {Malformed}) /\ flight /= <<>>
      /\ call \in AllCalls
      /\ Len(Tail(flight)) \in Nat /\ Len(flight) = Len(Tail(flight)) + 1
      /\ Close => /\ flight' = <<>> /\ Coming' = <<>> /\ mode' = "closed"
                  /\ Received' /\ Len(buf') < BufSize - 1 /\ OnTheWay'
      /\ Continue => /\ flight' = Tail(flight) /\ mode' = "handle"
                     /\ Coming' = After(buf, EndOfLine) \o stream
                     /\ Received' /\ Len(buf') < BufSize - 1 /\ OnTheWay'
  BY <1>2, HeadFlight DEF WireInv
<1>. HIDE DEF call
<1>4. store \in [Names -> Values]
  BY DEF WireInv, Basics
<1>5. /\ answer \in AllAnswers
      /\ (\A n \in Names : Short(store[n])) => Fitting(answer)
  BY <1>3, <1>4, AnswersGiven
<1>6. /\ replies' \in Bytes /\ replies' /= <<>>
      /\ owed' \in Seq(AllAnswers) /\ owed' /= <<>>
      /\ Len(owed) \in Nat /\ Len(owed') = Len(owed) + 1
      /\ replies = <<>> => replies' = Reply(answer)
      /\ owed = <<>> => owed' = <<answer>>
      /\ waiting' = waiting /\ inStep' = inStep
  BY <1>1, <1>5, RespondIs DEF WireInv
<1>7. Received' /\ Len(buf') < BufSize - 1 /\ OnTheWay' /\ mode' \in {"select", "handle", "closed"}
  BY <1>2, <1>3
<1>8. Basics'
  BY <1>2, <1>3, <1>4, <1>6, <1>7, StoreKept DEF WireInv, Basics
<1>9. Counted'
  <2>1. ASSUME program /= "client"
        PROVE  Len(owed') + Len(flight') <= waiting'
    <3>. DEFINE a == Len(owed)
                b == Len(Tail(flight))
                c == Len(flight')
    <3>1. /\ Len(owed) + Len(flight) <= waiting
      BY <2>1 DEF WireInv, Counted
    <3>2. c \in {0, b} /\ a \in Nat /\ b \in Nat /\ waiting \in Nat
      <4>1. flight' = <<>> \/ flight' = Tail(flight)
        BY <1>2, <1>3
      <4>2. flight' = <<>> => c = 0
        OBVIOUS
      <4>3. flight' = Tail(flight) => c = b
        OBVIOUS
      <4>4. a \in Nat /\ b \in Nat /\ waiting \in Nat
        BY <1>3, <1>6 DEF WireInv, Basics
      <4>. HIDE DEF a, b, c
      <4>. QED
        BY <4>1, <4>2, <4>3, <4>4
    <3>3. a + (b + 1) <= waiting /\ Len(owed') = a + 1 /\ waiting' = waiting
      BY <1>3, <1>6, <3>1
    <3>4. (a + 1) + c <= waiting
      <4>. HIDE DEF a, b, c
      <4>. QED
        BY <3>2, <3>3
    <3>. QED
      BY <3>3, <3>4
  <2>. QED
    BY <1>2, <1>6, <2>1 DEF WireInv, Counted
<1>10. TurnByTurn'
  <2>. SUFFICES ASSUME program = "client", inStep
                PROVE  (made > 0 => last \in ClientCalls) /\ (\A n \in Names : Short(store'[n])) /\ Answered'
    BY <1>2, <1>6 DEF TurnByTurn
  <2>1. /\ Asked /\ last \in ClientCalls /\ (\A n \in Names : Short(store[n])) /\ Fits(last)
        /\ call = IF Speakable(last) THEN last ELSE Malformed
        /\ After(buf, EndOfLine) \o stream = <<>>
    BY AskedFirst DEF call
  <2>2. call = last /\ Speakable(last)
    BY <1>2, <2>1
  <2>3. IsCall(call)
    BY <2>1, <2>2, CallParsed
  <2>4. \A n \in Names : Short(store'[n])
    BY <1>2, <1>3, <1>4, <2>1, <2>2, <2>3, StoreKept
  <2>5. Fitting(answer)
    BY <1>5, <2>1
  <2>6. owed' = <<answer>> /\ replies' = Reply(answer)
    BY <1>6, <2>1 DEF Asked
  <2>7. Coming' = <<>>
    BY <1>2, <1>3, <2>1
  <2>8. mode' = "closed" => last'.op = Tok_stop
    BY <1>2, <1>3, <2>2
  <2>9. made' > 0 /\ waiting' = 1 /\ Speakable(last') /\ Fits(last')
    BY <1>2, <1>6, <2>1, <2>2 DEF Asked
  <2>10. Fitting(answer)'
    BY <2>5 DEF Fitting, Short
  <2>11. \E a \in AllAnswers : owed' = <<a>> /\ replies' = Reply(a) /\ Fitting(a)
    BY <1>5, <2>5, <2>6
  <2>12. Answered'
    BY <2>7, <2>8, <2>9, <2>11 DEF Answered
  <2>. QED
    BY <2>1, <2>4, <2>12
<1>. QED
  BY <1>7, <1>8, <1>9, <1>10 DEF WireInv

\* Only a call that cannot be expressed is malformed.
LEMMA ParseErrorWire ==
    ASSUME WireInv, mode = "handle", EndOfLine /= 0, ParseError(Parsed(FirstLine)), Recorded
    PROVE  WireInv'
<1>1. /\ Parsed(FirstLine) = Malformed /\ Close
      /\ program' = program /\ made' = made /\ last' = last /\ store' = store /\ waiting' = waiting
      /\ replies' = replies /\ owed' = owed /\ inStep' = inStep
  BY DEF ParseError, callerVars, outVars
<1>2. /\ flight' = <<>> /\ Coming' = <<>> /\ mode' = "closed"
      /\ Received' /\ Len(buf') < BufSize - 1 /\ OnTheWay'
      /\ Len(Tail(flight)) \in Nat /\ Len(flight) = Len(Tail(flight)) + 1
  BY <1>1, HeadFlight DEF WireInv
<1>3. Basics'
  BY <1>1, <1>2 DEF WireInv, Basics
<1>4. Counted'
  <2>1. ASSUME program /= "client"
        PROVE  Len(owed) + Len(flight') <= waiting
    <3>. DEFINE a == Len(owed)
                b == Len(Tail(flight))
    <3>1. a + (b + 1) <= waiting /\ a \in Nat /\ b \in Nat /\ waiting \in Nat
      BY <1>2, <2>1 DEF WireInv, Counted, Basics
    <3>2. Len(flight') = 0
      BY <1>2
    <3>3. a + 0 <= waiting
      <4>. HIDE DEF a, b
      <4>. QED
        BY <3>1
    <3>. QED
      BY <3>2, <3>3
  <2>. QED
    BY <1>1, <2>1 DEF WireInv, Counted
<1>5. TurnByTurn'
  <2>. SUFFICES ASSUME program = "client", inStep
                PROVE  (made > 0 => last \in ClientCalls) /\ (\A n \in Names : Short(store[n])) /\ Idle'
    BY <1>1 DEF TurnByTurn
  <2>1. /\ Asked /\ last \in ClientCalls /\ (\A n \in Names : Short(store[n]))
        /\ Parsed(FirstLine) = IF Speakable(last) THEN last ELSE Malformed
    BY AskedFirst
  <2>2. last /= Malformed
    BY <2>1, CallParsed
  <2>3. Fault'
    BY <1>1, <2>1, <2>2 DEF Fault, Asked
  <2>. QED
    BY <1>1, <1>2, <2>1, <2>3 DEF Idle, Asked
<1>. QED
  BY <1>2, <1>3, <1>4, <1>5 DEF WireInv

\* No call of a client is unknown.
LEMMA UnknownCommandWire ==
    ASSUME WireInv, mode = "handle", EndOfLine /= 0, UnknownCommand(Parsed(FirstLine)), Recorded
    PROVE  WireInv'
<1>1. /\ Parsed(FirstLine) = Unknown /\ Close /\ Respond(No)
      /\ program' = program /\ made' = made /\ last' = last /\ store' = store
  BY DEF UnknownCommand, callerVars
<1>2. /\ flight' = <<>> /\ Coming' = <<>> /\ mode' = "closed"
      /\ Received' /\ Len(buf') < BufSize - 1 /\ OnTheWay'
      /\ Len(Tail(flight)) \in Nat /\ Len(flight) = Len(Tail(flight)) + 1
  BY <1>1, HeadFlight DEF WireInv
<1>3. /\ replies' \in Bytes /\ replies' /= <<>>
      /\ owed' \in Seq(AllAnswers) /\ owed' /= <<>>
      /\ Len(owed) \in Nat /\ Len(owed') = Len(owed) + 1
      /\ waiting' = waiting /\ inStep' = inStep
  BY <1>1, RespondIs, AnswersAre DEF WireInv
<1>4. Basics'
  BY <1>1, <1>2, <1>3 DEF WireInv, Basics
<1>5. Counted'
  <2>1. ASSUME program /= "client"
        PROVE  Len(owed') + Len(flight') <= waiting
    <3>. DEFINE a == Len(owed)
                b == Len(Tail(flight))
    <3>1. a + (b + 1) <= waiting /\ a \in Nat /\ b \in Nat /\ waiting \in Nat
      BY <1>2, <1>3, <2>1 DEF WireInv, Counted, Basics
    <3>2. Len(flight') = 0 /\ Len(owed') = a + 1
      BY <1>2, <1>3
    <3>3. (a + 1) + 0 <= waiting
      <4>. HIDE DEF a, b
      <4>. QED
        BY <3>1
    <3>. QED
      BY <3>2, <3>3
  <2>. QED
    BY <1>1, <1>3, <2>1 DEF WireInv, Counted
<1>6. TurnByTurn'
  <2>. SUFFICES ASSUME program = "client", inStep
                PROVE  FALSE
    BY <1>1, <1>3 DEF TurnByTurn
  <2>1. last \in ClientCalls /\ Parsed(FirstLine) = IF Speakable(last) THEN last ELSE Malformed
    BY AskedFirst
  <2>2. last \notin {Malformed, Unknown}
    BY <2>1, CallParsed
  <2>. QED
    BY <1>1, <2>1, <2>2 DEF Malformed, Unknown, Tok_none, Tok_str
<1>. QED
  BY <1>2, <1>4, <1>5, <1>6 DEF WireInv

\* What the bytes on their way stand for is known in every step.
LEMMA WireStep ==
    ASSUME WireInv, [Next]_vars
    PROVE  WireInv'
<1>1. CASE UNCHANGED vars
  <2>1. /\ program' = program /\ made' = made /\ last' = last /\ stream' = stream /\ buf' = buf
        /\ mode' = mode /\ store' = store /\ waiting' = waiting
        /\ replies' = replies /\ owed' = owed /\ inStep' = inStep /\ flight' = flight
    BY <1>1 DEF vars, callerVars, inVars, outVars
  <2>2. Coming' = Coming
    BY <2>1 DEF Coming
  <2>3. Basics'
    BY <2>1 DEF WireInv, Basics, Received
  <2>4. OnTheWay' /\ Counted'
    BY <2>1, <2>2 DEF WireInv, OnTheWay, Counted
  <2>5. TurnByTurn'
    BY <2>1, <2>2 DEF WireInv, TurnByTurn, Idle, Asked, Answered, Fault
  <2>. QED
    BY <2>3, <2>4, <2>5 DEF WireInv
<1>2. CASE Program /\ Recorded
  BY <1>2, CallWire, SayRawWire, ReturnWire, EndOfFileWire, DrainWire DEF Program
<1>3. CASE DoCommand /\ Recorded
  <2>1. /\ mode = "handle" /\ EndOfLine /= 0
        /\ \/ Execute(Parsed(FirstLine))
           \/ ParseError(Parsed(FirstLine))
           \/ UnknownCommand(Parsed(FirstLine))
    BY <1>3 DEF DoCommand
  <2>. QED
    BY <1>3, <2>1, ExecuteWire, ParseErrorWire, UnknownCommandWire
<1>. QED
  BY <1>1, <1>2, <1>3, RecvWire, HandledWire DEF Next, Daemon

\* And so at all times.
LEMMA AlwaysWire ==
    Spec => []WireInv
BY InitWire, WireStep, PTL DEF Spec

-----------------------------------------------------------------------------
(* The theorems about a connection.                                          *)

\* Types: the buffer never has more than BUF_SIZE - 2 characters when something is to be
\* received, and with no answer owed there is nothing to read (handler.cpp:58-102).
THEOREM WireTypeCorrect == Spec => []TypeOK
<1>1. WireInv => TypeOK
  <2>. SUFFICES ASSUME WireInv
                PROVE  TypeOK
    OBVIOUS
  <2>1. \A n \in Names : store[n] \in Seq(0 .. 255)
    BY ValuesAreBytes DEF WireInv, Basics, Bytes
  <2>2. owed = <<>> /\ inStep => replies = <<>>
    <3>1. CASE program = "client"
      BY <3>1 DEF WireInv, TurnByTurn, Idle, Asked, Answered
    <3>2. CASE program /= "client"
      BY <3>2 DEF WireInv, Counted
    <3>. QED
      BY <3>1, <3>2
  <2>3. stream \in Seq(0 .. 315) /\ buf \in Seq(0 .. 315)
    BY DEF WireInv, Basics, Received, Texts
  <2>4. replies \in Seq(0 .. 255)
    BY DEF WireInv, Basics, Bytes
  <2>. QED
    BY <2>1, <2>2, <2>3, <2>4 DEF WireInv, Basics, TypeOK
<1>. QED
  BY <1>1, AlwaysWire, PTL

\* A program that uses class Client loses its connection only for STOP or for a call that
\* cannot be expressed or does not fit, and of such a call nothing is executed, in whatever
\* parts its line arrives (handler.cpp:64-81, 172-539).
THEOREM ClosedForCauseHolds == Spec => []ClosedForCause
<1>1. WireInv => ClosedForCause
  <2>. SUFFICES ASSUME WireInv, program = "client", inStep
                PROVE  IF Speakable(last) /\ Fits(last)
                       THEN mode /= "closed" \/ last.op = Tok_stop \/ made = 0
                       ELSE owed = <<>>
    BY DEF ClosedForCause
  <2>1. CASE Idle
    BY <2>1 DEF Idle, Fault
  <2>2. CASE Asked
    BY <2>2 DEF Asked
  <2>3. CASE Answered
    BY <2>3 DEF Answered
  <2>. QED
    BY <2>1, <2>2, <2>3 DEF WireInv, TurnByTurn
<1>. QED
  BY <1>1, AlwaysWire, PTL

\* The daemon hears every call exactly as it was made, with whatever characters in its
\* strings, unless class Client cannot express it: then it hears no call at all
\* (client.cpp:160-379, lexer.cpp:43-163, handler.cpp:172-539).
THEOREM CallsAreHeard ==
    ASSUME NEW call, IsCall(call)
    PROVE  Parsed(Line(call)) = IF Speakable(call) THEN call ELSE Malformed
BY CallHeard, CallMisheard

-----------------------------------------------------------------------------
(* The bytes keep the promise of CommandQueue.                               *)

\* Of what a client may be answered, it reads all but the answers that are lost.
LEMMA ReadableIs ==
    ASSUME NEW answer \in AllAnswers, Fitting(answer)
    PROVE  Readable(answer) <=> answer \notin LostAnswers
<1>. DEFINE l == Len(answer.text)
            r == Len(Reply(answer))
            h == Len(Beginning(answer))
<1>1. IsAnswer(answer)
  BY AnswersAre
<1>2. l \in Nat /\ (l = 0 <=> answer.text = <<>>)
  BY <1>1 DEF IsAnswer, Bytes
<1>3. h = (IF l = 0 THEN 2 ELSE l + 3) /\ r = h + 1
  BY <1>1, <1>2, BeginningIs, ReplyIs DEF BeginsWell, EndsWell
<1>4. BufSize \in Nat /\ BufSize >= 5
  BY WireAssumption
<1>5. r < BufSize <=> l + 5 <= BufSize
  <2>. HIDE DEF l, r, h
  <2>. QED
    BY <1>2, <1>3, <1>4
<1>6. l + 5 > BufSize <=> ~(l + 5 <= BufSize)
  <2>. HIDE DEF l
  <2>. QED
    BY <1>2, <1>4
<1>7. Readable(answer) <=> Nul \notin ToSet(answer.text) /\ l + 5 <= BufSize
  BY <1>5 DEF Readable
<1>8. answer \in LostAnswers <=> Nul \in ToSet(answer.text) \/ (answer.text \in KeyLists /\ l + 5 > BufSize)
  BY DEF LostAnswers
<1>9. answer.text \in KeyLists \/ l + 5 <= BufSize
  BY DEF Fitting, Short
<1>. HIDE DEF l
<1>. QED
  BY <1>6, <1>7, <1>8, <1>9

\* A connection begins as the promise does.
LEMMA PromiseInit ==
    ASSUME Init
    PROVE  Promise!Init
<1>1. /\ last = Unknown /\ flight = <<>> /\ owed = <<>> /\ result = Failed /\ inStep = TRUE
      /\ store = [n \in Names |-> <<>>]
  BY DEF Init
<1>2. (mode /= "closed") = TRUE
  BY DEF Init
<1>3. Reader \in BOOLEAN
  BY DEF Reader
<1>4. Promise!Names = Names
  BY DEF Promise!Names, Names, Named
<1>. QED
  BY <1>1, <1>2, <1>3, <1>4 DEF Promise!Init

\* A line on its way is a call in the queue.
LEMMA PromiseCall ==
    ASSUME WireInv, NEW call \in ClientCalls, Call(call), Recorded
    PROVE  Promise!Call
<1>1. /\ IsLine(Line(call)) /\ Say(Line(call)) /\ last' = call
      /\ Parsed(Line(call)) = IF Speakable(call) THEN call ELSE Malformed
  BY CallParsed DEF Call
<1>2. flight' = Append(flight, Parsed(Line(call)))
  BY <1>1, SaidFlight DEF WireInv
<1>3. Parsed(Line(call)) = IF last' \in {c \in ClientCalls : ~Speakable(c)} THEN Malformed ELSE last'
  BY <1>1
<1>4. /\ mode /= "closed" /\ mode' = mode /\ store' = store /\ owed' = owed /\ result' = result
      /\ inStep' = inStep /\ Reader' = Reader
  BY <1>1 DEF Say, Reader
<1>5. last' \in AllCalls
  BY <1>1 DEF AllCalls
<1>. QED
  BY <1>2, <1>3, <1>4, <1>5 DEF Promise!Call

\* A line that a program wrote itself is a call too.
LEMMA PromiseSay ==
    ASSUME WireInv, program = "stranger", NEW line \in RawLines, SayRaw(line), Recorded
    PROVE  Promise!Say
<1>1. IsLine(line) /\ Parsed(line) \in AllCalls /\ Say(line) /\ last' = Parsed(line)
  BY RawParsed DEF SayRaw
<1>2. flight' = Append(flight, Parsed(line))
  BY <1>1, SaidFlight DEF WireInv
<1>3. /\ mode /= "closed" /\ mode' = mode /\ store' = store /\ owed' = owed /\ result' = result
      /\ inStep' = inStep /\ Reader' = Reader /\ ~Reader
  BY <1>1 DEF Say, Reader
<1>. QED
  BY <1>1, <1>2, <1>3 DEF Promise!Say

\* What command() returns is the oldest answer, or what a lost answer has left.
LEMMA PromiseReturn ==
    ASSUME WireInv, Return, Recorded
    PROVE  Promise!Return \/ Promise!Astray
<1>1. /\ program = "client" /\ waiting > 0 /\ replies /= <<>>
      /\ result' = Reading(FirstOf(replies, BufSize - 1))
      /\ inStep' = (inStep /\ owed /= <<>> /\ Readable(Head(owed)))
      /\ owed' = IF owed = <<>> THEN owed ELSE Tail(owed)
      /\ program' = program /\ last' = last /\ stream' = stream /\ buf' = buf
      /\ mode' = mode /\ store' = store
  BY DEF Return, callerVars, inVars
<1>2. Coming' = Coming /\ Reader' = Reader
  BY <1>1 DEF Coming, Reader
<1>3. flight' = flight
  BY <1>2, SameFlight DEF WireInv
<1>4. ASSUME inStep
      PROVE  /\ owed /= <<>>
             /\ Readable(Head(owed)) <=> Head(owed) \notin LostAnswers
             /\ Readable(Head(owed)) => result' = Head(owed)
  <2>1. Answered
    BY <1>1, <1>4 DEF WireInv, TurnByTurn, Idle, Asked
  <2>2. PICK answer \in AllAnswers : owed = <<answer>> /\ replies = Reply(answer) /\ Fitting(answer)
    BY <2>1 DEF Answered
  <2>3. owed /= <<>> /\ Head(owed) = answer
    BY <2>2
  <2>4. Readable(answer) => Reading(FirstOf(Reply(answer), BufSize - 1)) = answer
    BY ReplyRead
  <2>. QED
    BY <1>1, <2>2, <2>3, <2>4, ReadableIs
<1>5. CASE owed /= <<>>
  <2>1. inStep' = (inStep /\ Head(owed) \notin LostAnswers)
    <3>1. CASE inStep
      BY <1>1, <1>4, <1>5, <3>1
    <3>2. CASE ~inStep
      BY <1>1, <3>2
    <3>. QED
      BY <3>1, <3>2
  <2>2. inStep' => result' = Head(owed)
    BY <1>1, <1>4
  <2>3. owed' = Tail(owed)
    BY <1>1, <1>5
  <2>4. Promise!Return
    BY <1>1, <1>2, <1>3, <1>5, <2>1, <2>2, <2>3 DEF Promise!Return
  <2>. QED
    BY <2>4
<1>6. CASE owed = <<>>
  <2>1. ~inStep /\ inStep \in BOOLEAN
    BY <1>4, <1>6 DEF WireInv, Basics
  <2>2. inStep' = inStep
    BY <1>1, <2>1
  <2>3. owed' = owed
    BY <1>1, <1>6
  <2>4. Promise!Astray
    BY <1>1, <1>2, <1>3, <2>1, <2>2, <2>3 DEF Promise!Astray
  <2>. QED
    BY <2>4
<1>. QED
  BY <1>5, <1>6

\* Without an answer there is none in the promise either.
LEMMA PromiseEndOfFile ==
    ASSUME WireInv, EndOfFile, Recorded
    PROVE  Promise!EndOfFile \/ Promise!Astray
<1>1. /\ replies = <<>> /\ mode = "closed" /\ result' = Failed
      /\ program' = program /\ last' = last /\ stream' = stream /\ buf' = buf
      /\ mode' = mode /\ store' = store /\ owed' = owed /\ inStep' = inStep
  BY DEF EndOfFile, callerVars, inVars
<1>2. Coming' = Coming /\ Reader' = Reader
  BY <1>1 DEF Coming, Reader
<1>3. flight' = flight
  BY <1>2, SameFlight DEF WireInv
<1>4. owed = <<>> \/ ~inStep
  <2>1. CASE program /= "client"
    BY <1>1, <2>1 DEF WireInv, Counted
  <2>2. CASE program = "client" /\ inStep
    <3>1. \A answer \in AllAnswers : Reply(answer) /= <<>>
      BY AnswersAre, ReplyIs DEF EndsWell
    <3>. QED
      BY <1>1, <2>2, <3>1 DEF WireInv, TurnByTurn, Idle, Asked, Answered
  <2>. QED
    BY <2>1, <2>2
<1>5. owed = <<>> => Promise!EndOfFile
  BY <1>1, <1>2, <1>3 DEF Promise!EndOfFile
<1>6. ~inStep => Promise!Astray
  BY <1>1, <1>2, <1>3 DEF Promise!Astray
<1>. QED
  BY <1>4, <1>5, <1>6

\* All answers are read.
LEMMA PromiseDrain ==
    ASSUME WireInv, Drain, Recorded
    PROVE  Promise!Drain
<1>1. /\ program /= "client" /\ owed' = <<>> /\ result' = result
      /\ program' = program /\ last' = last /\ stream' = stream /\ buf' = buf
      /\ mode' = mode /\ store' = store /\ inStep' = inStep
  BY DEF Drain, callerVars, inVars
<1>2. Coming' = Coming /\ Reader' = Reader /\ ~Reader
  BY <1>1 DEF Coming, Reader
<1>3. flight' = flight
  BY <1>2, SameFlight DEF WireInv
<1>. QED
  BY <1>1, <1>2, <1>3 DEF Promise!Drain

\* Bytes that arrive change nothing, or one is too many and the connection ends.
LEMMA PromiseRecv ==
    ASSUME WireInv, Recv, Recorded
    PROVE  Promise!HangUp \/ UNCHANGED Promise!vars
<1>1. /\ mode = "select"
      /\ \/ mode' = "closed" /\ Coming' = <<>>
         \/ mode' = "handle" /\ Coming' = Coming
  BY RecvIs DEF WireInv
<1>2. /\ last' = last /\ store' = store /\ owed' = owed /\ result' = result
      /\ inStep' = inStep /\ Reader' = Reader
  BY DEF Recv, callerVars, outVars, Reader
<1>3. CASE mode' = "closed" /\ Coming' = <<>>
  <2>1. flight' = <<>>
    BY <1>3, NothingComing DEF Recorded, Coming
  <2>2. (mode /= "closed")' = FALSE /\ mode /= "closed"
    BY <1>1, <1>3
  <2>. QED
    BY <1>2, <2>1, <2>2 DEF Promise!HangUp
<1>4. CASE mode' = "handle" /\ Coming' = Coming
  <2>1. flight' = flight
    BY <1>4, SameFlight DEF WireInv
  <2>2. (mode /= "closed")' = (mode /= "closed")
    BY <1>1, <1>4
  <2>. QED
    BY <1>2, <2>1, <2>2 DEF Promise!vars
<1>. QED
  BY <1>1, <1>3, <1>4

\* Nothing happens while the daemon waits.
LEMMA PromiseHandled ==
    ASSUME WireInv, Handled, Recorded
    PROVE  UNCHANGED Promise!vars
<1>1. /\ mode = "handle" /\ mode' = "select" /\ buf' = buf /\ stream' = stream
      /\ last' = last /\ store' = store /\ owed' = owed /\ result' = result
      /\ inStep' = inStep /\ Reader' = Reader
  BY DEF Handled, callerVars, inVars, outVars, Reader
<1>2. Coming' = Coming
  BY <1>1 DEF Coming
<1>3. flight' = flight
  BY <1>2, SameFlight DEF WireInv
<1>4. (mode /= "closed")' = (mode /= "closed")
  BY <1>1
<1>. QED
  BY <1>1, <1>3, <1>4 DEF Promise!vars

\* What the daemon answers the promise may answer, and a variable has one value.
LEMMA PromiseAnswers ==
    ASSUME store \in [Names -> Values], NEW call \in AllCalls, NEW answer \in AnswersTo(call)
    PROVE  answer \in Promise!AnswersTo(call)
<1>1. answer \in AllAnswers
  BY AnswersGiven
<1>2. ASSUME call.op = Tok_get
      PROVE  /\ answer.text = store[call.strings[1]]
             /\ answer.ok <=> answer.text /= <<>>
  <2>1. AnswersTo(call) = {IF store[call.strings[1]] = <<>> THEN No ELSE Answer(TRUE, store[call.strings[1]])}
    BY <1>2 DEF AnswersTo, Tok_get, Tok_getKeys, Tok_exit, Tok_exec, Tok_delCmd,
                Tok_delVar, Tok_delGroup, Tok_delSpecialKey, Tok_chkGroup
  <2>2. answer = IF store[call.strings[1]] = <<>> THEN No ELSE Answer(TRUE, store[call.strings[1]])
    BY <2>1
  <2>. QED
    BY <2>2 DEF No, Answer
<1>. QED
  BY <1>1, <1>2 DEF Promise!AnswersTo

\* The oldest call is executed, with its arguments, and answered.
LEMMA PromiseExecute ==
    ASSUME WireInv, mode = "handle", EndOfLine /= 0, Execute(Parsed(FirstLine)), Recorded
    PROVE  Promise!Execute
<1>. DEFINE call == Parsed(FirstLine)
<1>1. PICK answer \in AnswersTo(call) : Respond(answer)
  BY DEF Execute
<1>2. /\ call \notin {Malformed, Unknown}
      /\ program' = program /\ last' = last /\ store' = StoreAfter(call)
      /\ IF call.op = Tok_stop THEN Close ELSE Continue
  BY DEF Execute, callerVars
<1>3. /\ flight /= <<>> /\ Head(flight) = call /\ call \in AllCalls
      /\ Close => flight' = <<>> /\ mode' = "closed"
      /\ Continue => flight' = Tail(flight) /\ mode' = "handle"
  BY <1>2, HeadFlight DEF WireInv
<1>. HIDE DEF call
<1>4. answer \in Promise!AnswersTo(call)
  BY <1>3, PromiseAnswers DEF WireInv, Basics
<1>5. owed' = Append(owed, answer) /\ result' = result /\ inStep' = inStep /\ Reader' = Reader
  BY <1>1, <1>2 DEF Respond, Reader
<1>6. StoreAfter(call) = Promise!StoreAfter(call)
  BY DEF StoreAfter, Promise!StoreAfter
<1>7. (mode /= "closed")' = (call.op /= Tok_stop)
  BY <1>2, <1>3
<1>8. flight' = IF (mode /= "closed")' THEN Tail(flight) ELSE <<>>
  BY <1>2, <1>3
<1>. QED
  BY <1>2, <1>3, <1>4, <1>5, <1>6, <1>7, <1>8 DEF Promise!Execute

\* A call that nobody understands ends the connection.
LEMMA PromiseParseError ==
    ASSUME WireInv, mode = "handle", EndOfLine /= 0, ParseError(Parsed(FirstLine)), Recorded
    PROVE  Promise!HangUp
<1>1. /\ Close /\ program' = program /\ last' = last /\ store' = store
      /\ owed' = owed /\ result' = result /\ inStep' = inStep /\ Reader' = Reader
  BY DEF ParseError, callerVars, outVars, Reader
<1>2. flight' = <<>> /\ mode' = "closed"
  BY <1>1, HeadFlight DEF WireInv
<1>3. (mode /= "closed")' = FALSE /\ mode /= "closed"
  BY <1>2
<1>. QED
  BY <1>1, <1>2, <1>3 DEF Promise!HangUp

\* So does a command that nobody knows, after its NO.
LEMMA PromiseUnknown ==
    ASSUME WireInv, mode = "handle", EndOfLine /= 0, UnknownCommand(Parsed(FirstLine)), Recorded
    PROVE  Promise!HangUp
<1>1. /\ Parsed(FirstLine) = Unknown /\ Close /\ last' = last /\ store' = store
      /\ owed' = Append(owed, No) /\ result' = result /\ inStep' = inStep /\ Reader' = Reader
  BY DEF UnknownCommand, Respond, callerVars, Reader
<1>2. flight' = <<>> /\ mode' = "closed" /\ flight /= <<>> /\ Head(flight) = Unknown
  BY <1>1, HeadFlight DEF WireInv
<1>3. (mode /= "closed")' = FALSE /\ mode /= "closed"
  BY <1>2
<1>. QED
  BY <1>1, <1>2, <1>3 DEF Promise!HangUp, Failed

\* A connection is a queue of calls and a queue of answers: the lines, the buffers and the
\* characters cannot be told from the outside (client.cpp:160-379, handler.cpp:58-102).
THEOREM CallsAsMadeHolds == Spec => CallsAsMade
<1>1. Init => Promise!Init
  BY PromiseInit
<1>2. WireInv /\ [Next]_vars => [Promise!Next]_(Promise!vars)
  <2>. SUFFICES ASSUME WireInv, [Next]_vars
                PROVE  Promise!Next \/ UNCHANGED Promise!vars
    OBVIOUS
  <2>1. CASE UNCHANGED vars
    BY <2>1 DEF vars, callerVars, outVars, Promise!vars, Reader
  <2>2. CASE Program /\ Recorded
    <3>1. CASE program /= "stranger" /\ \E call \in ClientCalls : Call(call)
      BY <2>2, <3>1, PromiseCall DEF Promise!Next
    <3>2. CASE program = "stranger" /\ \E line \in RawLines : SayRaw(line)
      BY <2>2, <3>2, PromiseSay DEF Promise!Next
    <3>3. CASE Return
      BY <2>2, <3>3, PromiseReturn DEF Promise!Next
    <3>4. CASE EndOfFile
      BY <2>2, <3>4, PromiseEndOfFile DEF Promise!Next
    <3>5. CASE Drain
      BY <2>2, <3>5, PromiseDrain DEF Promise!Next
    <3>. QED
      BY <2>2, <3>1, <3>2, <3>3, <3>4, <3>5 DEF Program
  <2>3. CASE DoCommand /\ Recorded
    <3>1. /\ mode = "handle" /\ EndOfLine /= 0
          /\ \/ Execute(Parsed(FirstLine))
             \/ ParseError(Parsed(FirstLine))
             \/ UnknownCommand(Parsed(FirstLine))
      BY <2>3 DEF DoCommand
    <3>. QED
      BY <2>3, <3>1, PromiseExecute, PromiseParseError, PromiseUnknown DEF Promise!Next
  <2>4. CASE Recv /\ Recorded
    BY <2>4, PromiseRecv DEF Promise!Next
  <2>5. CASE Handled /\ Recorded
    BY <2>5, PromiseHandled
  <2>. QED
    BY <2>1, <2>2, <2>3, <2>4, <2>5 DEF Next, Daemon
<1>. QED
  BY <1>1, <1>2, AlwaysWire, PTL DEF Spec, CallsAsMade, Promise!Spec
===============================================================================
