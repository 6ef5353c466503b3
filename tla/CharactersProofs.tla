--------------------------- MODULE CharactersProofs ---------------------------
(***************************************************************************)
(* Lemmas about texts of any length: induction on a size, functions that   *)
(* are defined by recursion on one, and the parts of a text.               *)
(*                                                                         *)
(* Induction is the argument of the least counterexample, which the well-  *)
(* founded order of the natural numbers gives.  A recursive function is    *)
(* known by its unfolding: Recursion shows that there is a function that   *)
(* does what the definition says, so the one that is chosen does.          *)
(***************************************************************************)
EXTENDS Characters, WellFoundedInduction, SequenceTheorems, TLAPS

-----------------------------------------------------------------------------
(* Induction and recursion.                                                  *)

\* A set of natural numbers that is not empty has a smallest element.
LEMMA Least ==
    ASSUME NEW T \in SUBSET Nat, T /= {}
    PROVE  \E n \in T : \A m \in T : n <= m
<1>. DEFINE R == {p \in Nat \X Nat : p[1] < p[2]}
<1>1. IsWellFoundedOn(R, Nat)
  BY NatLessThanWellFounded, Zenon DEF OpToRel
<1>2. PICK n \in T : \A m \in T : ~(<<m, n>> \in R)
  BY <1>1, WFMin
<1>3. \A a, b \in Nat : a < b => <<a, b>> \in R
  BY Zenon DEF R
<1>. HIDE DEF R
<1>4. ASSUME NEW m \in T
      PROVE  n <= m
  <2>1. ~(m < n)
    BY <1>2, <1>3, Zenon
  <2>2. m \in Nat /\ n \in Nat
    OBVIOUS
  <2>. QED
    BY <2>1, <2>2
<1>. QED
  BY <1>4

\* Induction on the size of the elements of a set.
Hereditary(T, S, size) ==
    \A s \in S : (\A r \in S : size[r] < size[s] => r \in T) => s \in T

\* What holds at an element when it holds at all smaller ones holds everywhere.
LEMMA Induction ==
    ASSUME NEW S, NEW size \in [S -> Nat], NEW T, Hereditary(T, S, size)
    PROVE  S \subseteq T
<1>1. CASE S \ T /= {}
  <2>. DEFINE Sizes == {size[s] : s \in S \ T}
  <2>1. Sizes \in SUBSET Nat /\ Sizes /= {}
    BY <1>1
  <2>2. PICK n \in Sizes : \A m \in Sizes : n <= m
    BY <2>1, Least
  <2>3. PICK s \in S \ T : n = size[s]
    BY <2>2
  <2>4. ASSUME NEW r \in S, size[r] < size[s]
        PROVE  r \in T
    <3>1. r \notin T => n <= size[r]
      BY <2>2
    <3>. QED
      BY <2>3, <2>4, <3>1
  <2>. QED
    BY <2>3, <2>4 DEF Hereditary
<1>. QED
  BY <1>1

\* From 0 up to n, one by one.
LEMMA Upward ==
    ASSUME NEW n \in Nat, NEW T, 0 \in T, \A i \in 1 .. n : i - 1 \in T => i \in T
    PROVE  0 .. n \subseteq T
<1>. DEFINE S == 0 .. n
            size == [i \in S |-> i]
<1>1. ASSUME NEW i \in S, \A r \in S : size[r] < size[i] => r \in T
      PROVE  i \in T
  <2>1. CASE i = 0
    BY <2>1
  <2>2. CASE i /= 0
    <3>1. i - 1 \in S /\ size[i - 1] < size[i] /\ i \in 1 .. n
      BY <2>2
    <3>. QED
      BY <1>1, <3>1
  <2>. QED
    BY <2>1, <2>2
<1>2. size \in [S -> Nat]
  OBVIOUS
<1>. HIDE DEF S, size
<1>3. S \subseteq T
  BY <1>1, <1>2, Induction DEF Hereditary
<1>. QED
  BY <1>3 DEF S

\* From n down to 0, one by one.
LEMMA Downward ==
    ASSUME NEW n \in Nat, NEW T, n \in T, \A i \in 0 .. n - 1 : i + 1 \in T => i \in T
    PROVE  0 .. n \subseteq T
<1>. DEFINE S == 0 .. n
            size == [i \in S |-> n - i]
<1>1. ASSUME NEW i \in S, \A r \in S : size[r] < size[i] => r \in T
      PROVE  i \in T
  <2>1. CASE i = n
    BY <2>1
  <2>2. CASE i /= n
    <3>1. i + 1 \in S /\ size[i + 1] < size[i] /\ i \in 0 .. n - 1
      BY <2>2
    <3>. QED
      BY <1>1, <3>1
  <2>. QED
    BY <2>1, <2>2
<1>2. size \in [S -> Nat]
  OBVIOUS
<1>. HIDE DEF S, size
<1>3. S \subseteq T
  BY <1>1, <1>2, Induction DEF Hereditary
<1>. QED
  BY <1>3 DEF S

\* A function whose value at an element depends on its values at smaller elements
\* only: it is what step makes of it.
Decides(step, S, V, size) ==
    \A s \in S, g, h \in [S -> V] :
        (\A r \in S : size[r] < size[s] => g[r] = h[r]) => step[<<g, s>>] = step[<<h, s>>]

Solves(g, step, S, size, k) == \A s \in S : size[s] < k => g[s] = step[<<g, s>>]

Unfolds(f, step, S) == \A s \in S : f[s] = step[<<f, s>>]

Same(g, h, S, size, k) == \A s \in S : size[s] < k => g[s] = h[s]

\* Two functions that do what step says up to a size are equal up to that size.
LEMMA Agree ==
    ASSUME NEW S, NEW V, NEW size \in [S -> Nat],
           NEW step \in [[S -> V] \X S -> V], Decides(step, S, V, size),
           NEW k \in Nat, NEW g \in [S -> V], Solves(g, step, S, size, k),
           NEW j \in Nat, NEW h \in [S -> V], Solves(h, step, S, size, j), k <= j
    PROVE  Same(g, h, S, size, k)
<1>. DEFINE A == {s \in S : size[s] < k => g[s] = h[s]}
<1>1. ASSUME NEW s \in S, \A r \in S : size[r] < size[s] => r \in A
      PROVE  s \in A
  <2>. SUFFICES ASSUME size[s] < k
                PROVE  g[s] = h[s]
    OBVIOUS
  <2>1. \A r \in S : size[r] < size[s] => g[r] = h[r]
    BY <1>1
  <2>2. step[<<g, s>>] = step[<<h, s>>]
    BY <2>1 DEF Decides
  <2>. QED
    BY <2>2 DEF Solves
<1>2. S \subseteq A
  <2>. HIDE DEF A
  <2>. QED
    BY <1>1, Induction DEF Hereditary
<1>. QED
  BY <1>2 DEF Same

\* There is one that does up to any size.
LEMMA Solvable ==
    ASSUME NEW S, NEW V, V /= {}, NEW size \in [S -> Nat],
           NEW step \in [[S -> V] \X S -> V], Decides(step, S, V, size), NEW n \in Nat
    PROVE  \E g \in [S -> V] : Solves(g, step, S, size, n)
<1>. DEFINE P(k) == \E g \in [S -> V] : Solves(g, step, S, size, k)
            T == {k \in Nat : P(k)}
            id == [k \in Nat |-> k]
<1>1. ASSUME NEW k \in Nat, P(k)
      PROVE  P(k + 1)
  <2>1. PICK g \in [S -> V] : Solves(g, step, S, size, k)
    BY <1>1
  <2>. DEFINE h == [s \in S |-> IF size[s] = k THEN step[<<g, s>>] ELSE g[s]]
  <2>2. h \in [S -> V]
    OBVIOUS
  <2>3. ASSUME NEW s \in S, size[s] < k + 1
        PROVE  h[s] = step[<<h, s>>]
    <3>1. \A r \in S : size[r] < size[s] => g[r] = h[r]
      BY <2>3
    <3>2. step[<<g, s>>] = step[<<h, s>>]
      BY <2>2, <3>1 DEF Decides
    <3>3. CASE size[s] = k
      BY <3>2, <3>3
    <3>4. CASE size[s] < k
      BY <2>1, <3>2, <3>4 DEF Solves
    <3>. QED
      BY <2>3, <3>3, <3>4
  <2>4. Solves(h, step, S, size, k + 1)
    BY <2>3 DEF Solves
  <2>. HIDE DEF h
  <2>. QED
    BY <2>2, <2>4
<1>2. P(0)
  <2>. DEFINE any == [s \in S |-> CHOOSE v \in V : TRUE]
  <2>1. any \in [S -> V] /\ Solves(any, step, S, size, 0)
    BY DEF Solves
  <2>. HIDE DEF any
  <2>. QED
    BY <2>1
<1>. HIDE DEF P
<1>3. ASSUME NEW k \in Nat, \A m \in Nat : id[m] < id[k] => m \in T
      PROVE  k \in T
  <2>1. CASE k = 0
    BY <1>2, <2>1
  <2>2. CASE k > 0
    <3>1. k - 1 \in Nat /\ id[k - 1] < id[k] /\ k - 1 + 1 = k
      BY <2>2
    <3>2. P(k - 1)
      BY <1>3, <3>1
    <3>3. P(k - 1 + 1)
      BY <3>1, <3>2, <1>1
    <3>. QED
      BY <3>1, <3>3
  <2>. QED
    BY <2>1, <2>2
<1>4. id \in [Nat -> Nat]
  OBVIOUS
<1>. HIDE DEF T, id
<1>5. Hereditary(T, Nat, id)
  BY <1>3 DEF Hereditary
<1>6. Nat \subseteq T
  BY <1>4, <1>5, Induction
<1>. QED
  BY <1>6 DEF P, T

\* There is one that does everywhere: a recursive function unfolds as it is defined.
LEMMA Recursion ==
    ASSUME NEW S, NEW V, V /= {}, NEW size \in [S -> Nat],
           NEW step \in [[S -> V] \X S -> V], Decides(step, S, V, size)
    PROVE  \E f \in [S -> V] : Unfolds(f, step, S)
<1>. DEFINE G(k) == CHOOSE g \in [S -> V] : Solves(g, step, S, size, k)
            f == [s \in S |-> G(size[s] + 1)[s]]
<1>1. \A k \in Nat : G(k) \in [S -> V] /\ Solves(G(k), step, S, size, k)
  BY Solvable
<1>. HIDE DEF G
<1>2. f \in [S -> V]
  BY <1>1
<1>3. ASSUME NEW s \in S
      PROVE  f[s] = step[<<f, s>>]
  <2>. DEFINE n == size[s] + 1
              g == G(n)
  <2>0. n \in Nat
    OBVIOUS
  <2>1. g \in [S -> V] /\ Solves(g, step, S, size, n)
    BY <1>1, <2>0
  <2>2. ASSUME NEW r \in S, size[r] < size[s]
        PROVE  f[r] = g[r]
    <3>. DEFINE m == size[r] + 1
    <3>1. m \in Nat /\ m <= n /\ size[r] < m
      BY <2>2
    <3>2. G(m) \in [S -> V] /\ Solves(G(m), step, S, size, m)
      BY <1>1, <3>1
    <3>3. f[r] = G(m)[r]
      OBVIOUS
    <3>. DEFINE h == G(m)
    <3>. HIDE DEF g, n, m, f, h
    <3>4. h \in [S -> V] /\ Solves(h, step, S, size, m)
      BY <3>2 DEF h
    <3>5. Same(h, g, S, size, m)
      BY <2>0, <2>1, <3>1, <3>4, Agree
    <3>. QED
      BY <3>1, <3>3, <3>5 DEF h, Same
  <2>3. step[<<f, s>>] = step[<<g, s>>]
    BY <1>2, <2>1, <2>2 DEF Decides
  <2>4. f[s] = g[s]
    OBVIOUS
  <2>5. g[s] = step[<<g, s>>]
    <3>1. size[s] < n
      OBVIOUS
    <3>. HIDE DEF g, n
    <3>. QED
      BY <2>1, <3>1 DEF Solves
  <2>. QED
    BY <2>3, <2>4, <2>5
<1>. HIDE DEF f
<1>. QED
  BY <1>2, <1>3 DEF Unfolds

-----------------------------------------------------------------------------
(* Joining the texts of a sequence.                                          *)

\* The joined texts of a sequence, one after the other.
IsFlattened(joined, texts, A) ==
    /\ joined \in [0 .. Len(texts) -> Seq(A)]
    /\ joined[0] = <<>>
    /\ \A i \in 1 .. Len(texts) : joined[i] = joined[i - 1] \o texts[i]
    /\ FlattenSeq(texts) = joined[Len(texts)]

\* Texts are joined one after the other, at any number.
LEMMA FlattenUnfolds ==
    ASSUME NEW A, NEW texts \in Seq(Seq(A))
    PROVE  \E joined : IsFlattened(joined, texts, A)
<1>. DEFINE S == 1 .. Len(texts)
            Body(g, i) == IF i = 1 THEN texts[i] ELSE g[i - 1] \o texts[i]
            step == [p \in [S -> Seq(A)] \X S |-> Body(p[1], p[2])]
            size == [i \in S |-> i]
            B(g) == [i \in S |-> Body(g, i)]
            f == CHOOSE g : g = B(g)
<1>1. ASSUME NEW i \in S
      PROVE  texts[i] \in Seq(A) /\ (i /= 1 => i - 1 \in S /\ i - 1 < i)
  <2>1. texts[i] \in Seq(A)
    BY ElementOfSeq
  <2>. QED
    BY <2>1
<1>2. step \in [[S -> Seq(A)] \X S -> Seq(A)]
  <2>1. ASSUME NEW g \in [S -> Seq(A)], NEW i \in S
        PROVE  Body(g, i) \in Seq(A)
    <3>1. CASE i = 1
      BY <1>1, <3>1
    <3>2. CASE i /= 1
      <4>1. g[i - 1] \in Seq(A) /\ texts[i] \in Seq(A)
        BY <1>1, <3>2
      <4>. QED
        BY <3>2, <4>1, ConcatProperties
    <3>. QED
      BY <3>1, <3>2
  <2>. HIDE DEF Body, S
  <2>. QED
    BY <2>1
<1>3. Decides(step, S, Seq(A), size)
  <2>1. ASSUME NEW i \in S, NEW g \in [S -> Seq(A)], NEW h \in [S -> Seq(A)],
               \A r \in S : size[r] < size[i] => g[r] = h[r]
        PROVE  step[<<g, i>>] = step[<<h, i>>]
    <3>1. i /= 1 => g[i - 1] = h[i - 1]
      BY <1>1, <2>1
    <3>2. Body(g, i) = Body(h, i)
      BY <3>1
    <3>3. step[<<g, i>>] = Body(g, i) /\ step[<<h, i>>] = Body(h, i)
      <4>. HIDE DEF Body, S
      <4>. QED
        OBVIOUS
    <3>. QED
      BY <3>2, <3>3
  <2>. HIDE DEF step, S, size
  <2>. QED
    BY <2>1 DEF Decides
<1>4. \E g : g = B(g)
  <2>1. size \in [S -> Nat] /\ Seq(A) /= {}
    BY EmptySeq
  <2>. HIDE DEF step, S, size
  <2>2. PICK g \in [S -> Seq(A)] : Unfolds(g, step, S)
    BY <1>2, <1>3, <2>1, Recursion
  <2>3. \A i \in S : g[i] = step[<<g, i>>]
    BY <2>2 DEF Unfolds
  <2>. HIDE DEF Body
  <2>4. \A i \in S : g[i] = Body(g, i)
    BY <2>3 DEF step
  <2>5. g = B(g)
    BY <2>4
  <2>. QED
    BY <2>5
<1>5. f = B(f)
  <2>. HIDE DEF B
  <2>. QED
    BY <1>4
<1>6. Len(texts) /= 0 => FlattenSeq(texts) = f[Len(texts)]
  BY DEF FlattenSeq
<1>. HIDE DEF f
<1>7. \A i \in S : f[i] = Body(f, i)
  <2>. HIDE DEF Body, S
  <2>. QED
    BY <1>5
<1>8. \A i \in S : f[i] \in Seq(A)
  <2>. DEFINE T == {i \in S : f[i] \in Seq(A)}
  <2>1. ASSUME NEW i \in S, \A r \in S : size[r] < size[i] => r \in T
        PROVE  i \in T
    <3>1. CASE i = 1
      BY <1>1, <1>7, <3>1
    <3>2. CASE i /= 1
      <4>1. f[i - 1] \in Seq(A) /\ texts[i] \in Seq(A)
        BY <1>1, <2>1, <3>2
      <4>2. f[i] = f[i - 1] \o texts[i]
        BY <1>7, <3>2
      <4>. QED
        BY <4>1, <4>2, ConcatProperties
    <3>. QED
      BY <3>1, <3>2
  <2>2. size \in [S -> Nat]
    OBVIOUS
  <2>. HIDE DEF S, size, T
  <2>3. S \subseteq T
    BY <2>1, <2>2, Induction DEF Hereditary
  <2>. QED
    BY <2>3 DEF T
<1>. DEFINE joined == [i \in 0 .. Len(texts) |-> IF i = 0 THEN <<>> ELSE f[i]]
<1>9. joined \in [0 .. Len(texts) -> Seq(A)]
  BY <1>8, EmptySeq
<1>10. ASSUME NEW i \in S
       PROVE  joined[i] = joined[i - 1] \o texts[i]
  <2>1. joined[i] = f[i] /\ joined[i - 1] = IF i = 1 THEN <<>> ELSE f[i - 1]
    BY <1>1
  <2>2. f[i] = IF i = 1 THEN texts[i] ELSE f[i - 1] \o texts[i]
    BY <1>7
  <2>3. <<>> \o texts[i] = texts[i]
    BY <1>1, ConcatEmptySeq
  <2>. QED
    BY <2>1, <2>2, <2>3
<1>11. FlattenSeq(texts) = joined[Len(texts)]
  <2>1. CASE Len(texts) = 0
    <3>1. texts = <<>> /\ FlattenSeq(texts) = texts
      BY <2>1, EmptySeq DEF FlattenSeq
    <3>. QED
      BY <2>1, <3>1
  <2>2. CASE Len(texts) /= 0
    <3>1. Len(texts) \in 0 .. Len(texts)
      OBVIOUS
    <3>. QED
      BY <1>6, <2>2, <3>1
  <2>. QED
    BY <2>1, <2>2
<1>12. joined[0] = <<>>
  OBVIOUS
<1>. HIDE DEF joined
<1>. QED
  BY <1>9, <1>10, <1>11, <1>12 DEF IsFlattened

-----------------------------------------------------------------------------
(* Cutting sequences.                                                        *)

\* A sequence cut after n elements: both parts, their lengths and elements.
LEMMA CutParts ==
    ASSUME NEW B, NEW s \in Seq(B), NEW n \in 0 .. Len(s)
    PROVE  /\ FirstOf(s, n) = SubSeq(s, 1, n) /\ After(s, n) = SubSeq(s, n + 1, Len(s))
           /\ FirstOf(s, n) \in Seq(B) /\ After(s, n) \in Seq(B)
           /\ Len(FirstOf(s, n)) = n /\ Len(After(s, n)) = Len(s) - n
           /\ \A i \in 1 .. n : FirstOf(s, n)[i] = s[i]
           /\ \A i \in 1 .. Len(s) - n : After(s, n)[i] = s[n + i]
<1>. USE DEF FirstOf, After
<1>1. FirstOf(s, n) = SubSeq(s, 1, n)
  OBVIOUS
<1>2. SubSeq(s, 1, n) \in Seq(B) /\ SubSeq(s, n + 1, Len(s)) \in Seq(B)
  BY SubSeqProperties
<1>3. Len(SubSeq(s, 1, n)) = n /\ \A i \in 1 .. n : SubSeq(s, 1, n)[i] = s[i]
  BY SubSeqProperties
<1>4. /\ Len(SubSeq(s, n + 1, Len(s))) = Len(s) - n
      /\ \A i \in 1 .. Len(s) - n : SubSeq(s, n + 1, Len(s))[i] = s[n + i]
  BY SubSeqProperties
<1>. QED
  BY <1>1, <1>2, <1>3, <1>4

\* The parts of a sequence that was cut make it again.
LEMMA CutJoins ==
    ASSUME NEW B, NEW s \in Seq(B), NEW n \in 0 .. Len(s)
    PROVE  FirstOf(s, n) \o After(s, n) = s
<1>1. 1 \in 1 .. Len(s) + 1 /\ n \in 1 - 1 .. Len(s) /\ Len(s) \in n .. Len(s)
  OBVIOUS
<1>2. SubSeq(s, 1, n) \o SubSeq(s, n + 1, Len(s)) = SubSeq(s, 1, Len(s))
  BY <1>1, ConcatAdjacentSubSeq
<1>. QED
  BY <1>2, CutParts, SubSeqFull

\* indexOf() is the first place where the character is, or 0 if it is nowhere.
LEMMA FirstPlace ==
    ASSUME NEW B, NEW s \in Seq(B), NEW c
    PROVE  /\ IndexOf(s, c) \in 0 .. Len(s)
           /\ IndexOf(s, c) = 0 => \A i \in 1 .. Len(s) : s[i] /= c
           /\ IndexOf(s, c) > 0 => s[IndexOf(s, c)] = c
           /\ \A i \in 1 .. IndexOf(s, c) - 1 : s[i] /= c
<1>. DEFINE Places == {i \in 1 .. Len(s) : s[i] = c}
<1>1. IndexOf(s, c) = IF Places /= {} THEN Min(Places) ELSE 0
  BY DEF IndexOf, SelectInSeq
<1>2. CASE Places = {}
  BY <1>1, <1>2
<1>3. CASE Places /= {}
  <2>1. PICK n \in Places : \A m \in Places : n <= m
    <3>1. Places \in SUBSET Nat
      OBVIOUS
    <3>. QED
      BY <1>3, <3>1, Least
  <2>2. Min(Places) \in Places /\ \A m \in Places : Min(Places) <= m
    BY <2>1 DEF Min
  <2>3. IndexOf(s, c) = Min(Places)
    BY <1>1, <1>3
  <2>. HIDE DEF Places
  <2>4. IndexOf(s, c) \in Places /\ \A m \in Places : IndexOf(s, c) <= m
    BY <2>2, <2>3
  <2>. QED
    BY <2>4 DEF Places
<1>. QED
  BY <1>2, <1>3

\* A place of the character with none before it is the first.
LEMMA FirstPlaceIs ==
    ASSUME NEW B, NEW s \in Seq(B), NEW c, NEW n \in 1 .. Len(s), s[n] = c,
           \A i \in 1 .. n - 1 : s[i] /= c
    PROVE  IndexOf(s, c) = n
BY FirstPlace

\* A place in a text cuts it in one way.
LEMMA CutIs ==
    ASSUME NEW B, NEW a \in Seq(B), NEW b \in Seq(B)
    PROVE  FirstOf(a \o b, Len(a)) = a /\ After(a \o b, Len(a)) = b
<1>. DEFINE n == Len(a)
            s == a \o b
<1>1. s \in Seq(B) /\ Len(s) = n + Len(b) /\ n \in 0 .. Len(s)
  BY ConcatProperties
<1>2. FirstOf(s, n) \o After(s, n) = s
  BY <1>1, CutJoins
<1>3. FirstOf(s, n) \in Seq(B) /\ After(s, n) \in Seq(B) /\ Len(FirstOf(s, n)) = n
  BY <1>1, CutParts
<1>4. FirstOf(s, n) = a
  <2>1. ASSUME NEW i \in 1 .. n
        PROVE  FirstOf(s, n)[i] = a[i]
    <3>1. FirstOf(s, n)[i] = s[i]
      BY <1>1, CutParts
    <3>2. s[i] = a[i]
      BY ConcatProperties
    <3>. QED
      BY <3>1, <3>2
  <2>. HIDE DEF s
  <2>. QED
    BY <1>3, <2>1, SeqEqual
<1>5. a \o After(s, n) = a \o b
  BY <1>2, <1>4
<1>. HIDE DEF s, n
<1>6. After(s, n) = b
  BY <1>3, <1>5, ConcatSimplifications
<1>. QED
  BY <1>4, <1>6 DEF s, n

-----------------------------------------------------------------------------
(* Ends of a text.                                                           *)

\* A sequence ends with what was put behind another one.
LEMMA SuffixOfJoin ==
    ASSUME NEW B, NEW p \in Seq(B), NEW s \in Seq(B)
    PROVE  IsSuffix(s, p \o s)
<1>. DEFINE t == p \o s
            m == Len(s)
<1>1. /\ t \in Seq(B) /\ Len(t) = Len(p) + m
      /\ \A i \in 1 .. Len(p) + m : t[i] = IF i <= Len(p) THEN p[i] ELSE s[i - Len(p)]
  BY ConcatProperties
<1>2. Len(Reverse(s)) = m /\ Len(Reverse(t)) = Len(t)
  BY <1>1 DEF Reverse
<1>3. Reverse(s) \in Seq(B) /\ Reverse(t) \in Seq(B)
  BY <1>1 DEF Reverse
<1>4. ASSUME NEW i \in 1 .. m
      PROVE  Reverse(t)[i] = Reverse(s)[i]
  <2>1. Len(t) - i + 1 \in 1 .. Len(p) + m /\ Len(t) - i + 1 > Len(p)
    BY <1>1
  <2>2. t[Len(t) - i + 1] = s[Len(t) - i + 1 - Len(p)]
    BY <1>1, <2>1
  <2>3. Len(t) - i + 1 - Len(p) = m - i + 1
    BY <1>1
  <2>4. Reverse(t)[i] = t[Len(t) - i + 1] /\ Reverse(s)[i] = s[m - i + 1]
    BY <1>1 DEF Reverse
  <2>. QED
    BY <2>2, <2>3, <2>4
<1>. HIDE DEF t, m
<1>5. SubSeq(Reverse(s), 1, m) = SubSeq(Reverse(t), 1, m)
  BY <1>1, <1>2, <1>3, <1>4, SubSeqProperties, SeqEqual
<1>. QED
  BY <1>1, <1>2, <1>5 DEF IsSuffix, IsPrefix, t, m

-----------------------------------------------------------------------------
(* The same for bytes, where Bytes need not be expanded.                     *)

\* Joined bytes: their length and elements, and the last one.
LEMMA Join ==
    ASSUME NEW a \in Bytes, NEW b \in Bytes
    PROVE  /\ a \o b \in Bytes /\ Len(a) \in Nat /\ Len(b) \in Nat
           /\ Len(a \o b) = Len(a) + Len(b)
           /\ \A i \in 1 .. Len(a) : (a \o b)[i] = a[i]
           /\ b /= <<>> => a \o b /= <<>> /\ (a \o b)[Len(a \o b)] = b[Len(b)]
<1>1. /\ a \o b \in Bytes /\ Len(a) \in Nat /\ Len(b) \in Nat
      /\ Len(a \o b) = Len(a) + Len(b)
      /\ \A i \in 1 .. Len(a) : (a \o b)[i] = a[i]
  BY ConcatProperties DEF Bytes
<1>2. ASSUME b /= <<>>
      PROVE  a \o b /= <<>> /\ (a \o b)[Len(a \o b)] = b[Len(b)]
  <2>1. Len(b) > 0
    BY <1>1, <1>2, EmptySeq DEF Bytes
  <2>. DEFINE n == Len(a) + Len(b)
  <2>2. n \in 1 .. n /\ ~(n <= Len(a)) /\ n - Len(a) = Len(b)
    BY <1>1, <2>1
  <2>. HIDE DEF n
  <2>3. (a \o b)[n] = b[n - Len(a)]
    BY <2>2, ConcatProperties DEF Bytes, n
  <2>4. Len(a \o b) > 0
    BY <1>1, <2>1
  <2>5. a \o b /= <<>>
    BY <1>1, <2>4, EmptySeq DEF Bytes
  <2>. QED
    BY <1>1, <2>2, <2>3, <2>5 DEF n
<1>. QED
  BY <1>1, <1>2

\* The elements of both parts.
LEMMA Joined ==
    ASSUME NEW a \in Bytes, NEW b \in Bytes
    PROVE  /\ Len(a \o b) = Len(a) + Len(b) /\ Len(a) \in Nat /\ Len(b) \in Nat
           /\ \A k \in 1 .. Len(a) + Len(b) :
                 (a \o b)[k] = IF k <= Len(a) THEN a[k] ELSE b[k - Len(a)]
BY ConcatProperties DEF Bytes

\* It does not matter which are joined first.
LEMMA Joins ==
    ASSUME NEW a \in Bytes, NEW b \in Bytes, NEW c \in Bytes
    PROVE  (a \o b) \o c = a \o (b \o c)
BY ConcatAssociative DEF Bytes

\* The empty text changes nothing.
LEMMA Empty ==
    <<>> \in Bytes /\ \A a \in Bytes : <<>> \o a = a /\ a \o <<>> = a
BY ConcatEmptySeq DEF Bytes

\* Bytes that are cut after n.
LEMMA Cut ==
    ASSUME NEW s \in Bytes, NEW n \in 0 .. Len(s)
    PROVE  /\ FirstOf(s, n) \in Bytes /\ After(s, n) \in Bytes
           /\ Len(FirstOf(s, n)) = n /\ Len(After(s, n)) = Len(s) - n
           /\ FirstOf(s, n) = SubSeq(s, 1, n)
           /\ s = FirstOf(s, n) \o After(s, n)
BY CutParts, CutJoins DEF Bytes

\* Joined bytes that are cut where they were joined.
LEMMA CutJoined ==
    ASSUME NEW a \in Bytes, NEW b \in Bytes
    PROVE  FirstOf(a \o b, Len(a)) = a /\ After(a \o b, Len(a)) = b
BY CutIs DEF Bytes

\* A single byte.
LEMMA One == ASSUME NEW c \in 0 .. 255
             PROVE  <<c>> \in Bytes /\ Len(<<c>>) = 1 /\ <<c>>[1] = c /\ <<c>> /= <<>>
BY DEF Bytes

\* A text begins with another one if that one is cut off by its length.
LEMMA PrefixIsCut ==
    ASSUME NEW a \in Bytes, NEW s \in Bytes
    PROVE  IsPrefix(a, s) <=> \E t \in Bytes : s = a \o t
<1>1. Len(a) \in Nat /\ SubSeq(a, 1, Len(a)) = a
  BY SubSeqFull DEF Bytes
<1>2. ASSUME IsPrefix(a, s)
      PROVE  \E t \in Bytes : s = a \o t
  <2>1. Len(a) \in 0 .. Len(s) /\ a = SubSeq(s, 1, Len(a))
    <3>1. Len(s) \in Nat
      BY DEF Bytes
    <3>. QED
      BY <1>1, <1>2, <3>1 DEF IsPrefix
  <2>. DEFINE n == Len(a)
  <2>2. After(s, n) \in Bytes /\ FirstOf(s, n) = SubSeq(s, 1, n) /\ s = FirstOf(s, n) \o After(s, n)
    <3>1. n \in 0 .. Len(s)
      BY <2>1
    <3>. HIDE DEF n
    <3>. QED
      BY <3>1, Cut
  <2>. QED
    BY <2>1, <2>2
<1>3. ASSUME NEW t \in Bytes, s = a \o t
      PROVE  IsPrefix(a, s)
  <2>1. FirstOf(s, Len(a)) = a
    BY <1>3, CutJoined
  <2>2. Len(a) \in 0 .. Len(s) /\ Len(a) <= Len(s)
    BY <1>3, Join
  <2>3. SubSeq(s, 1, Len(a)) = a
    BY <2>1, <2>2, Cut
  <2>. QED
    BY <1>1, <2>2, <2>3 DEF IsPrefix
<1>. QED
  BY <1>2, <1>3
===============================================================================
