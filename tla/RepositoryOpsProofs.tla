------------------------- MODULE RepositoryOpsProofs -------------------------
(***************************************************************************)
(* What the operations of the store keep and bound, for every repository.  *)
(* RepositoryProofs and KdesudProofs rest on these lemmas.                 *)
(***************************************************************************)
EXTENDS RepositoryOps, WellFoundedInduction, TLAPS

LEMMA MinExists ==
    ASSUME NEW S \in SUBSET Nat, S /= {}
    PROVE  /\ Min(S) \in S
           /\ \A y \in S : Min(S) <= y
<1>. DEFINE Less == {ss \in Nat \X Nat : ss[1] < ss[2]}
<1>1. IsWellFoundedOn(Less, Nat)
  BY NatLessThanWellFounded, Zenon DEF OpToRel
<1>2. PICK x \in S : \A y \in S : ~(<<y, x>> \in Less)
  BY <1>1, WFMin
<1>3. \A a, b \in Nat : a < b => <<a, b>> \in Less
  BY Zenon DEF Less
<1>. HIDE DEF Less
<1>4. ASSUME NEW y \in S PROVE x <= y
  <2>1. x \in Nat /\ y \in Nat
    OBVIOUS
  <2>2. ~(y < x)
    BY <1>2, <1>3, <2>1, Zenon
  <2>. QED
    BY <2>1, <2>2
<1>. QED
  BY <1>4 DEF Min
-----------------------------------------------------------------------------
(* Unsigned arithmetic.                                                      *)

\* Reduction modulo 2^32 gives an unsigned int ...
LEMMA UnsignedRange ==
    ASSUME NEW n \in Nat
    PROVE  Unsigned(n) \in Times
BY RepositoryAssumption DEF Unsigned, Times

\* ... and leaves every unsigned int as it is.
LEMMA UnsignedIdentity ==
    ASSUME NEW n \in Times
    PROVE  Unsigned(n) = n
BY RepositoryAssumption DEF Unsigned, Times

LEMMA DeadlineRange ==
    ASSUME NEW timeout \in Nat, NEW now \in Nat
    PROVE  Deadline(timeout, now) \in Times
BY RepositoryAssumption, UnsignedRange DEF Deadline, Never, Times

-----------------------------------------------------------------------------
(* The operations keep a repository a repository.                            *)

LEMMA EmptyRepositoryType == EmptyRepository \in Repositories
BY RepositoryAssumption DEF EmptyRepository, Repositories, Never, Times

LEMMA AddedType ==
    ASSUME NEW r \in Repositories, NEW key \in Keys, NEW value \in Values,
           NEW group \in Groups, NEW timeout \in Nat, NEW now \in Nat
    PROVE  Added(r, key, value, group, timeout, now) \in Repositories
<1>. DEFINE deadline == Deadline(timeout, now)
<1>1. deadline \in Times
  BY DeadlineRange
<1>2. Earlier(r.head_time, deadline) \in Times
  BY <1>1 DEF Earlier, Repositories
<1>3. [value |-> value, group |-> group, timeout |-> deadline] \in DataEntries
  BY <1>1 DEF DataEntries
<1>. QED
  BY <1>2, <1>3 DEF Added, Repositories

LEMMA WithoutType ==
    ASSUME NEW r \in Repositories, NEW ks
    PROVE  Without(r, ks) \in Repositories
BY DEF Without, Repositories

LEMMA HeadTimeOfBound ==
    ASSUME NEW r \in Repositories, NEW ks \in SUBSET Stored(r)
    PROVE  /\ HeadTimeOf(r, ks) \in Times
           /\ \A k \in ks : HeadTimeOf(r, ks) <= r.entries[k].timeout
<1>. DEFINE times == {Never} \cup {r.entries[k].timeout : k \in ks}
<1>1. \A k \in ks : r.entries[k] \in DataEntries
  BY DEF Stored, Repositories
<1>2. times \subseteq Times
  BY <1>1, RepositoryAssumption DEF DataEntries, Never, Times
<1>3. times \in SUBSET Nat /\ times /= {}
  BY <1>2 DEF Times
<1>4. Min(times) \in times /\ \A y \in times : Min(times) <= y
  BY <1>3, MinExists
<1>5. HeadTimeOf(r, ks) = Min(times)
  BY DEF HeadTimeOf
<1>. QED
  BY <1>2, <1>4, <1>5

LEMMA ExpiredType ==
    ASSUME NEW r \in Repositories, NEW now \in Nat
    PROVE  Expired(r, now) \in Repositories
<1>. DEFINE due == Due(r, Unsigned(now))
<1>1. Without(r, due) \in Repositories
  BY WithoutType
<1>2. HeadTimeOf(r, Stored(r) \ due) \in Times
  BY HeadTimeOfBound
<1>3. [Without(r, due) EXCEPT !.head_time = HeadTimeOf(r, Stored(r) \ due)]
        \in Repositories
  BY <1>1, <1>2 DEF Repositories
<1>. QED
  BY <1>3 DEF Expired

-----------------------------------------------------------------------------
(* The operations keep head_time below every time-out.                       *)

LEMMA AddedBound ==
    ASSUME NEW r \in Repositories, HeadIsBound(r),
           NEW key \in Keys, NEW value \in Values, NEW group \in Groups,
           NEW timeout \in Nat, NEW now \in Nat
    PROVE  HeadIsBound(Added(r, key, value, group, timeout, now))
<1>. DEFINE deadline == Deadline(timeout, now)
            new == Added(r, key, value, group, timeout, now)
<1>1. deadline \in Times
  BY DeadlineRange
<1>2. new.head_time = Earlier(r.head_time, deadline)
  BY DEF Added
<1>3. r.head_time \in Times
  BY DEF Repositories
<1>4. /\ new.head_time <= deadline
      /\ new.head_time <= r.head_time
  BY <1>1, <1>2, <1>3, RepositoryAssumption DEF Earlier, Times
<1>5. new.entries[key].timeout = deadline
  BY DEF Added, Repositories
<1>6. ASSUME NEW k \in Stored(new), k /= key
      PROVE  new.head_time <= new.entries[k].timeout
  <2>1. k \in Stored(r) /\ new.entries[k] = r.entries[k]
    BY <1>6 DEF Stored, Added, Repositories
  <2>2. r.entries[k].timeout \in Times
    BY <2>1 DEF Stored, Repositories, DataEntries
  <2>3. new.head_time \in Times
    BY <1>1, <1>2, <1>3 DEF Earlier
  <2>. QED
    BY <1>3, <1>4, <2>1, <2>2, <2>3, RepositoryAssumption DEF HeadIsBound, Times
<1>. QED
  BY <1>4, <1>5, <1>6 DEF HeadIsBound

\* What a deletion leaves in the store is unchanged, and so is head_time.
LEMMA WithoutStored ==
    ASSUME NEW r \in Repositories, NEW ks
    PROVE  /\ Stored(Without(r, ks)) = Stored(r) \ ks
           /\ \A k \in Stored(r) \ ks : Without(r, ks).entries[k] = r.entries[k]
           /\ Without(r, ks).head_time = r.head_time
BY DEF Without, Stored, Repositories

LEMMA WithoutBound ==
    ASSUME NEW r \in Repositories, HeadIsBound(r), NEW ks
    PROVE  HeadIsBound(Without(r, ks))
BY WithoutStored DEF HeadIsBound

LEMMA ExpiredBound ==
    ASSUME NEW r \in Repositories, HeadIsBound(r), NEW now \in Nat
    PROVE  HeadIsBound(Expired(r, now))
<1>. DEFINE due  == Due(r, Unsigned(now))
            kept == Stored(r) \ due
            rest == Without(r, due)
            new  == [rest EXCEPT !.head_time = HeadTimeOf(r, kept)]
<1>1. \A k \in kept : HeadTimeOf(r, kept) <= r.entries[k].timeout
  BY HeadTimeOfBound
<1>2. rest \in Repositories
  BY WithoutType
<1>3. new.entries = rest.entries /\ new.head_time = HeadTimeOf(r, kept)
  BY <1>2 DEF Repositories
<1>4. Stored(new) = kept /\ \A k \in kept : new.entries[k] = r.entries[k]
  BY <1>3, WithoutStored DEF Stored
<1>5. HeadIsBound(new)
  BY <1>1, <1>3, <1>4 DEF HeadIsBound
<1>. QED
  BY <1>5 DEF Expired

-----------------------------------------------------------------------------
(* What expire() and add() do to entries while deadlines stay in range.      *)

\* A stored entry is a Data_entry, and never the mark of an absent one.
LEMMA StoredType ==
    ASSUME NEW r \in Repositories, NEW k \in Stored(r)
    PROVE  /\ k \in Keys
           /\ r.entries[k] \in DataEntries
           /\ r.entries[k].timeout \in Nat
BY DEF Stored, Repositories, DataEntries, Times

LEMMA StoredAfterAdd ==
    ASSUME NEW r \in Repositories, NEW key \in Keys, NEW value \in Values,
           NEW group \in Groups, NEW timeout \in Nat, NEW now \in Nat
    PROVE  LET new == Added(r, key, value, group, timeout, now)
           IN  /\ new.entries[key].timeout = Deadline(timeout, now)
               /\ \A k \in Stored(new) :
                     k /= key => k \in Stored(r) /\ new.entries[k] = r.entries[k]
BY DEF Added, Stored, Repositories

\* Within the range of unsigned int a deadline is in the future.
LEMMA DeadlineValue ==
    ASSUME NEW timeout \in Nat, NEW now \in Nat,
           now < Never, now + timeout < Never
    PROVE  /\ Deadline(timeout, now) > now
           /\ timeout = 0 => Deadline(timeout, now) = Never
           /\ timeout /= 0 => Deadline(timeout, now) = now + timeout
<1>1. timeout + now \in Times
  BY RepositoryAssumption DEF Times, Never
<1>2. Unsigned(timeout + now) = timeout + now
  BY <1>1, UnsignedIdentity
<1>. QED
  BY <1>2, RepositoryAssumption DEF Deadline, Never

\* Within that range expire() deletes exactly what is due: when it returns at
\* once, nothing is.
LEMMA ExpiredEntries ==
    ASSUME NEW r \in Repositories, HeadIsBound(r), NEW now \in Nat, now < Never
    PROVE  Expired(r, now).entries = Without(r, Due(r, now)).entries
<1>1. Unsigned(now) = now
  BY UnsignedIdentity, RepositoryAssumption DEF Times, Never
<1>2. CASE now < r.head_time
  <2>1. Due(r, now) = {}
    <3>1. ASSUME NEW k \in Stored(r) PROVE ~(r.entries[k].timeout <= now)
      <4>1. r.head_time <= r.entries[k].timeout
        BY DEF HeadIsBound
      <4>2. r.head_time \in Nat
        BY DEF Repositories, Times
      <4>. QED
        BY <1>2, <4>1, <4>2, StoredType
    <3>. QED
      BY <3>1 DEF Due
  <2>2. Without(r, {}).entries = r.entries
    BY DEF Without, Repositories
  <2>. QED
    BY <1>1, <1>2, <2>1, <2>2 DEF Expired
<1>3. CASE ~(now < r.head_time)
  <2>1. Without(r, Due(r, now)) \in Repositories
    BY WithoutType
  <2>. QED
    BY <1>1, <1>3, <2>1 DEF Expired, Repositories
<1>. QED
  BY <1>2, <1>3

LEMMA NothingDueAfterExpire ==
    ASSUME NEW r \in Repositories, HeadIsBound(r), NEW now \in Nat, now < Never
    PROVE  NothingDue(Expired(r, now), now)
<1>. DEFINE rest == Without(r, Due(r, now))
<1>1. Expired(r, now).entries = rest.entries
  BY ExpiredEntries
<1>2. Stored(Expired(r, now)) = Stored(rest)
  BY <1>1 DEF Stored
<1>3. Stored(rest) = Stored(r) \ Due(r, now)
  BY WithoutStored
<1>4. ASSUME NEW k \in Stored(r) \ Due(r, now)
      PROVE  rest.entries[k].timeout > now
  <2>1. rest.entries[k] = r.entries[k]
    BY WithoutStored
  <2>2. ~(r.entries[k].timeout <= now)
    BY DEF Due
  <2>. QED
    BY <2>1, <2>2, StoredType
<1>. QED
  BY <1>1, <1>2, <1>3, <1>4 DEF NothingDue
=============================================================================
