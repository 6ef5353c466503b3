--------------------------- MODULE RepositoryProofs ---------------------------
(***************************************************************************)
(* Theorems about Repository, for every set of keys, every set of          *)
(* time-outs, every clock bound and every width of unsigned int.           *)
(***************************************************************************)
EXTENDS Repository, RepositoryOpsProofs

-----------------------------------------------------------------------------
(* Type correctness and the bound on head_time.                              *)

\* Every reachable state of the store is well typed, whatever the calls are,
\* at any width of unsigned int (repo.cpp).
THEOREM TypeCorrect == Spec => []TypeOK
<1>1. Init => TypeOK
  BY EmptyRepositoryType, ClockAssumption DEF Init, TypeOK
<1>2. TypeOK /\ [Next]_vars => TypeOK'
  <2>. SUFFICES ASSUME TypeOK, [Next]_vars
                PROVE  TypeOK'
    OBVIOUS
  <2>. USE DEF TypeOK
  <2>0. clock \in Nat /\ swept \in Nat /\ MaxTime \in Nat
    BY ClockAssumption
  <2>1. ASSUME NEW k \in Keys, NEW v \in Values, NEW g \in Groups,
               NEW t \in Timeouts, Add(k, v, g, t)
        PROVE  TypeOK'
    BY <2>0, <2>1, AddedType, ClockAssumption DEF Add, Calls
  <2>2. ASSUME NEW k \in Keys, Remove(k)
        PROVE  TypeOK'
    BY <2>2, WithoutType DEF Remove, Removed, Calls
  <2>3. ASSUME NEW g \in Groups, RemoveGroup(g)
        PROVE  TypeOK'
    BY <2>3, WithoutType DEF RemoveGroup, WithoutGroup, Calls
  <2>4. ASSUME NEW s \in Specials, RemoveSpecialKey(s)
        PROVE  TypeOK'
    BY <2>4, WithoutType DEF RemoveSpecialKey, WithoutSpecial, Calls
  <2>5. CASE Expire
    BY <2>0, <2>5, ExpiredType DEF Expire
  <2>6. CASE Tick
    BY <2>0, <2>6 DEF Tick
  <2>7. CASE UNCHANGED vars
    BY <2>7 DEF vars
  <2>. QED
    BY <2>1, <2>2, <2>3, <2>4, <2>5, <2>6, <2>7 DEF Next
<1>. QED
  BY <1>1, <1>2, PTL DEF Spec

\* head_time never passes the time-out of a stored entry, so the early return
\* of expire() (repo.cpp:154) never overlooks one.
THEOREM HeadTimeBoundHolds == Spec => []HeadTimeBound
<1>1. Init => HeadTimeBound
  BY DEF Init, HeadTimeBound, HeadIsBound, EmptyRepository, Stored
<1>2. TypeOK /\ HeadTimeBound /\ [Next]_vars => HeadTimeBound'
  <2>. SUFFICES ASSUME TypeOK, HeadTimeBound, [Next]_vars
                PROVE  HeadTimeBound'
    OBVIOUS
  <2>. USE DEF HeadTimeBound
  <2>0. repo \in Repositories /\ clock \in Nat
    BY DEF TypeOK
  <2>1. ASSUME NEW k \in Keys, NEW v \in Values, NEW g \in Groups,
               NEW t \in Timeouts, Add(k, v, g, t)
        PROVE  HeadTimeBound'
    BY <2>0, <2>1, AddedBound, ClockAssumption DEF Add
  <2>2. ASSUME NEW k \in Keys, Remove(k)
        PROVE  HeadTimeBound'
    BY <2>0, <2>2, WithoutBound DEF Remove, Removed
  <2>3. ASSUME NEW g \in Groups, RemoveGroup(g)
        PROVE  HeadTimeBound'
    BY <2>0, <2>3, WithoutBound DEF RemoveGroup, WithoutGroup
  <2>4. ASSUME NEW s \in Specials, RemoveSpecialKey(s)
        PROVE  HeadTimeBound'
    BY <2>0, <2>4, WithoutBound DEF RemoveSpecialKey, WithoutSpecial
  <2>5. CASE Expire
    BY <2>0, <2>5, ExpiredBound DEF Expire
  <2>6. CASE Tick
    BY <2>6 DEF Tick
  <2>7. CASE UNCHANGED vars
    BY <2>7 DEF vars
  <2>. QED
    BY <2>1, <2>2, <2>3, <2>4, <2>5, <2>6, <2>7 DEF Next
<1>. QED
  BY <1>1, <1>2, TypeCorrect, PTL DEF Spec

\* Nothing that expire() would have had to delete comes back before it runs
\* again (repo.cpp, kdesud.cpp:468), unless a deadline wraps.
THEOREM NothingDueSweptHolds ==
    ASSUME NoWrap
    PROVE  Spec => []NothingDueSwept
<1>1. Init => NothingDueSwept
  BY DEF Init, NothingDueSwept, NothingDue, EmptyRepository, Stored
<1>2. TypeOK /\ HeadTimeBound /\ NothingDueSwept /\ [Next]_vars => NothingDueSwept'
  <2>. SUFFICES ASSUME TypeOK, HeadTimeBound, NothingDueSwept, [Next]_vars
                PROVE  NothingDueSwept'
    OBVIOUS
  <2>. USE DEF NothingDueSwept
  <2>0. /\ repo \in Repositories /\ clock \in Nat /\ swept \in Nat
        /\ swept <= clock /\ clock < Never
        /\ HeadIsBound(repo) /\ Never \in Nat
    BY ClockAssumption, RepositoryAssumption DEF TypeOK, NoWrap, HeadTimeBound, Never
  <2>1. ASSUME NEW k \in Keys, NEW v \in Values, NEW g \in Groups,
               NEW t \in Timeouts, Add(k, v, g, t)
        PROVE  NothingDueSwept'
    <3>1. t \in Nat /\ clock + t < Never
      BY ClockAssumption, RepositoryAssumption DEF NoWrap, TypeOK, Never
    <3>2. Deadline(t, clock) > swept
      BY <2>0, <3>1, DeadlineValue, DeadlineRange DEF Times
    <3>3. /\ repo' = Added(repo, k, v, g, t, clock)
          /\ swept' = swept
      BY <2>1 DEF Add, Calls
    <3>. QED
      BY <2>0, <3>1, <3>2, <3>3, StoredAfterAdd DEF NothingDue
  <2>2. ASSUME NEW ks, repo' = Without(repo, ks), swept' = swept
        PROVE  NothingDueSwept'
    BY <2>0, <2>2, WithoutStored DEF NothingDue
  <2>3. ASSUME NEW k \in Keys, Remove(k)
        PROVE  NothingDueSwept'
    BY <2>2, <2>3 DEF Remove, Removed, Calls
  <2>4. ASSUME NEW g \in Groups, RemoveGroup(g)
        PROVE  NothingDueSwept'
    BY <2>2, <2>4 DEF RemoveGroup, WithoutGroup, Calls
  <2>5. ASSUME NEW s \in Specials, RemoveSpecialKey(s)
        PROVE  NothingDueSwept'
    BY <2>2, <2>5 DEF RemoveSpecialKey, WithoutSpecial, Calls
  <2>6. CASE Expire
    BY <2>0, <2>6, NothingDueAfterExpire DEF Expire
  <2>7. CASE Tick
    BY <2>7 DEF Tick
  <2>8. CASE UNCHANGED vars
    BY <2>8 DEF vars
  <2>. QED
    BY <2>1, <2>3, <2>4, <2>5, <2>6, <2>7, <2>8 DEF Next
<1>. QED
  BY <1>1, <1>2, TypeCorrect, HeadTimeBoundHolds, PTL DEF Spec

-----------------------------------------------------------------------------
(* The store implements TtlStore.                                            *)

\* The refinement mapping tells present entries from absent ones.
LEMMA TablePresent ==
    ASSUME repo \in Repositories
    PROVE  /\ Abstract!Present = Stored(repo)
           /\ \A k \in Stored(repo) :
                /\ Table[k].group = repo.entries[k].group
                /\ Table[k].deadline = IF repo.entries[k].timeout = Never
                                       THEN Forever ELSE repo.entries[k].timeout
<1>. DEFINE limit(k) == IF repo.entries[k].timeout = Never
                        THEN Forever ELSE repo.entries[k].timeout
<1>1. ASSUME NEW k \in Stored(repo)
      PROVE  /\ Table[k].group = repo.entries[k].group
             /\ Table[k].deadline = limit(k)
             /\ Table[k] /= NoEntry
  <2>1. repo.entries[k] /= NoEntry /\ k \in Keys
    BY DEF Stored
  <2>2. repo.entries[k] \in DataEntries /\ repo.entries[k].timeout \in Nat
    BY StoredType
  <2>3. Table[k] = [value    |-> repo.entries[k].value,
                    group    |-> repo.entries[k].group,
                    deadline |-> limit(k)]
    BY <2>1 DEF Table, TableEntry
  <2>4. limit(k) \in Nat \cup {Forever}
    BY <2>2
  <2>. HIDE DEF limit
  <2>. QED
    BY <2>2, <2>3, <2>4, ForeverAssumption DEF DataEntries
<1>2. ASSUME NEW k \in Keys, k \notin Stored(repo)
      PROVE  Table[k] = NoEntry
  BY <1>2 DEF Stored, Table, TableEntry
<1>3. Abstract!Present = Stored(repo)
  BY <1>1, <1>2 DEF Abstract!Present, Stored
<1>. QED
  BY <1>1, <1>3

\* Clearing keys commutes with the mapping.
LEMMA TableWithout ==
    ASSUME repo \in Repositories, NEW ks, repo'.entries = Without(repo, ks).entries
    PROVE  Abstract!Clear(ks)
<1>1. \A k \in Keys :
        repo'.entries[k] = IF k \in ks THEN NoEntry ELSE repo.entries[k]
  BY DEF Without, Repositories
<1>2. ASSUME NEW k \in Keys
      PROVE  TableEntry(repo'.entries[k]) =
               IF k \in ks THEN NoEntry ELSE TableEntry(repo.entries[k])
  BY <1>1 DEF TableEntry
<1>. QED
  BY <1>2 DEF Abstract!Clear, Table

\* Every call of the store's code is a step of the abstract store, which has
\* true deadlines and no cached head time (repo.cpp:25-92, 151-176).
THEOREM Refinement ==
    ASSUME NoWrap
    PROVE  Spec => AbstractSpec
<1>1. Init => Abstract!Init
  BY DEF Init, Abstract!Init, Table, TableEntry, EmptyRepository
<1>2. TypeOK /\ HeadTimeBound /\ [Next]_vars => [Abstract!Next]_(Abstract!vars)
  <2>. SUFFICES ASSUME TypeOK, HeadTimeBound, [Next]_vars
                PROVE  [Abstract!Next]_(Abstract!vars)
    OBVIOUS
  <2>0. /\ repo \in Repositories /\ clock \in Nat /\ clock < Never
        /\ HeadIsBound(repo)
    BY ClockAssumption, RepositoryAssumption DEF TypeOK, NoWrap, HeadTimeBound, Never
  <2>1. ASSUME NEW k \in Keys, NEW v \in Values, NEW g \in Groups,
               NEW t \in Timeouts, Add(k, v, g, t)
        PROVE  Abstract!Store(k, v, g, t)
    <3>. DEFINE entry == [value |-> v, group |-> g, timeout |-> Deadline(t, clock)]
                limit == IF t = 0 THEN Forever ELSE clock + t
    <3>1. t \in Nat /\ clock + t < Never
      BY ClockAssumption, RepositoryAssumption DEF NoWrap, TypeOK, Never
    <3>2. (IF Deadline(t, clock) = Never THEN Forever ELSE Deadline(t, clock)) = limit
      BY <2>0, <3>1, DeadlineValue
    <3>3. repo'.entries = [repo.entries EXCEPT ![k] = entry]
      BY <2>1 DEF Add, Added
    <3>4. entry \in DataEntries
      BY <2>0, <3>1, DeadlineRange DEF DataEntries
    <3>5. TableEntry(entry) = [value |-> v, group |-> g, deadline |-> limit]
      BY <3>2, <3>4, NoEntryAssumption DEF TableEntry
    <3>6. Table' = [Table EXCEPT ![k] = TableEntry(entry)]
      <4>1. \A j \in Keys : repo'.entries[j] =
                              IF j = k THEN entry ELSE repo.entries[j]
        BY <2>0, <3>3 DEF Repositories
      <4>. QED
        BY <4>1 DEF Table
    <3>. QED
      BY <2>1, <3>5, <3>6 DEF Abstract!Store, Add, Calls
  <2>2. ASSUME NEW k \in Keys, Remove(k)
        PROVE  Abstract!Delete(k)
    BY <2>0, <2>2, TableWithout DEF Remove, Removed, Calls, Abstract!Delete
  <2>3. ASSUME NEW g \in Groups, RemoveGroup(g)
        PROVE  Abstract!DeleteGroup(g) \/ UNCHANGED Abstract!vars
    <3>1. CASE g = NoGroup
      <4>1. Without(repo, {}).entries = repo.entries
        BY <2>0 DEF Without, Repositories
      <4>2. InGroup(repo, g) = {}
        BY <3>1 DEF InGroup
      <4>. QED
        BY <2>3, <4>1, <4>2 DEF RemoveGroup, WithoutGroup, Calls, Abstract!vars, Table
    <3>2. CASE g /= NoGroup
      <4>1. InGroup(repo, g) = {k \in Abstract!Present : Table[k].group = g}
        BY <2>0, <3>2, TablePresent DEF InGroup
      <4>2. Abstract!Clear(InGroup(repo, g))
        BY <2>0, <2>3, TableWithout DEF RemoveGroup, WithoutGroup
      <4>. QED
        BY <2>3, <3>2, <4>1, <4>2 DEF RemoveGroup, Calls, Abstract!DeleteGroup
    <3>. QED
      BY <3>1, <3>2
  <2>4. ASSUME NEW s \in Specials, RemoveSpecialKey(s)
        PROVE  Abstract!DeleteMatching(s)
    <3>1. ASSUME NEW k \in Stored(repo)
          PROVE  /\ <<repo.entries[k].group, s, k>> \in Matching
                    <=> /\ <<repo.entries[k].group, s>> \in PrefixOf
                        /\ <<s, k>> \in OccursIn
      <4>1. repo.entries[k].group \in Groups /\ k \in Keys
        BY <2>0, StoredType DEF DataEntries
      <4>. QED
        BY <4>1 DEF Matching
    <3>2. MatchSpecial(repo, s) =
            {k \in Abstract!Present : <<Table[k].group, s, k>> \in Matching}
      BY <2>0, <3>1, TablePresent DEF MatchSpecial
    <3>3. Abstract!Clear(MatchSpecial(repo, s))
      BY <2>0, <2>4, TableWithout DEF RemoveSpecialKey, WithoutSpecial
    <3>. QED
      BY <2>4, <3>2, <3>3 DEF RemoveSpecialKey, Calls, Abstract!DeleteMatching
  <2>5. CASE Expire
    <3>1. Due(repo, clock) = Abstract!Overdue
      <4>1. ASSUME NEW k \in Stored(repo)
            PROVE  repo.entries[k].timeout <= clock
                     <=> Table[k].deadline /= Forever /\ Table[k].deadline <= clock
        BY <2>0, TablePresent, StoredType, RepositoryAssumption, ForeverAssumption
           DEF Never
      <4>. QED
        BY <2>0, <4>1, TablePresent DEF Due, Abstract!Overdue
    <3>2. Abstract!Clear(Due(repo, clock))
      BY <2>0, <2>5, ExpiredEntries, TableWithout DEF Expire
    <3>. QED
      BY <2>5, <3>1, <3>2 DEF Expire, Abstract!Purge, Abstract!Next
  <2>6. CASE Tick
    BY <2>6 DEF Tick, Abstract!Tick, Abstract!Next, Table
  <2>7. CASE UNCHANGED vars
    BY <2>7 DEF vars, Abstract!vars, Table
  <2>. QED
    BY <2>1, <2>2, <2>3, <2>4, <2>5, <2>6, <2>7 DEF Next, Abstract!Next
<1>. QED
  BY <1>1, <1>2, TypeCorrect, HeadTimeBoundHolds, PTL
     DEF Spec, AbstractSpec, Abstract!Spec
===============================================================================
