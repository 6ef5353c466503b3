------------------------------ MODULE Repository ------------------------------
(***************************************************************************)
(* Class Repository as a state machine: any sequence of the calls that     *)
(* ConnectionHandler::doCommand() and the main loop make, at any time.     *)
(*                                                                         *)
(* The clock is time(nullptr), in seconds since the start of the run.      *)
(***************************************************************************)
EXTENDS RepositoryOps

CONSTANTS
    Timeouts,    \* the time-outs of PASS and SET commands
    MaxTime,     \* bound on the clock
    Forever      \* the deadline of an entry that never expires

ASSUME ClockAssumption == MaxTime \in Nat /\ Timeouts \subseteq Nat

\* Forever and NoEntry are told apart from what they stand beside.
ASSUME ForeverAssumption ==
    /\ Forever \notin Nat
    /\ NoEntry \notin [value : Values, group : Groups, deadline : Nat \cup {Forever}]

VARIABLES
    repo,     \* entries and head_time
    clock,    \* time(nullptr)
    swept     \* history variable: the clock at the last call of expire()

vars == <<repo, clock, swept>>

Init == /\ repo = EmptyRepository
        /\ clock = 0
        /\ swept = 0

Calls == UNCHANGED <<clock, swept>>    \* a call other than expire()

Add(key, value, group, timeout) ==
    repo' = Added(repo, key, value, group, timeout, clock) /\ Calls

Remove(key) == repo' = Removed(repo, key) /\ Calls

RemoveGroup(group) == repo' = WithoutGroup(repo, group) /\ Calls

RemoveSpecialKey(special) == repo' = WithoutSpecial(repo, special) /\ Calls

Expire == /\ repo' = Expired(repo, clock)
          /\ swept' = clock
          /\ UNCHANGED clock

Tick == /\ clock < MaxTime
        /\ clock' = clock + 1
        /\ UNCHANGED <<repo, swept>>

Next ==
    \/ \E k \in Keys, v \in Values, g \in Groups, t \in Timeouts : Add(k, v, g, t)
    \/ \E k \in Keys : Remove(k)
    \/ \E g \in Groups : RemoveGroup(g)
    \/ \E s \in Specials : RemoveSpecialKey(s)
    \/ Expire
    \/ Tick

Spec == Init /\ [][Next]_vars

-----------------------------------------------------------------------------

\* Every entry the store holds is a Data_entry and the clocks are ordered.
TypeOK == /\ repo \in Repositories
          /\ clock \in 0 .. MaxTime
          /\ swept \in 0 .. clock

\* head_time is never later than the time-out of an entry: otherwise the early
\* return of expire() (repo.cpp:154) would keep a password past its deadline.
\* It must survive add() over an existing key, deletions that leave head_time
\* stale, the rebuild in expire(), and the wrap-around of the deadlines.
HeadTimeBound == HeadIsBound(repo)

\* No deadline of the run leaves the range of unsigned int, nor is it the value
\* that means "never".
NoWrap == MaxTime < Never /\ \A t \in Timeouts : MaxTime + t < Never

\* Once expire() has run, what it left in the store is not due at the time it
\* ran at, whatever was added and deleted since.  A query made in the same pass
\* of the main loop (kdesud.cpp:468) therefore sees no outdated password.
NothingDueSwept == NothingDue(repo, swept)

-----------------------------------------------------------------------------
(* The store implements the abstract one as long as deadlines do not wrap.   *)

Matching ==
    {m \in Groups \X Specials \X Keys :
        <<m[1], m[2]>> \in PrefixOf /\ <<m[2], m[3]>> \in OccursIn}

TableEntry(e) ==
    IF e = NoEntry
    THEN NoEntry
    ELSE [value    |-> e.value,
          group    |-> e.group,
          deadline |-> IF e.timeout = Never THEN Forever ELSE e.timeout]

Table == [k \in Keys |-> TableEntry(repo.entries[k])]

Abstract == INSTANCE TtlStore
              WITH Absent <- NoEntry, table <- Table, now <- clock

\* The early return, the cached head time and the machine arithmetic are
\* invisible: every call has the effect of the abstract operation.
AbstractSpec == Abstract!Spec
===============================================================================
