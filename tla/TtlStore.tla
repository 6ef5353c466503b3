------------------------------- MODULE TtlStore -------------------------------
(***************************************************************************)
(* What kdesud's store promises (client.h, setPass() and setVar(): the     *)
(* time-out is in seconds and 0 keeps an entry for ever): a table whose    *)
(* entries carry a true deadline, deletions that take exactly what they    *)
(* name, and a purge after which nothing overdue is left.  There is no     *)
(* cached head time and no machine arithmetic.                             *)
(***************************************************************************)
EXTENDS Naturals

CONSTANTS
    Keys, Values, Groups, NoGroup, Specials,
    Matching,    \* <<g, s, k>>: DELS s deletes key k while its group is g
    Timeouts,
    Absent, Forever

VARIABLES
    table,    \* table[k] is Absent or [value, group, deadline]
    now,      \* seconds
    swept     \* when the last purge ran

vars == <<table, now, swept>>

Present == {k \in Keys : table[k] /= Absent}

\* Forever is not a number: such an entry is never overdue.
Overdue == {k \in Present : /\ table[k].deadline /= Forever
                            /\ table[k].deadline <= now}

Init == /\ table = [k \in Keys |-> Absent]
        /\ now = 0
        /\ swept = 0

\* Storing replaces an earlier entry and starts a new time-out.
Store(k, v, g, timeout) ==
    /\ table' = [table EXCEPT ![k] =
                   [value    |-> v,
                    group    |-> g,
                    deadline |-> IF timeout = 0 THEN Forever ELSE now + timeout]]
    /\ UNCHANGED <<now, swept>>

Clear(ks) == table' = [k \in Keys |-> IF k \in ks THEN Absent ELSE table[k]]

Delete(k) == Clear({k}) /\ UNCHANGED <<now, swept>>

DeleteGroup(g) ==
    /\ g /= NoGroup
    /\ Clear({k \in Present : table[k].group = g})
    /\ UNCHANGED <<now, swept>>

DeleteMatching(s) ==
    /\ Clear({k \in Present : <<table[k].group, s, k>> \in Matching})
    /\ UNCHANGED <<now, swept>>

\* Everything overdue goes, and nothing else.
Purge == Clear(Overdue) /\ swept' = now /\ UNCHANGED now

Tick == now' = now + 1 /\ UNCHANGED <<table, swept>>

Next ==
    \/ \E k \in Keys, v \in Values, g \in Groups, t \in Timeouts : Store(k, v, g, t)
    \/ \E k \in Keys : Delete(k)
    \/ \E g \in Groups : DeleteGroup(g)
    \/ \E s \in Specials : DeleteMatching(s)
    \/ Purge
    \/ Tick

Spec == Init /\ [][Next]_vars
===============================================================================
