---------------------------- MODULE RepositoryOps ----------------------------
(***************************************************************************)
(* The password and variable store of kdesud (class Repository, repo.cpp)  *)
(* as operators on a repository record                                     *)
(*                                                                         *)
(*    [entries |-> a function from Keys to Data_entry records or NoEntry,  *)
(*     head_time |-> the cached lower bound on the entries' time-outs].    *)
(*                                                                         *)
(* An operator named ...Slip is a plausible mistake in the operator after  *)
(* it; nothing uses it.  PROJECT.json tells which property notices it.     *)
(*                                                                         *)
(* Module Repository is the state machine over these operators; module     *)
(* Kdesud calls the same operators from the daemon's command handlers.     *)
(*                                                                         *)
(* Texts are abstract.  What the code does with the characters of a key is *)
(* given by three relations: which group names a special key starts with,  *)
(* which special keys occur inside which repository keys, and which keys   *)
(* still have a name once findKeys() has cut it at its last '-'.           *)
(***************************************************************************)
EXTENDS Integers, FiniteSets, FiniteSetsExt

CONSTANTS
    Keys,        \* the results of makeKey() that can occur
    Values,      \* what an entry can hold: passwords, environments, variables
    Null,        \* the null QByteArray, returned by find() for an absent key
    Groups,      \* the groups of entries
    NoGroup,     \* the empty group: that of every password entry
    Specials,    \* the non-empty arguments of DELS
    PrefixOf,    \* <<g, s>> : the text of s starts with the text of g
    OccursIn,    \* <<s, k>> : the text of s occurs in the text of k
    Stemmed,     \* keys whose name does not start at its last '-' or lack one
    NoEntry,     \* repo.find(key) == repo.end()
    TimeMod      \* 2^32: timeouts and head_time are unsigned int

ASSUME RepositoryAssumption ==
    /\ IsFiniteSet(Keys)
    /\ NoGroup \in Groups
    /\ TimeMod \in Nat \ {0, 1}
    /\ PrefixOf \subseteq Groups \X Specials
    /\ \A s \in Specials : <<NoGroup, s>> \in PrefixOf   \* "" starts every text
    /\ OccursIn \subseteq Specials \X Keys
    /\ Stemmed \subseteq Keys

\* unsigned int, and its largest value, (unsigned)-1, which stands for "never".
Times == 0 .. TimeMod - 1
Never == TimeMod - 1
Unsigned(n) == n % TimeMod

DataEntries == [value : Values, group : Groups, timeout : Times]

\* NoEntry is told apart from every entry (they are records with a time-out).
ASSUME NoEntryAssumption == NoEntry \notin DataEntries

Repositories ==
    [entries : [Keys -> DataEntries \cup {NoEntry}], head_time : Times]

Stored(r) == {k \in Keys : r.entries[k] /= NoEntry}

EmptyRepository ==
    [entries |-> [k \in Keys |-> NoEntry], head_time |-> Never]

Earlier(s, t) == IF s < t THEN s ELSE t                  \* qMin

-----------------------------------------------------------------------------
(* add(): the time-out becomes a deadline, in unsigned arithmetic.           *)

DeadlineSlip(timeout, now) ==      \* "never" as a signed -1
    IF timeout = 0 THEN -1 ELSE Unsigned(timeout + now)

Deadline(timeout, now) ==
    IF timeout = 0 THEN Never ELSE Unsigned(timeout + now)

AddedSlip(r, key, value, group, timeout, now) ==      \* head_time not lowered
    [r EXCEPT !.entries[key] =
        [value |-> value, group |-> group, timeout |-> Deadline(timeout, now)]]

Added(r, key, value, group, timeout, now) ==
    LET deadline == Deadline(timeout, now)
    IN  [entries   |-> [r.entries EXCEPT ![key] =
                          [value |-> value, group |-> group, timeout |-> deadline]],
         head_time |-> Earlier(r.head_time, deadline)]

-----------------------------------------------------------------------------
(* The deletions never touch head_time.  Each reports whether it found       *)
(* anything: the code returns 0 then and -1 otherwise.                       *)

Without(r, ks) ==
    [r EXCEPT !.entries = [k \in Keys |-> IF k \in ks THEN NoEntry ELSE r.entries[k]]]

Removed(r, key) == Without(r, {key})

InGroupSlip(r, group) == {k \in Stored(r) : r.entries[k].group = group}

InGroup(r, group) ==
    {k \in Stored(r) : group /= NoGroup /\ r.entries[k].group = group}

WithoutGroup(r, group) == Without(r, InGroup(r, group))

MatchSpecial(r, special) ==
    {k \in Stored(r) : /\ <<r.entries[k].group, special>> \in PrefixOf
                       /\ <<special, k>> \in OccursIn}

WithoutSpecial(r, special) == Without(r, MatchSpecial(r, special))

-----------------------------------------------------------------------------
(* The queries.                                                              *)

Find(r, key) == IF key \in Stored(r) THEN r.entries[key].value ELSE Null

HasGroup(r, group) == InGroup(r, group) /= {}

\* findKeys() answers with a list of names; GETK says NO when it is empty.
FindsKeys(r, group) == InGroup(r, group) \cap Stemmed /= {}

-----------------------------------------------------------------------------
(* expire(): nothing to do before head_time; afterwards one pass drops what  *)
(* is due and recomputes head_time from what stays.                          *)

DueSlip(r, current) == {k \in Stored(r) : r.entries[k].timeout < current}

Due(r, current) == {k \in Stored(r) : r.entries[k].timeout <= current}

HeadTimeOf(r, ks) == Min({Never} \cup {r.entries[k].timeout : k \in ks})

Expired(r, now) ==
    LET current == Unsigned(now)
        due     == Due(r, current)
    IN  IF current < r.head_time
        THEN r
        ELSE [Without(r, due) EXCEPT !.head_time = HeadTimeOf(r, Stored(r) \ due)]

-----------------------------------------------------------------------------
(* Two conditions on a repository that its users rely on.                    *)

\* The early return of expire() overlooks nothing.
HeadIsBound(r) == \A k \in Stored(r) : r.head_time <= r.entries[k].timeout

\* Nothing in the repository was due at the given time.
NothingDue(r, time) == \A k \in Stored(r) : r.entries[k].timeout > time

=============================================================================
