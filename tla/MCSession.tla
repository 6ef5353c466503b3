------------------------------ MODULE MCSession ------------------------------
(***************************************************************************)
(* Two clients that set a password, launch commands and wait for their     *)
(* exit codes.  Nothing expires: module MCStore is about time.             *)
(***************************************************************************)
EXTENDS KdesuSession, TLC

CONSTANTS c1, c2, p1, p2, pw, cmd, user, none

MCConns == {c1, c2}
MCPids == {p1, p2}
PidSymmetry == Permutations(MCPids)

MCKeys == {<<ns, Null, u, cmd>> : ns \in {0, 2}, u \in {user, Root}}
SessionRequests ==
    {[op |-> "PASS", pass |-> pw, timeout |-> 0],
     [op |-> "EXEC", command |-> cmd, user |-> user, env |-> Null],
     [op |-> "EXIT"]}
MCRequests == [c \in MCConns |-> SessionRequests]

\* A second client which has no password of its own.
MCOneHasPassword ==
    [c \in MCConns |-> IF c = c1 THEN SessionRequests
                       ELSE {r \in SessionRequests : r.op /= "PASS"}]

\* One client less talkative than the other, and one alone.
MCUnequal == [c \in MCConns |-> IF c = c1 THEN 3 ELSE 2]
MCAlone == [c \in MCConns |-> IF c = c1 THEN 4 ELSE 0]
==============================================================================
