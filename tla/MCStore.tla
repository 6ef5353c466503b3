------------------------------- MODULE MCStore -------------------------------
(***************************************************************************)
(* One client and every command of the protocol, over two seconds, with    *)
(* time-outs of a second: one launched command with and without a variable *)
(* in its environment, one variable that may share the text of the         *)
(* command.  A second connection is made by another user; there is room    *)
(* for one connection at a time.                                           *)
(***************************************************************************)
EXTENDS KdesuSession
CONSTANTS c1, c2, p1, pw, cmd, user, env, none, group, text, name, host

MCConns == {c1, c2}
MCKeys == {<<ns, Null, u, cmd>> : ns \in {0, 2}, u \in {user, Root}}
            \cup {<<ns, host, u, cmd>> : ns \in {0, 2}, u \in {user, Root}}
            \cup {<<1, name, Null, Null>>}
MCGroups == {none, group}
MCSpecials == {text}
MCPrefixOf == {<<none, text>>}
MCOccursIn == {<<text, k>> : k \in MCKeys}
MCMaxRequests == [c \in MCConns |-> IF c = c1 THEN 3 ELSE 1]
StoreRequests ==
    {[op |-> "PASS", pass |-> pw, timeout |-> 1],
     [op |-> "DEL", command |-> cmd, user |-> user],
     [op |-> "SET", name |-> name, value |-> pw, group |-> group, timeout |-> 1],
     [op |-> "DELS", special |-> text],
     [op |-> "PRIO", priority |-> 100],
     [op |-> "SCHD", scheduler |-> 1],
     [op |-> "HOST", host |-> host],
     [op |-> "GET", name |-> name],
     [op |-> "DELV", name |-> name],
     [op |-> "GETK", group |-> group],
     [op |-> "CHKG", group |-> group],
     [op |-> "DELG", group |-> group],
     [op |-> "PING"], [op |-> "EXIT"], [op |-> "STOP"],
     [op |-> "BAD"], [op |-> "UNKNOWN"]}
    \cup {[op |-> "EXEC", command |-> cmd, user |-> user, env |-> e] : e \in {Null, env}}
MCRequests == [c \in MCConns |-> IF c = c1 THEN StoreRequests ELSE {[op |-> "PING"]}]
==============================================================================
