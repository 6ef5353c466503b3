---------------------------- MODULE Authentication ----------------------------
(***************************************************************************)
(* exec() of SuProcess or SshProcess, the program it starts and kdesu_stub *)
(* together, from the start of the program to the value exec() returns.    *)
(***************************************************************************)
EXTENDS SuProcess, SshProcess

Exec == ConverseSU \/ ConverseSsh \/ ConverseStub

\* Once exec() has returned nobody watches the programs.
Next ==
    \/ Exec
    \/ at /= "returned" /\ Program
    \/ at /= "returned" /\ Stub
    \/ at /= "returned" /\ Signals

\* Every process runs; sudo and sshd do not wait for a password for ever, and
\* the command ends.  Signals need not come.
Fairness ==
    /\ WF_vars(Exec)
    /\ WF_vars(at /= "returned" /\ Stub)
    /\ WF_vars(at /= "returned" /\ Program)

Spec == Init /\ [][Next]_vars /\ Fairness

-----------------------------------------------------------------------------
TypeOK ==
    /\ method \in Methods /\ check \in {"run", "install", "need"}
    /\ env \in Environments /\ right \in BOOLEAN
    /\ echo \in BOOLEAN
    /\ prog \in {"none", "begun", "start", "late", "reading", "authorized",
                "stub", "forwarding", "gone"}
    /\ tries \in 0 .. MaxTries
    /\ status \in {None, Killed, 0, 1}
    /\ stub.at \in {"none", "ask", "read", "environment", "variables", "setup",
                    "command", "exited", "killed"}
    /\ cmd \in {None, 0, 1}
    /\ at \in {"exec", "prompt", "quiet", "star", "handle", "login", "slave", "newline",
               "header", "talk", "wait", "waitagain", "returned"}
    /\ result \in {None, -1, 0, 1, 2, 3}
    /\ result /= None <=> at = "returned"

\* The stub takes line after line for the values of the parameters it asked
\* for, in its order: when it starts the command each is the one it asked for,
\* the environment is complete, and no line is left for the command to read
\* (kdesu_stub.c:205-237, stubprocess.cpp:140-219).
ValuesMatch ==
    stub.at \in {"setup", "command"} =>
        /\ stub.values = <<"ok">> \o Tail(Params) \o env
        /\ inp = <<>>

\* The password is read by the program that asked for it and by nothing else:
\* it never becomes a value for the stub or input of the command
\* (suprocess.cpp:247-280, sshprocess.cpp:189-212).
PasswordStaysWithProgram ==
    \/ "password" \notin ToSet(inp)
    \/ prog \in {"late", "reading"}
    \/ prog = "gone" /\ stub.at = "none"

\* No password is typed ahead of the program: what it discards when it turns
\* the echo off is never the password (ptyprocess.cpp:359-391).
PasswordNotDiscarded == [][ProgEchoOff \/ ProgPrompt => "password" \notin ToSet(inp)]_vars

\* What exec() returns is so.  0 says that the command has ended with 0, that
\* the installation was found good with a right password, or that no password is
\* needed (suprocess.cpp:154-215, sshprocess.cpp:94-134).  For a run there are two
\* exceptions, for each method: a program that a signal has ended, exec()'s own
\* or one from outside, counts as 0 for waitForChild() (ptyprocess.cpp:484); and a
\* failed conversation with ssh ends in a second waitForChild(), which finds no
\* child and returns 0 (sshprocess.cpp:121-134).
ResultIsSo ==
    result = 0 =>
        CASE check = "run" -> cmd = 0 \/ status = Killed \/ then = Again
          [] check = "install" -> right \/ tries = 0
          [] check = "need" -> tries = 0

\* exec() returns, also when signals end the program or the stub.  Two exceptions:
\* an ssh that ends at its prompt, having put the echo back on, which waitSlave()
\* does not notice (ptyprocess.cpp:368-391); and a sudo whose stub has made an
\* unknown request and waits for the answer, when exec() has failed to kill sudo
\* and waits for it (suprocess.cpp:203-206).
ExecReturns ==
    at = "exec" ~> \/ at = "returned"
                   \/ at = "slave" /\ prog = "gone"
                   \/ at = "wait" /\ method = "sudo" /\ then = 3 /\ stub.at = "read"

\* When converseStub() has returned 1, "kill me", exec() does not return 0, which
\* stands for "ok" (stubprocess.cpp:114).  SshProcess does not keep to it.
FailureShows == then = Again => result /= 0
===============================================================================
