------------------------------ MODULE SshProcess ------------------------------
(***************************************************************************)
(* SshProcess::exec() and converseSsh(): running a command with ssh.       *)
(***************************************************************************)
EXTENDS StubProcess

isSsh == method = "ssh"

\* StubProcess::exec(): no terminal or no process, or the child has started.
SshExec ==
    /\ isSsh /\ at = "exec"
    /\ \/ at' = "login" /\ prog' = "begun" /\ UNCHANGED result
       \/ Return(IF check = "run" THEN -1 ELSE 1) /\ UNCHANGED prog
    /\ UNCHANGED <<job, terminal, tries, status, stubVars, buf, line, then>>

SshNoLine ==
    /\ isSsh /\ at \in {"login", "newline"} /\ Readable /\ FirstLine = None
    /\ ReadLine /\ Return(-1)
    /\ UNCHANGED <<job, inp, echo, external, stubVars, line, then>>

\* The header: ssh has started the stub.
SshHeader ==
    /\ isSsh /\ at = "login" /\ Readable /\ FirstLine = Params[1]
    /\ UnreadLine
    /\ IF check = "need" THEN Return(0) ELSE at' = "header" /\ UNCHANGED result
    /\ UNCHANGED <<job, inp, echo, external, stubVars, line, then>>

\* A prompt.  For a check of the need converseSsh() returns SshNeedsPassword,
\* which is 2; exec() would end ssh if it were 1.
SshPrompt ==
    /\ isSsh /\ at = "login" /\ Readable /\ FirstLine \in {"prompt", "notice"}
    /\ ReadLine
    /\ IF check = "need" THEN Return(2) ELSE at' = "slave" /\ UNCHANGED result
    /\ UNCHANGED <<job, inp, echo, external, stubVars, line, then>>

SshPasswordSlip ==      \* no waitSlave()
    /\ isSsh /\ at = "slave"
    /\ WriteLines(<<"password">>)
    /\ at' = "newline"
    /\ UNCHANGED <<job, out, echo, external, stubVars, buf, line, then, result>>

\* waitSlave(): until the echo is off.  An ssh that has ended meanwhile is not
\* noticed: it is a zombie, which kill(pid, 0) finds.
SshPassword ==
    /\ isSsh /\ at = "slave" /\ ~echo
    /\ WriteLines(<<"password">>)
    /\ at' = "newline"
    /\ UNCHANGED <<job, out, echo, external, stubVars, buf, line, then, result>>

\* Warnings and errors are collected.
SshError ==
    /\ isSsh /\ at = "login" /\ Readable
    /\ FirstLine \notin {None, Params[1], "prompt", "notice"}
    /\ ReadLine
    /\ UNCHANGED <<job, inp, echo, external, stubVars, at, line, then, result>>

\* After the password an empty line is expected.
SshNewline ==
    /\ isSsh /\ at = "newline" /\ Readable /\ FirstLine /= None
    /\ ReadLine
    /\ IF FirstLine = "blank" THEN at' = "header" /\ UNCHANGED result ELSE Return(-1)
    /\ UNCHANGED <<job, inp, echo, external, stubVars, line, then>>

ConverseSsh ==
    \/ SshExec \/ SshNoLine \/ SshHeader \/ SshPrompt \/ SshPassword
    \/ SshError \/ SshNewline
===============================================================================
