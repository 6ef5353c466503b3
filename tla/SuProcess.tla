------------------------------ MODULE SuProcess ------------------------------
(***************************************************************************)
(* SuProcess::exec() and converseSU(): running a command with su or sudo.  *)
(***************************************************************************)
EXTENDS StubProcess

isSu == method \in {"su", "sudo"}

HasColon(l) == l \in {"prompt", "notice", "denied"}

LooksLikePromptSlip(l) == TRUE      \* any line followed by silence

\* "^[^:]+:[\w]*$"
LooksLikePrompt(l) == l \in {"prompt", "notice"}

\* StubProcess::exec(): no terminal or no process, or the child has started.
SuExec ==
    /\ isSu /\ at = "exec"
    /\ \/ at' = "prompt" /\ prog' = "begun" /\ UNCHANGED result
       \/ Return(IF check = "run" THEN -1 ELSE 1) /\ UNCHANGED prog
    /\ UNCHANGED <<job, terminal, tries, status, stubVars, buf, line, then>>

\* No more output, or a colon where no prompt is expected.
SuRefused ==
    /\ isSu /\ at \in {"prompt", "star", "handle"} /\ Readable
    /\ FirstLine = None \/ (HasColon(FirstLine) /\ at /= "prompt")
    /\ ReadLine
    /\ IF at /= "handle"
       THEN Return(-1) /\ UNCHANGED <<prog, status, stub, then>>
       ELSE /\ Kill
            /\ IF method = "sudo" THEN Wait(3) ELSE Return(3) /\ UNCHANGED then
    /\ UNCHANGED <<job, inp, echo, tries, cmd, line>>

\* The header: su has started the stub.  A check for the need of a password
\* ends here and leaves the stub waiting.
SuHeader ==
    /\ isSu /\ at \in {"prompt", "star", "handle"} /\ Readable
    /\ FirstLine = Params[1]
    /\ UnreadLine
    /\ IF check = "need" THEN Return(0) ELSE at' = "header" /\ UNCHANGED result
    /\ UNCHANGED <<job, inp, echo, external, stubVars, line, then>>

\* WaitForPrompt: a line is looked at when no more output comes for 100 ms.
SuReadsPrompt ==
    /\ isSu /\ at = "prompt" /\ Readable
    /\ FirstLine \notin {None, Params[1]}
    /\ ReadLine
    /\ line' = FirstLine /\ at' = "quiet"
    /\ UNCHANGED <<job, inp, echo, external, stubVars, then, result>>

\* There is more to read, which the end of the terminal is too, or the line is
\* no prompt.
SuMoreOutput ==
    /\ isSu /\ at = "quiet"
    /\ out /= <<>> \/ TerminalClosed \/ ~LooksLikePrompt(line)
    /\ at' = "prompt"
    /\ UNCHANGED <<job, terminal, external, stubVars, buf, line, then, result>>

\* A prompt, and no password to give: "kill me".
SuNeedsPassword ==
    /\ isSu /\ at = "quiet" /\ out = <<>> /\ LooksLikePrompt(line)
    /\ check = "need"
    /\ IF method = "sudo" THEN Return(1) /\ UNCHANGED <<prog, status, stub, then>>
       ELSE Kill /\ Wait(1)
    /\ UNCHANGED <<job, terminal, tries, cmd, buf, line>>

\* The password is written when waitSlave() finds the echo off.
SuPassword ==
    /\ isSu /\ at = "quiet" /\ out = <<>> /\ LooksLikePrompt(line)
    /\ check /= "need" /\ ~echo
    /\ WriteLines(<<"password">>)
    /\ at' = "star"
    /\ UNCHANGED <<job, out, echo, external, stubVars, buf, line, then, result>>

\* CheckStar: an empty line or stars, else an error.
SuChecksStar ==
    /\ isSu /\ at = "star" /\ Readable
    /\ FirstLine \notin {None, Params[1]} /\ ~HasColon(FirstLine)
    /\ ReadLine
    /\ IF FirstLine \in {"blank", "stars"}
       THEN at' = "handle" /\ UNCHANGED result ELSE Return(-1)
    /\ UNCHANGED <<job, inp, echo, external, stubVars, line, then>>

\* HandleStub: other lines are passed over.
SuHandlesStub ==
    /\ isSu /\ at = "handle" /\ Readable
    /\ FirstLine \notin {None, Params[1]} /\ ~HasColon(FirstLine)
    /\ ReadLine
    /\ UNCHANGED <<job, inp, echo, external, stubVars, at, line, then, result>>

ConverseSU ==
    \/ SuExec \/ SuRefused \/ SuHeader \/ SuReadsPrompt \/ SuMoreOutput
    \/ SuNeedsPassword \/ SuPassword \/ SuChecksStar \/ SuHandlesStub
===============================================================================
