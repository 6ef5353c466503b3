----------------------------- MODULE StubProcess -----------------------------
(***************************************************************************)
(* One run of a command through a pseudo terminal: the program that raises *)
(* the privileges (su, sudo, ssh), kdesu_stub which it starts, and         *)
(* what SuProcess and SshProcess have in common on the other side: reading *)
(* lines (ptyprocess.cpp), the conversation with the stub                  *)
(* (stubprocess.cpp, kdesu_stub.c) and waiting for the child.              *)
(*                                                                         *)
(* A line is known by its kind.  What the programs print:                  *)
(*    "prompt"   a password prompt: no newline, one colon at its end       *)
(*    "text"     a line without a colon      "notice"  one ending in it    *)
(*    "blank"    the newline after a password, "stars" an echo of it       *)
(*    "denied"   a refusal, with a colon     "forward" ssh's exit string   *)
(*    the names in Params, "environment" and "end"  what the stub prints   *)
(*    "unknown"  a request that no stub of this source makes               *)
(* What is written to them: "password", "ok", "stop", the value of the     *)
(* parameter x as x itself, "variable" and "" for the environment.         *)
(***************************************************************************)
EXTENDS Integers, Sequences, SequencesExt

CONSTANTS
    Methods,     \* the programs: a subset of {"su", "sudo", "ssh"}
    Params,      \* the parameters of the stub in their order, its name first
    Environments,\* the lists of additional variables
    MaxTries,    \* how often sudo and ssh ask for the password
    Notices,     \* the lines a program may print before it asks
    LateEcho,    \* programs that turn echo off after they have printed a prompt
    Killed,      \* how a child ended that a signal ended
    Status,      \* what exec() returns after waitForChild(): its value,
    Again,       \* or that of a second waitForChild()
    None

\* What is printed, but for the names of parameters, and what is typed.
Printed == {"prompt", "blank", "stars", "denied", "text", "forward",
            "environment", "end", "unknown"} \cup Notices
Typed == {"password", "ok", "stop", ""}

ASSUME StubAssumption ==
    /\ Methods \subseteq {"su", "sudo", "ssh"}
    /\ Params \in Seq(STRING) /\ Params /= <<>>
    /\ \A i \in DOMAIN Params : Params[i] \notin Printed \cup {"notice"} \cup Typed
    /\ \A e \in Environments :
          e \in Seq(STRING) /\ \A i \in DOMAIN e : e[i] \notin {"password", "stop"}
    /\ MaxTries \in Nat
    /\ {Killed, Status, Again, None} \cap Int = {}
    /\ Killed /= None /\ None \notin {Status, Again} /\ Status /= Again
    /\ None \notin Printed \cup {"notice"} \cup ToSet(Params)

VARIABLES
    method, check,  \* what exec() is asked for: "run", "install" or "need"
    env,            \* environment()
    right,          \* whether the password is the right one
    out, inp,       \* the terminal: output not yet read, input not yet read
    echo,           \* the terminal's ECHO flag
    buf,            \* PtyProcess::inputBuffer
    prog,           \* what su, sudo or ssh is doing
    tries,          \* how often it has asked
    status,         \* how it ended, for waitpid()
    stub,           \* kdesu_stub: its next step, parameter and values so far
    cmd,            \* the exit code of the command
    at,             \* where exec() is
    line,           \* the line it has read
    then,           \* what it returns after waitForChild()
    result          \* what it returned

job == <<method, check, env, right>>
terminal == <<out, inp, echo>>
external == <<prog, tries, status>>
stubVars == <<stub, cmd>>
process == <<buf, at, line, then, result>>
vars == <<job, terminal, external, stubVars, process>>

NoStub == [at |-> "none", i |-> 0, values |-> <<>>]

Init ==
    /\ method \in Methods /\ check \in {"run", "install", "need"}
    /\ env \in Environments /\ right \in BOOLEAN
    /\ out = <<>> /\ inp = <<>>
    /\ echo = (method = "ssh")      \* SuProcess turns it off before it starts su
    /\ buf = <<>>
    /\ prog = "none" /\ tries = 0 /\ status = None
    /\ stub = NoStub /\ cmd = None
    /\ at = "exec" /\ line = "" /\ then = None /\ result = None

-----------------------------------------------------------------------------
(* The program behind the terminal (external).                               *)

Prints(lines) == out' = out \o lines

Ends(code) == prog' = "gone" /\ status' = code

\* It has asked for nothing since it was started or refused a password.
Before == prog \in {"begun", "start"}

\* It cannot be executed, or fails before it asks: setupTTY(), execv().
ProgFails ==
    /\ Before
    /\ Ends(1)
    /\ UNCHANGED <<job, terminal, tries, stubVars, process>>

ProgNotice ==
    /\ prog = "begun"
    /\ \E n \in Notices : Prints(<<n>>)
    /\ prog' = "start"
    /\ UNCHANGED <<job, inp, echo, tries, status, stubVars, process>>

\* It asks for the password, and then, if not already, turns echo off in the
\* way that discards what has been typed.
ProgPrompt ==
    /\ Before /\ tries < MaxTries
    /\ Prints(<<"prompt">>)
    /\ tries' = tries + 1
    /\ IF method \in LateEcho
       THEN prog' = "late" /\ UNCHANGED <<inp, echo>>
       ELSE prog' = "reading" /\ echo' = FALSE /\ inp' = <<>>
    /\ UNCHANGED <<job, status, stubVars, process>>

ProgEchoOff ==
    /\ prog = "late"
    /\ prog' = "reading" /\ echo' = FALSE /\ inp' = <<>>
    /\ UNCHANGED <<job, out, tries, status, stubVars, process>>

\* ssh had the echo on before it asked, and turns it on again.
EchoRestored == echo' = (method = "ssh")

ProgAccepts ==
    /\ prog = "reading" /\ inp /= <<>> /\ right /\ Head(inp) = "password"
    /\ inp' = Tail(inp)
    /\ \E echoed \in {"blank", "stars"} : Prints(<<echoed>>)
    /\ prog' = "authorized" /\ EchoRestored
    /\ UNCHANGED <<job, tries, status, stubVars, process>>

\* su ends; sudo and ssh ask again.
ProgRefuses ==
    /\ prog = "reading" /\ inp /= <<>> /\ ~(right /\ Head(inp) = "password")
    /\ inp' = Tail(inp) /\ EchoRestored
    /\ IF method = "su" \/ tries = MaxTries
       THEN Prints(<<"blank", "denied">>) /\ Ends(1)
       ELSE Prints(<<"blank", "text">>) /\ prog' = "start" /\ UNCHANGED status
    /\ UNCHANGED <<job, tries, stubVars, process>>

\* sudo's passwd_timeout, sshd's LoginGraceTime.
ProgTimeout ==
    /\ prog = "reading" /\ method /= "su"
    /\ Prints(<<"blank", "text">>) /\ EchoRestored /\ Ends(1)
    /\ UNCHANGED <<job, inp, tries, stubVars, process>>

\* No password was needed, or it was right.
ProgStartsStub ==
    /\ prog = "authorized" \/ (Before /\ tries = 0)
    /\ prog' = "stub"
    /\ stub' = [at |-> "ask", i |-> 1, values |-> <<>>]
    /\ UNCHANGED <<job, terminal, tries, status, cmd, process>>

\* The stub has ended, by itself or by a signal.
StubOver == stub.at \in {"exited", "killed"}

\* ssh stays for connections it forwards, and says so.
ProgForwards ==
    /\ prog = "stub" /\ method = "ssh" /\ StubOver
    /\ Prints(<<"forward">>) /\ prog' = "forwarding"
    /\ UNCHANGED <<job, inp, echo, tries, status, stubVars, process>>

\* The exit code of the stub becomes the program's.  For a stub that a signal
\* ended it is another one, or su and sudo send themselves the same signal.
ProgEnds ==
    /\ prog \in {"stub", "forwarding"}
    /\ \/ stub.at = "exited" /\ Ends(stub.i)
       \/ stub.at = "killed" /\ Ends(1)
       \/ stub.at = "killed" /\ method /= "ssh" /\ Ends(Killed)
    /\ UNCHANGED <<job, terminal, tries, stubVars, process>>

\* The connection of ssh is lost, and with it the stub.
ProgDisconnected ==
    /\ prog = "stub" /\ method = "ssh" /\ ~StubOver
    /\ Ends(1) /\ stub' = NoStub
    /\ UNCHANGED <<job, terminal, tries, cmd, process>>

Program ==
    \/ ProgFails \/ ProgNotice \/ ProgPrompt \/ ProgEchoOff
    \/ ProgAccepts \/ ProgRefuses \/ ProgTimeout
    \/ ProgStartsStub \/ ProgForwards \/ ProgDisconnected \/ ProgEnds

-----------------------------------------------------------------------------
(* kdesu_stub (kdesu_stub.c).                                                *)

StubExits(code) == stub' = [stub EXCEPT !.at = "exited", !.i = code]

\* printf() and fflush() of the next parameter's name.  For every method another
\* stub than this source's may be configured (suprocess.cpp:136), or be installed
\* on the other host, and ask for something else.
StubAsks ==
    /\ stub.at = "ask"
    /\ \/ Prints(<<Params[stub.i]>>)
       \/ stub.i > 1 /\ Prints(<<"unknown">>)
    /\ stub' = [stub EXCEPT !.at = "read"]
    /\ UNCHANGED <<job, inp, echo, external, cmd, process>>

\* fgets() of its value; "stop" in the place of the first is the check of the
\* installation.
StubReads ==
    /\ stub.at = "read" /\ inp /= <<>>
    /\ inp' = Tail(inp)
    /\ IF stub.i = 1 /\ Head(inp) = "stop"
       THEN Prints(<<"end">>) /\ StubExits(0)
       ELSE /\ stub' = [at |-> IF stub.i < Len(Params) THEN "ask" ELSE "environment",
                        i |-> stub.i + 1, values |-> Append(stub.values, Head(inp))]
            /\ UNCHANGED out
    /\ UNCHANGED <<job, echo, external, cmd, process>>

StubAsksEnvironment ==
    /\ stub.at = "environment"
    /\ Prints(<<"environment">>)
    /\ stub' = [stub EXCEPT !.at = "variables"]
    /\ UNCHANGED <<job, inp, echo, external, cmd, process>>

\* Lines up to an empty one, and "end".
StubReadsVariable ==
    /\ stub.at = "variables" /\ inp /= <<>>
    /\ inp' = Tail(inp)
    /\ IF Head(inp) = ""
       THEN Prints(<<"end">>) /\ stub' = [stub EXCEPT !.at = "setup"]
       ELSE stub' = [stub EXCEPT !.values = Append(@, Head(inp))] /\ UNCHANGED out
    /\ UNCHANGED <<job, echo, external, cmd, process>>

\* The user does not exist, or the uid, the groups, a file or a process cannot
\* be had: a message and exit(1).
StubFails ==
    /\ stub.at = "setup"
    /\ Prints(<<"denied">>) /\ StubExits(1)
    /\ UNCHANGED <<job, inp, echo, external, cmd, process>>

StubRuns ==
    /\ stub.at = "setup"
    /\ stub' = [stub EXCEPT !.at = "command"]
    /\ UNCHANGED <<job, terminal, external, cmd, process>>

\* The command ends; one that a signal ended counts as 1.
StubReaps ==
    /\ stub.at = "command"
    /\ \E code \in {0, 1} : cmd' = code /\ StubExits(code)
    /\ UNCHANGED <<job, terminal, external, process>>

Stub ==
    \/ StubAsks \/ StubReads \/ StubAsksEnvironment \/ StubReadsVariable
    \/ StubFails \/ StubRuns \/ StubReaps

-----------------------------------------------------------------------------
(* Signals from outside (external): nobody has to send one.                  *)

\* One to the program: it ends by it, or catches it and ends with a code.  The
\* stub goes with it, or lives on: SIGHUP is ignored (ptyprocess.cpp:508), and it
\* has the terminal open.
ProgKilled ==
    /\ prog \notin {"none", "gone"}
    /\ \E code \in {1, Killed} : Ends(code)
    /\ stub' = NoStub \/ (method /= "ssh" /\ prog = "stub" /\ UNCHANGED stub)
    /\ UNCHANGED <<job, terminal, tries, cmd, process>>

\* One to the stub; ProgEnds says what the program makes of it.
StubKilled ==
    /\ stub.at /= "none" /\ ~StubOver
    /\ stub' = [stub EXCEPT !.at = "killed"]
    /\ UNCHANGED <<job, terminal, external, cmd, process>>

Signals == ProgKilled \/ StubKilled

-----------------------------------------------------------------------------
(* PtyProcess and StubProcess.                                               *)

Unread == buf \o out

\* Nobody has the other end of the terminal open.
TerminalClosed == prog = "gone" /\ (stub.at = "none" \/ StubOver)

\* readLine() has something to return: a line, or none.
Readable == Unread /= <<>> \/ TerminalClosed

\* readAll() takes all there is.  A prompt has no newline of its own, so that
\* the newline the program prints later becomes the end of its line when both
\* are read together.
FirstLine == IF Unread = <<>> THEN None ELSE Head(Unread)
AfterFirst ==
    IF Unread = <<>> THEN <<>>
    ELSE IF Len(Unread) > 1 /\ Unread[1] = "prompt" /\ Unread[2] = "blank"
         THEN Tail(Tail(Unread))
    ELSE Tail(Unread)

\* The line is taken and handled; the header of the stub is put back.
ReadLine == buf' = AfterFirst /\ out' = <<>>
UnreadLine == buf' = Unread /\ out' = <<>>

WriteLines(lines) == inp' = inp \o lines

Return(code) == at' = "returned" /\ result' = code
Wait(code) == at' = "wait" /\ then' = code /\ UNCHANGED result

KillSlip == UNCHANGED <<prog, status, stub>>      \* no kill()

\* kill() of the child; sudo runs as root and cannot be killed.
Kill ==
    IF method = "sudo" \/ prog = "gone"
    THEN UNCHANGED <<prog, status, stub>>
    ELSE Ends(Killed) /\ stub' = NoStub

\* The first loop of converseStub(): up to the header.
StubHeader ==
    /\ at = "header" /\ Readable
    /\ ReadLine
    /\ CASE FirstLine = None -> Return(-1) /\ UNCHANGED <<inp, echo>>
         [] FirstLine = Params[1] ->
              /\ echo' = FALSE
              /\ WriteLines(<<IF check = "run" THEN "ok" ELSE "stop">>)
              /\ at' = "talk" /\ UNCHANGED result
         [] OTHER -> UNCHANGED <<at, result, inp, echo>>
    /\ UNCHANGED <<job, external, stubVars, line, then>>

AnswerToSlip(request) ==      \* one line too many after the environment
    IF request = "environment" THEN env \o <<"", "">> ELSE <<request>>

\* Its second loop: what is written for a request.
AnswerTo(request) ==
    IF request = "environment" THEN env \o <<"">> ELSE <<request>>

StubRequest ==
    /\ at = "talk" /\ Readable
    /\ FirstLine \in ToSet(Tail(Params)) \cup {"environment"}
    /\ ReadLine
    /\ WriteLines(AnswerTo(FirstLine))
    /\ UNCHANGED <<job, echo, external, stubVars, at, line, then, result>>

StubNoLine ==
    /\ at = "talk" /\ Readable /\ FirstLine = None
    /\ ReadLine /\ Return(-1)
    /\ UNCHANGED <<job, inp, echo, external, stubVars, line, then>>

StubEndSlip ==      \* the exit code is not passed on
    /\ at = "talk" /\ Readable /\ FirstLine = "end"
    /\ ReadLine
    /\ Wait(0)
    /\ UNCHANGED <<job, inp, echo, external, stubVars, line>>

\* After "end" exec() waits for the child: what it returns is the child's exit
\* code, or 0 for a check.
StubEnd ==
    /\ at = "talk" /\ Readable /\ FirstLine = "end"
    /\ ReadLine
    /\ Wait(IF check = "install" THEN 0 ELSE Status)
    /\ UNCHANGED <<job, inp, echo, external, stubVars, line>>

\* Any other line: converseStub() returns 1, "kill me", and exec() does so.
\* SshProcess::exec() goes on as if the conversation had ended well.
StubUnknown ==
    /\ at = "talk" /\ Readable
    /\ FirstLine \notin ToSet(Tail(Params)) \cup {"environment", "end", None}
    /\ ReadLine
    /\ Kill
    /\ Wait(IF method = "ssh" THEN Again ELSE 3)
    /\ UNCHANGED <<job, inp, echo, tries, cmd, line>>

ChildValueSlip == status      \* Killed is passed on

\* waitForChild(): output is dropped.  Its value: the exit code, or 0 for a
\* child that was killed.
ChildValue == IF status = Killed THEN 0 ELSE status

WaitForChild ==
    /\ at = "wait" /\ status /= None
    /\ buf' = <<>> /\ out' = <<>>
    /\ IF then = Again
       THEN at' = "waitagain" /\ UNCHANGED result
       ELSE Return(IF then = Status THEN ChildValue ELSE then)
    /\ UNCHANGED <<job, inp, echo, external, stubVars, line, then>>

\* A second waitForChild() finds no child (ECHILD) and returns 0.
WaitForNobody ==
    /\ at = "waitagain"
    /\ Return(0)
    /\ UNCHANGED <<job, terminal, external, stubVars, buf, line, then>>

\* A line of output is m_exitString: SIGTERM.
WaitExitString ==
    /\ at = "wait" /\ method = "ssh" /\ then = Status
    /\ "forward" \in ToSet(out)
    /\ out' = <<>> /\ buf' = <<>>
    /\ Kill
    /\ UNCHANGED <<job, inp, echo, tries, cmd, at, line, then, result>>

ConverseStub ==
    \/ StubHeader \/ StubRequest \/ StubNoLine \/ StubEnd \/ StubUnknown
    \/ WaitForChild \/ WaitForNobody \/ WaitExitString
===============================================================================
