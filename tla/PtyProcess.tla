------------------------------ MODULE PtyProcess ------------------------------
(***************************************************************************)
(* Class PtyProcess at the level of bytes: readAll(), readLine(),          *)
(* unreadLine(), writeLine() and waitForChild() on a pseudo terminal, with *)
(* writeString() of class StubProcess and dequote() of kdesu_stub, in the  *)
(* order in which exec() uses them.  Modules StubProcess and Authentication *)
(* have the same conversation with whole lines and all that is decided in  *)
(* it; here lines are made of what one read() returns.                     *)
(*                                                                         *)
(* A read() takes all the terminal has; in a torn run it may take less, as *)
(* a driver may do that delivers output in parts.                          *)
(***************************************************************************)
EXTENDS Characters, FiniteSets

CONSTANTS
    Tearing,       \* whether runs are torn
    Commands,      \* the commands to run
    Variables,     \* the environment variables to pass, each one or none
    Notices,       \* what the program prints before the stub starts
    Outputs,       \* what the command prints, in one write() each
    MaxOutputs,    \* bound on these writes
    ExitString,
    Header, AskCommand, AskEnvironment, End,    \* the lines of kdesu_stub
    None

ASSUME PtyAssumption ==
    /\ Tearing \subseteq BOOLEAN
    /\ MaxOutputs \in Nat
    /\ ExitString /= <<>> /\ Newline \notin ToSet(ExitString)

\* Texts are bytes, and the lines of the stub are lines, three requests among them.
ASSUME TextAssumption ==
    /\ Commands \cup Variables \cup Notices \cup Outputs \cup {ExitString} \subseteq Bytes
    /\ \A line \in {Header, AskCommand, AskEnvironment, End} :
          line \in Bytes /\ Newline \notin ToSet(line)
    /\ AskCommand \notin {AskEnvironment, End} /\ AskEnvironment /= End

VARIABLES
    torn,
    command, variable,    \* what is to be passed
    child,      \* what the stub does next, and then the command
    left,       \* writes the command may still do
    attached,   \* a process that the command left behind has the terminal open
    got,        \* the strings the stub has read
    tty,        \* output that was not read
    typed,      \* input that the stub has not read
    printed,    \* history variable: all output
    buffer,     \* inputBuffer
    at,         \* where exec() is
    copied,     \* what waitForChild() has read, and written to stdout if asked to
    remainder,
    signalled   \* it has sent SIGTERM

job == <<torn, command, variable>>
childVars == <<child, left, attached, got>>
parentVars == <<buffer, at, copied, remainder, signalled>>
vars == <<job, childVars, tty, typed, printed, parentVars>>

Init ==
    /\ torn \in Tearing /\ command \in Commands /\ variable \in Variables \cup {None}
    /\ child = "login" /\ left = MaxOutputs /\ attached = FALSE /\ got = <<>>
    /\ tty = <<>> /\ typed = <<>> /\ printed = <<>>
    /\ buffer = <<>> /\ at = "header"
    /\ copied = <<>> /\ remainder = <<>> /\ signalled = FALSE

-----------------------------------------------------------------------------
(* Strings for the stub: writeString() and dequote().                        *)

WrittenSlip(c) == IF c < 32 THEN <<Backslash, c + At>> ELSE <<c>>   \* no "\/"

WrittenChar(c) ==
    CASE c < 32        -> <<Backslash, c + At>>
      [] c = Backslash -> <<Backslash, Slash>>
      [] OTHER         -> <<c>>

WriteString(str) == FlattenSeq([i \in DOMAIN str |-> WrittenChar(str[i])]) \o <<Newline>>

\* In place, from the left; the array ends at its first NUL.
Dequote(str) ==
    LET from[i \in 1 .. Len(str) + 1] ==
            IF i > Len(str) THEN <<>>
            ELSE IF str[i] /= Backslash \/ i = Len(str) THEN <<str[i]>> \o from[i + 1]
            ELSE IF str[i + 1] = Slash THEN <<Backslash>> \o from[i + 2]
            ELSE <<(str[i + 1] - At) % 256>> \o from[i + 2]
    IN  UpToNul(from[1])

\* xstrdup(): without a newline at the end.
Stripped(str) ==
    IF str /= <<>> /\ Last(str) = Newline THEN Front(str) ELSE str

\* The line discipline (external): 127 erases the character before it.
Edited(str) ==
    LET line[n \in 0 .. Len(str)] ==      \* after n characters
            IF n = 0 THEN <<>>
            ELSE IF str[n] /= Delete THEN Append(line[n - 1], str[n])
            ELSE IF line[n - 1] = <<>> THEN <<>> ELSE Front(line[n - 1])
    IN  line[Len(str)]

-----------------------------------------------------------------------------
(* The other side of the terminal: program, stub and command.                *)

Prints(text) == tty' = tty \o text /\ printed' = printed \o text
PrintsLine(text) == Prints(Append(text, Newline))

Notice ==
    /\ child = "login"
    /\ \E text \in Notices : Prints(text)
    /\ child' = "start"
    /\ UNCHANGED <<job, left, attached, got, typed, parentVars>>

\* The next line of the stub, and what it does after it.
Asks ==
    /\ \/ child \in {"login", "start"} /\ PrintsLine(Header) /\ child' = "ok"
       \/ child = "ask" /\ PrintsLine(AskCommand) /\ child' = "command"
       \/ child = "environment" /\ PrintsLine(AskEnvironment) /\ child' = "variables"
       \/ child = "done" /\ PrintsLine(End) /\ child' = "run"
    /\ UNCHANGED <<job, left, attached, got, typed, parentVars>>

\* fgets(); a variable is dequoted with its newline, the command without it.
Reads ==
    /\ child \in {"ok", "command", "variables"} /\ Newline \in ToSet(typed)
    /\ LET line == Edited(FirstOf(typed, IndexOf(typed, Newline)))
           variab == Stripped(Dequote(line))
       IN  CASE child = "ok" -> child' = "ask" /\ UNCHANGED got
             [] child = "command" ->
                   child' = "environment" /\ got' = Append(got, Dequote(Stripped(line)))
             [] child = "variables" /\ variab = <<>> -> child' = "done" /\ UNCHANGED got
             [] OTHER -> got' = Append(got, variab) /\ UNCHANGED child
    /\ typed' = After(typed, IndexOf(typed, Newline))
    /\ UNCHANGED <<job, left, attached, tty, printed, parentVars>>

CommandPrints ==
    /\ child = "run" \/ attached
    /\ left > 0
    /\ \E text \in Outputs : Prints(text)
    /\ left' = left - 1
    /\ UNCHANGED <<job, child, attached, got, typed, parentVars>>

\* Every process may end at any time; a command may leave another behind.
ChildEnds ==
    /\ child /= "gone"
    /\ attached' \in IF child = "run" THEN BOOLEAN ELSE {FALSE}
    /\ child' = "gone"
    /\ UNCHANGED <<job, left, got, tty, typed, printed, parentVars>>

LastCloses ==
    /\ attached
    /\ attached' = FALSE
    /\ UNCHANGED <<job, child, left, got, tty, typed, printed, parentVars>>

OtherSide == Notice \/ Asks \/ Reads \/ CommandPrints \/ ChildEnds \/ LastCloses

-----------------------------------------------------------------------------
(* Reading lines.                                                            *)

HungUp == child = "gone" /\ ~attached

\* What one read() can return: all there is, or, torn, a part of it.
Chunks ==
    IF tty = <<>> THEN {0} ELSE IF torn THEN 1 .. Len(tty) ELSE {Len(tty)}

ReadAllSlip(n) ==      \* resized to what was read, the buffered part not counted
    IF n = 0 THEN buffer ELSE FirstOf(buffer \o FirstOf(tty, n), n)

ReadAll(n) == buffer \o FirstOf(tty, n)

\* readLine(): it blocks while nothing is buffered and the terminal is open.
\* Without a newline all there is counts as a line.
LineOf(text) ==
    IF IndexOf(text, Newline) = 0 THEN text ELSE FirstOf(text, IndexOf(text, Newline) - 1)
RestOf(text) ==
    IF IndexOf(text, Newline) = 0 THEN <<>> ELSE After(text, IndexOf(text, Newline))

\* Nothing at all: readLine() returns a null array.
NoLine ==
    /\ at \in {"header", "login", "talk"} /\ buffer \o tty = <<>> /\ HungUp
    /\ at' = "failed"
    /\ UNCHANGED <<job, childVars, tty, typed, printed, buffer, copied, remainder, signalled>>

\* A line was read: converseSU() and converseSsh() put the header back.
TakeLine(text) ==
    CASE at = "header" ->
            /\ IF LineOf(text) = Header
               THEN buffer' = Header \o <<Newline>> \o RestOf(text) /\ at' = "login"
               ELSE buffer' = RestOf(text) /\ UNCHANGED at
            /\ UNCHANGED typed
      [] at = "login" ->
            /\ buffer' = RestOf(text)
            /\ IF LineOf(text) = Header
               THEN at' = "talk" /\ typed' = typed \o <<111, 107, Newline>>
               ELSE UNCHANGED <<at, typed>>
      [] at = "talk" ->
            /\ buffer' = RestOf(text)
            /\ CASE LineOf(text) = AskCommand ->
                       typed' = typed \o WriteString(command) /\ UNCHANGED at
                 [] LineOf(text) = AskEnvironment ->
                       /\ typed' = typed \o (IF variable = None THEN <<>>
                                             ELSE WriteString(variable)) \o <<Newline>>
                       /\ UNCHANGED at
                 [] LineOf(text) = End -> at' = "select" /\ UNCHANGED typed
                 [] OTHER -> at' = "failed" /\ UNCHANGED typed

ReadLine ==
    /\ at \in {"header", "login", "talk"} /\ buffer \o tty /= <<>>
    /\ \E n \in Chunks : TakeLine(ReadAll(n)) /\ tty' = After(tty, n)
    /\ UNCHANGED <<job, childVars, printed, copied, remainder, signalled>>

-----------------------------------------------------------------------------
(* waitForChild().                                                           *)

WaitFor(next) == at' = next /\ UNCHANGED <<buffer, copied, remainder, signalled>>

Select ==
    /\ at = "select" /\ (tty /= <<>> \/ HungUp)
    /\ WaitFor("drain")
    /\ UNCHANGED <<job, childVars, tty, typed, printed>>

\* Nothing for a tenth of a second: what is buffered is not looked at.
TimeOutSlip ==      \* the next select() without a look at the child
    at = "select" /\ tty = <<>> /\ ~HungUp /\ UNCHANGED vars

TimeOut ==
    /\ at = "select" /\ tty = <<>> /\ ~HungUp
    /\ WaitFor("check")
    /\ UNCHANGED <<job, childVars, tty, typed, printed>>

\* The lines of the remainder, one after the other: it ends inside the last one.
\* What is left after the exit string is taken for the beginning of a line again.
MatchedSlip(text) ==      \* looks at the beginning of the text only
    [found |-> IsPrefix(ExitString, text), rest |-> RestOf(text)]

Matched(text) ==
    LET size == Len(ExitString)
        scan[n \in 0 .. Len(text)] ==      \* what n characters at the end give
            LET t     == After(text, Len(text) - n)
                hit   == IsPrefix(ExitString, t)
                after == IF hit THEN After(t, size) ELSE t
                next  == scan[Len(RestOf(after))]
            IN  IF n < size THEN [found |-> FALSE, rest |-> t]
                ELSE IF IndexOf(after, Newline) = 0 THEN [found |-> hit, rest |-> after]
                ELSE [found |-> hit \/ next.found, rest |-> next.rest]
    IN  scan[Len(text)]

Drain ==
    /\ at = "drain"
    /\ \E n \in Chunks :
          LET output == ReadAll(n)
              match  == Matched(remainder \o output)
          IN  /\ tty' = After(tty, n)
              /\ buffer' = <<>>
              /\ IF output = <<>>
                 THEN at' = "check" /\ UNCHANGED <<copied, remainder, signalled>>
                 ELSE /\ copied' = copied \o output
                      /\ remainder' = match.rest
                      /\ signalled' = (signalled \/ match.found)
                      /\ UNCHANGED at
    /\ UNCHANGED <<job, childVars, typed, printed>>

\* checkPidExited().
Check ==
    /\ at = "check"
    /\ WaitFor(IF child = "gone" THEN "returned" ELSE "select")
    /\ UNCHANGED <<job, childVars, tty, typed, printed>>

Process == ReadLine \/ NoLine \/ Select \/ TimeOut \/ Drain \/ Check

Next == OtherSide \/ Process

\* exec() goes on, and SIGTERM ends the child.
Spec == /\ Init /\ [][Next]_vars
        /\ WF_vars(Process)
        /\ WF_vars(signalled /\ ChildEnds)

-----------------------------------------------------------------------------
(* Properties.                                                               *)

Waiting == at \in {"select", "drain", "check"}

\* The remainder never holds a whole line that was not compared.
TypeOK ==
    /\ torn \in Tearing /\ command \in Commands /\ variable \in Variables \cup {None}
    /\ child \in {"login", "start", "ok", "ask", "command", "environment", "variables",
                  "done", "run", "gone"}
    /\ at \in {"header", "login", "talk", "failed", "select", "drain", "check", "returned"}
    /\ left \in 0 .. MaxOutputs /\ attached \in BOOLEAN /\ signalled \in BOOLEAN
    /\ {tty, typed, printed, buffer, copied} \subseteq Bytes
    /\ got \in Seq(Bytes)
    /\ Newline \in ToSet(remainder) => Len(remainder) < Len(ExitString)

LineStarts(text) == {1} \cup {i + 1 : i \in {j \in DOMAIN text : text[j] = Newline}}

\* What comes before the stub is whole lines, and none of them is its header.
QuietNotices ==
    \A text \in Notices :
        /\ text = <<>> \/ Last(text) = Newline
        /\ \A i \in LineStarts(text) : LineOf(After(text, i - 1)) /= Header

\* No character of a string is lost to the terminal or to an array's end.
Typable(str) == {Nul, Delete} \cap ToSet(str) = {} /\ str /= <<>>

\* While no line is torn the conversation stays in step, and what the stub reads is
\* what was written, whatever characters it has: the header that was put back is
\* found again, and every request is known (ptyprocess.cpp:228-272,
\* stubprocess.cpp:76-92, 117-222, kdesu_stub.c:166-237).
StubGetsStrings ==
    ~torn =>
        /\ at = "failed" => child = "gone"
        /\ child = "run" /\ Typable(command) /\ (variable = None \/ Typable(variable)) =>
              got = IF variable = None THEN <<command>> ELSE <<command, variable>>

HasExitLine(text) ==
    \E i \in LineStarts(text) : IsPrefix(ExitString, After(text, i - 1))

\* The child is signalled if and only if a line of what was read begins with the
\* exit string, in however many parts the line came (ptyprocess.cpp:455-473).
SignalledForLine == signalled <=> HasExitLine(copied)

\* What waitForChild() reads, copies and leaves is the end of the output, in order:
\* lines that readLine() had read ahead included (ptyprocess.cpp:175-249).
NothingDropped == Waiting \/ at = "returned" => IsSuffix(copied \o buffer \o tty, printed)

\* waitForChild() returns when the child has ended, also while another process
\* keeps the terminal open, and when a line of output "matches" the exit string
\* (ptyprocess.h:112-122).  A line that only lies in inputBuffer is the exception:
\* it is not looked at before more output arrives.
WaitEnds ==
    (Waiting /\ (child = "gone" \/ (tty /= <<>> /\ HasExitLine(copied \o buffer \o tty))))
        ~> (at = "returned")
===============================================================================
