--------------------------------- MODULE Wire ---------------------------------
(***************************************************************************)
(* One connection to kdesud, byte by byte: Client::command() sends a line  *)
(* and blocks in one recv(); ConnectionHandler::handle() receives whatever *)
(* part of the stream has arrived into a buffer of fixed size and executes *)
(* the lines that are complete.  Module Kdesud has the effects of the      *)
(* commands; here they are calls, and of the store there is what SET, GET  *)
(* and DELV do with variables that never expire.                           *)
(*                                                                         *)
(* A "client" uses class Client.  A "pipeline" does not wait for answers,  *)
(* and a "stranger" sends one line of any kind.                            *)
(***************************************************************************)
EXTENDS WireText, FiniteSets

CONSTANTS
    Programs,    \* the kinds of programs
    ClientCalls, \* what is called through class Client
    RawLines,    \* what strangers send, each ending with its only newline
    KeyLists,    \* the answers of GETK that find something
    ExitCodes,
    Window,      \* how many answers a pipeline leaves unread
    MaxCalls,    \* MaxCalls[p]: bound on the calls of a program
    BufSize      \* BUF_SIZE of the daemon, and the size of buf in command()

ASSUME WireAssumption ==
    /\ Programs \subseteq {"client", "pipeline", "stranger"}
    /\ BufSize \in Nat /\ BufSize >= 5
    /\ Window \in Nat /\ MaxCalls \in [Programs -> Nat]
    /\ ExitCodes \subseteq 0 .. IntMax
    /\ \A n \in ExitCodes : Len(Decimal(n)) + 5 <= BufSize
    /\ KeyLists \subseteq Bytes

\* How many strings and how many numbers class Client sends with a command other
\* than EXEC.
Arity(op) ==
    CASE op = Tok_pass                         -> <<1, 1>>
      [] op = Tok_set                          -> <<3, 1>>
      [] op = Tok_delCmd                       -> <<2, 0>>
      [] op \in {Tok_prio, Tok_sched}          -> <<0, 1>>
      [] op \in {Tok_ping, Tok_exit, Tok_stop} -> <<0, 0>>
      [] OTHER                                 -> <<1, 0>>

\* exec() always has command, user, options and an environment of any length.
IsCall(call) ==
    /\ call \in [op : Keywords, strings : Seq(Bytes), numbers : Seq(-IntMax - 1 .. IntMax)]
    /\ IF call.op = Tok_exec THEN Len(call.strings) >= 3 /\ call.numbers = <<>>
       ELSE <<Len(call.strings), Len(call.numbers)>> = Arity(call.op)

\* A line of a stranger ends with its only newline.
IsLine(line) ==
    line \in Texts /\ line /= <<>> /\ IndexOf(line, Newline) = Len(line)

ASSUME InputAssumption ==
    /\ \A call \in ClientCalls : IsCall(call)
    /\ \A line \in RawLines :
          IsLine(line) /\ ToSet(Parsed(line).strings) \subseteq Bytes

VARIABLES
    program,
    made,        \* calls made
    waiting,     \* calls that have not returned
    last,        \* history variable: the last call
    stream,      \* bytes sent to the daemon and not received
    buf,         \* m_Buf
    mode,        \* "select", "handle" or "closed"
    store,       \* variables; no text stands for no entry
    replies,     \* bytes sent to the program and not received
    owed,        \* history variable: the answers these bytes stand for
    result,      \* what the last call returned
    inStep,      \* history variable: no answer was too long or had a NUL
    flight       \* history variable: the calls in the bytes not yet handled

callerVars == <<program, made, last>>
inVars == <<stream, buf>>
outVars == <<waiting, replies, owed, result, inStep>>
vars == <<callerVars, inVars, mode, store, outVars, flight>>

Heard == {Parsed(line) : line \in RawLines}
AllCalls == ClientCalls \cup Heard
Named == {call \in AllCalls : call.op \in {Tok_set, Tok_get, Tok_delVar}}
Names == {call.strings[1] : call \in Named}
Failed == No

Init ==
    /\ program \in Programs
    /\ made = 0 /\ waiting = 0 /\ last = Unknown
    /\ stream = <<>> /\ buf = <<>> /\ mode = "select"
    /\ store = [n \in Names |-> <<>>]
    /\ replies = <<>> /\ owed = <<>> /\ result = Failed /\ inStep = TRUE
    /\ flight = <<>>

-----------------------------------------------------------------------------
(* The program.                                                              *)

\* send(): one line, all of it.
Say(line) ==
    /\ mode /= "closed" /\ made < MaxCalls[program]
    /\ stream' = stream \o line
    /\ made' = made + 1
    /\ waiting' = waiting + 1
    /\ UNCHANGED <<program, buf, mode, store, replies, owed, result, inStep>>

Call(call) ==
    /\ waiting < (IF program = "client" THEN 1 ELSE Window)
    /\ Say(Line(call))
    /\ last' = call

SayRaw(line) == Say(line) /\ last' = Parsed(line)

Readable(answer) == Nul \notin ToSet(answer.text) /\ Len(Reply(answer)) < BufSize

\* The recv() of command().
Return ==
    /\ program = "client" /\ waiting > 0 /\ replies /= <<>>
    /\ result' = Reading(FirstOf(replies, BufSize - 1))
    /\ replies' = After(replies, BufSize - 1)
    /\ waiting' = waiting - 1
    /\ inStep' = (inStep /\ owed /= <<>> /\ Readable(Head(owed)))
    /\ owed' = IF owed = <<>> THEN owed ELSE Tail(owed)
    /\ UNCHANGED <<callerVars, inVars, mode, store>>

\* recv() returns 0, or an error.
EndOfFile ==
    /\ waiting > 0 /\ replies = <<>> /\ mode = "closed"
    /\ result' = Failed
    /\ waiting' = 0
    /\ UNCHANGED <<callerVars, inVars, mode, store, replies, owed, inStep>>

\* A program that reads all there is.
Drain ==
    /\ program /= "client" /\ replies /= <<>>
    /\ waiting' = waiting - Len(owed)
    /\ replies' = <<>> /\ owed' = <<>>
    /\ UNCHANGED <<callerVars, inVars, mode, store, result, inStep>>

Program ==
    \/ program /= "stranger" /\ \E call \in ClientCalls : Call(call)
    \/ program = "stranger" /\ \E line \in RawLines : SayRaw(line)
    \/ Return
    \/ EndOfFile
    \/ Drain

-----------------------------------------------------------------------------
(* The daemon.                                                               *)

RoomSlip == BufSize - Len(buf)        \* no byte kept for the end of the text
Room == BufSize - 1 - Len(buf)

TooLongSlip(bytes) == Len(bytes) >= BufSize - 2
TooLong(bytes) == Len(bytes) = BufSize - 1

\* handle(): a part of the stream; a full buffer ends the connection, whatever
\* is in it.
Recv ==
    /\ mode = "select" /\ stream /= <<>>
    /\ \E n \in 1 .. Len(FirstOf(stream, Room)) :
          LET received == buf \o FirstOf(stream, n)
          IN  IF TooLong(received)
              THEN mode' = "closed" /\ stream' = <<>> /\ buf' = <<>>
              ELSE mode' = "handle" /\ stream' = After(stream, n) /\ buf' = received
    /\ UNCHANGED <<callerVars, store, outVars>>

\* The commands whose answers depend on more than variables: any answer.  EXIT finds
\* an exit code; module KdesuSession has the answer that comes later.
AnswersTo(call) ==
    CASE call.op = Tok_get ->
            {IF store[call.strings[1]] = <<>> THEN No
             ELSE Answer(TRUE, store[call.strings[1]])}
      [] call.op = Tok_getKeys -> {No} \cup {Answer(TRUE, list) : list \in KeyLists}
      [] call.op = Tok_exit -> {Answer(TRUE, Decimal(n)) : n \in ExitCodes}
      [] call.op \in {Tok_exec, Tok_delCmd, Tok_delVar, Tok_delGroup,
                      Tok_delSpecialKey, Tok_chkGroup} -> {Ok, No}
      [] OTHER -> {Ok}

StoreAfter(call) ==
    CASE call.op = Tok_set    -> [store EXCEPT ![call.strings[1]] = call.strings[2]]
      [] call.op = Tok_delVar -> [store EXCEPT ![call.strings[1]] = <<>>]
      [] OTHER                -> store

Respond(answer) ==
    /\ replies' = replies \o Reply(answer)
    /\ owed' = Append(owed, answer)
    /\ UNCHANGED <<waiting, result, inStep>>

EndOfLine == IndexOf(buf, Newline)
FirstLine == FirstOf(buf, EndOfLine)

Close == mode' = "closed" /\ buf' = <<>> /\ stream' = <<>>
Continue == mode' = "handle" /\ buf' = After(buf, EndOfLine) /\ UNCHANGED stream

Execute(call) ==
    /\ call \notin {Malformed, Unknown}
    /\ \E answer \in AnswersTo(call) : Respond(answer)
    /\ store' = StoreAfter(call)
    /\ IF call.op = Tok_stop THEN Close ELSE Continue
    /\ UNCHANGED callerVars

ParseError(call) ==
    /\ call = Malformed
    /\ Close
    /\ UNCHANGED <<callerVars, store, outVars>>

UnknownCommand(call) ==
    /\ call = Unknown
    /\ Respond(No)
    /\ Close
    /\ UNCHANGED <<callerVars, store>>

\* doCommand() of the first line in the buffer.
DoCommand ==
    /\ mode = "handle" /\ EndOfLine /= 0
    /\ \E call \in {Parsed(FirstLine)} :
          \/ Execute(call)
          \/ ParseError(call)
          \/ UnknownCommand(call)

\* The loop of handle() goes on until no line is complete.
HandledSlip ==      \* one line for each recv()
    /\ mode = "handle"
    /\ mode' = "select"
    /\ UNCHANGED <<callerVars, inVars, store, outVars>>

Handled ==
    /\ mode = "handle" /\ EndOfLine = 0
    /\ mode' = "select"
    /\ UNCHANGED <<callerVars, inVars, store, outVars>>

Daemon ==
    \/ Recv
    \/ DoCommand
    \/ Handled

\* The calls in a stream of bytes.
CallsIn[bytes \in Texts] ==
    LET end == IndexOf(bytes, Newline)
    IN  IF end = 0 THEN <<>>
        ELSE <<Parsed(FirstOf(bytes, end))>> \o CallsIn[After(bytes, end)]

Recorded == flight' = CallsIn[buf' \o stream']

Next == (Program \/ Daemon) /\ Recorded

\* The daemon does not stop, and who waits reads.
Spec == /\ Init /\ [][Next]_vars
        /\ WF_vars(Daemon /\ Recorded)
        /\ WF_vars((Return \/ EndOfFile \/ Drain) /\ Recorded)

-----------------------------------------------------------------------------
(* Properties.                                                               *)

TypeOK ==
    /\ program \in Programs /\ made \in 0 .. MaxCalls[program] /\ waiting \in 0 .. made
    /\ stream \in Seq(0 .. 315) /\ buf \in Seq(0 .. 315)
    /\ Len(buf) < BufSize - 1
    /\ mode \in {"select", "handle", "closed"}
    /\ \A n \in Names : store[n] \in Seq(0 .. 255)
    /\ replies \in Seq(0 .. 255) /\ (owed = <<>> /\ inStep => replies = <<>>)
    /\ inStep \in BOOLEAN

\* The lexer has no end-of-input check (lexer.cpp:39-42), and doCommand() does not
\* check either: no line makes it read past the NUL behind the line.
LexerStaysInside ==
    mode = "handle" /\ EndOfLine /= 0 =>
        \A token \in ToSet(Tokens[FirstLine]) : token.next <= Len(FirstLine) + 2

\* What class Client can say.  A negative number is no number to the lexer, and a
\* string with the character 127 has no end; a line has to leave room for a NUL
\* and for one byte more.
Speakable(call) ==
    /\ \A i \in DOMAIN call.numbers : call.numbers[i] >= 0
    /\ \A i \in DOMAIN call.strings : Delete \notin ToSet(call.strings[i])
Fits(call) == Len(Line(call)) <= BufSize - 2

\* A program that uses class Client loses its connection only for a call that
\* cannot be expressed, and such a call is never executed, not even a part of it,
\* however the lines are cut (handler.cpp:64-81, 172-539).
ClosedForCause ==
    program = "client" /\ inStep =>
        IF Speakable(last) /\ Fits(last)
        THEN mode /= "closed" \/ last.op = Tok_stop \/ made = 0
        ELSE owed = <<>>

\* Every call returns: no complete line is left in the buffer while nothing
\* arrives (handler.cpp:83-101), and a line that fills it ends in an end of file.
CallsReturn == (waiting > 0) ~> (waiting = 0)

-----------------------------------------------------------------------------
(* The bytes implement the promise.                                          *)

Reader == program = "client"

AnswerTexts == {<<>>} \cup KeyLists \cup {Decimal(n) : n \in ExitCodes}
               \cup {call.strings[2] : call \in {c \in Named : c.op = Tok_set}}
AllAnswers == {No} \cup {Answer(TRUE, text) : text \in AnswerTexts}

\* A variable is never too long for its answer: the line that set it was longer.
LostAnswers ==
    {a \in AllAnswers :
        Nul \in ToSet(a.text) \/ (a.text \in KeyLists /\ Len(a.text) + 5 > BufSize)}

Promise == INSTANCE CommandQueue
             WITH Calls <- AllCalls, Unspeakable <- {c \in ClientCalls : ~Speakable(c)},
                  Set <- Tok_set, Get <- Tok_get, Unset <- Tok_delVar, Stop <- Tok_stop,
                  Answers <- AllAnswers, Unreadable <- LostAnswers,
                  queue <- flight, answers <- owed,
                  open <- mode /= "closed", reader <- Reader

\* Whatever the parts in which bytes arrive, and whatever characters the strings
\* have: the daemon executes the calls that were made, in their order, with their
\* arguments, and each returns what was answered to it (client.cpp:160-379,
\* lexer.cpp:43-163, handler.cpp:58-102, 172-539).
CallsAsMade == Promise!Spec
===============================================================================
