------------------------- MODULE AuthenticationProofs -------------------------
(***************************************************************************)
(* Theorems about exec() with su, sudo and ssh, for every list of          *)
(* parameters of kdesu_stub, every list of variables, every number of      *)
(* prompts and every choice of what a program prints before it asks: the   *)
(* password stays with the program, the result is what happened, and what  *)
(* the stub takes for the value of a parameter is its value.               *)
(***************************************************************************)
EXTENDS Authentication, SequenceTheorems, TLAPS

-----------------------------------------------------------------------------
(* Types.                                                                    *)

Lines == Printed \cup ToSet(Params)
Values == ToSet(Params) \cup UNION {ToSet(e) : e \in Environments}
Inputs == Typed \cup Values

StubStates ==
    [at : {"none", "ask", "read", "environment", "variables", "setup", "command", "exited",
           "killed"},
     i : Nat, values : Seq(Inputs)]

StubType ==
    /\ stub \in StubStates
    /\ stub.at = "exited" => stub.i \in {0, 1}
    /\ stub.at \in {"ask", "read"} => stub.i \in DOMAIN Params

OutputType == buf \in Seq(Lines) /\ out \in Seq(Lines)
InputType == inp \in Seq(Inputs)

\* The child has ended if and only if waitpid() has something to say of it.
WaitType ==
    /\ line \in Lines \cup {""}
    /\ then \in {None, 0, 1, 3, Status, Again}
    /\ at \in {"wait", "waitagain"} => then /= None
    /\ status /= None <=> prog = "gone"
    /\ at = "exec" => prog = "none"

RunType == TypeOK /\ StubType /\ OutputType /\ InputType /\ WaitType

LEMMA Codes == /\ None \notin Int /\ Killed \notin Int /\ Status \notin Int /\ Again \notin Int
               /\ Killed /= None /\ None /= Status /\ None /= Again /\ Status /= Again
BY StubAssumption

\* What a signal from outside does.
LEMMA SignalsDo ==
    ASSUME Signals
    PROVE  /\ UNCHANGED <<method, check, env, right, out, inp, echo, tries, cmd>>
           /\ UNCHANGED <<buf, at, line, then, result>>
           /\ \/ /\ prog \notin {"none", "gone"} /\ prog' = "gone" /\ status' \in {1, Killed}
                 /\ stub' = NoStub \/ (stub' = stub /\ prog = "stub")
              \/ /\ stub.at \notin {"none", "exited", "killed"}
                 /\ stub' = [stub EXCEPT !.at = "killed"]
                 /\ UNCHANGED <<prog, status>>
BY DEF Signals, ProgKilled, StubKilled, Ends, StubOver, job, terminal, external, process

\* What readLine() takes and leaves is of what there was.
LEMMA FirstAndRest ==
    ASSUME NEW S, Unread \in Seq(S)
    PROVE  /\ AfterFirst \in Seq(S)
           /\ Unread /= <<>> => FirstLine \in S /\ FirstLine = Unread[1]
           /\ Unread = <<>> => FirstLine = None
<1>1. CASE Unread = <<>>
  BY <1>1 DEF AfterFirst, FirstLine
<1>2. CASE Unread /= <<>>
  <2>1. Tail(Unread) \in Seq(S) /\ Head(Unread) = Unread[1] /\ Unread[1] \in S
    BY <1>2
  <2>2. Len(Unread) > 1 => Tail(Tail(Unread)) \in Seq(S)
    <3>1. Len(Unread) > 1 => Len(Tail(Unread)) > 0
      BY <1>2
    <3>2. ASSUME NEW T \in Seq(S), Len(T) > 0
          PROVE  Tail(T) \in Seq(S)
      BY <3>2
    <3>. QED
      BY <2>1, <3>1, <3>2
  <2>. QED
    BY <1>2, <2>1, <2>2 DEF AfterFirst, FirstLine
<1>. QED
  BY <1>1, <1>2

LEMMA Unreads ==
    ASSUME OutputType
    PROVE  /\ Unread \in Seq(Lines) /\ AfterFirst \in Seq(Lines)
           /\ FirstLine \in Lines \cup {None}
           /\ FirstLine = None <=> Unread = <<>>
<1>1. Unread \in Seq(Lines)
  BY DEF OutputType, Unread
<1>. QED
  BY <1>1, FirstAndRest, StubAssumption DEF Lines

LEMMA TypeStep ==
    ASSUME TypeOK, StubType, WaitType, [Next]_vars
    PROVE  TypeOK'
<1>. USE DEF job, terminal, external, stubVars, process
<1>0. MaxTries \in Nat
  BY StubAssumption
<1>1. CASE ProgFails \/ ProgNotice \/ ProgEchoOff
  BY <1>1 DEF TypeOK, ProgFails, ProgNotice, ProgEchoOff, Ends
<1>16. CASE ProgPrompt
  <2>1. tries < MaxTries /\ tries' = tries + 1
    BY <1>16 DEF ProgPrompt
  <2>2. tries' \in 0 .. MaxTries
    BY <1>0, <2>1 DEF TypeOK
  <2>3. /\ UNCHANGED <<method, check, env, right, status, stub, cmd, at, result>>
    BY <1>16 DEF ProgPrompt
  <2>4. prog' = "late" \/ prog' = "reading"
    BY <1>16 DEF ProgPrompt
  <2>5. echo' \in BOOLEAN
    BY <1>16 DEF ProgPrompt, TypeOK
  <2>. QED
    BY <2>2, <2>3, <2>4, <2>5 DEF TypeOK
<1>2. CASE ProgAccepts \/ ProgRefuses \/ ProgTimeout
  BY <1>2 DEF TypeOK, ProgAccepts, ProgRefuses, ProgTimeout, Ends, EchoRestored
<1>3. CASE ProgStartsStub \/ ProgForwards \/ ProgDisconnected
  BY <1>3 DEF TypeOK, ProgStartsStub, ProgForwards, ProgDisconnected, NoStub, Ends
<1>4. CASE ProgEnds
  BY <1>4 DEF TypeOK, StubType, ProgEnds, Ends
<1>5. CASE Stub
  <2>1. stub \in StubStates
    BY DEF StubType
  <2>2. stub'.at \in {"none", "ask", "read", "environment", "variables", "setup",
                     "command", "exited", "killed"}
    <3>1. CASE StubAsks
      BY <2>1, <3>1 DEF StubAsks, StubStates
    <3>2. CASE StubReads
      <4>1. CASE stub.i = 1 /\ Head(inp) = "stop"
        BY <2>1, <3>2, <4>1 DEF StubReads, StubExits, StubStates
      <4>2. CASE ~(stub.i = 1 /\ Head(inp) = "stop")
        BY <2>1, <3>2, <4>2 DEF StubReads, StubStates
      <4>. QED
        BY <4>1, <4>2
    <3>3. CASE StubAsksEnvironment \/ StubRuns
      BY <2>1, <3>3 DEF StubAsksEnvironment, StubRuns, StubStates
    <3>4. CASE StubReadsVariable
      BY <2>1, <3>4 DEF StubReadsVariable, StubStates
    <3>5. CASE StubFails \/ StubReaps
      BY <2>1, <3>5 DEF StubFails, StubReaps, StubExits, StubStates
    <3>. QED
      BY <1>5, <3>1, <3>2, <3>3, <3>4, <3>5 DEF Stub
  <2>3. cmd' \in {None, 0, 1}
    BY <1>5
       DEF TypeOK, Stub, StubAsks, StubReads, StubAsksEnvironment, StubReadsVariable, StubFails,
           StubRuns, StubReaps
  <2>4. /\ UNCHANGED <<method, check, env, right>> /\ echo' = echo /\ prog' = prog /\ tries' = tries
        /\ status' = status /\ at' = at /\ result' = result
    BY <1>5
       DEF Stub, StubAsks, StubReads, StubAsksEnvironment, StubReadsVariable, StubFails,
           StubRuns, StubReaps
  <2>. QED
    BY <2>2, <2>3, <2>4 DEF TypeOK
<1>. USE DEF ReadLine, UnreadLine, Return, Wait
<1>6. CASE StubHeader
  <2>1. \/ at' = "returned" /\ result' = -1
        \/ at' \in {"header", "talk"} /\ result' = result /\ at = "header"
    BY <1>6 DEF StubHeader
  <2>2. UNCHANGED <<method, check, env, right, prog, tries, status, stub, cmd>>
    BY <1>6 DEF StubHeader
  <2>3. echo' \in BOOLEAN
    BY <1>6 DEF StubHeader, TypeOK
  <2>4. result' \in {None, -1, 0, 1, 2, 3} /\ (result' /= None <=> at' = "returned")
    BY <2>1, Codes DEF TypeOK
  <2>. QED
    BY <2>1, <2>2, <2>3, <2>4 DEF TypeOK
<1>7. CASE StubRequest \/ StubNoLine \/ StubEnd
  BY <1>7, Codes DEF TypeOK, StubRequest, StubNoLine, StubEnd
<1>8. CASE StubUnknown \/ WaitExitString
  BY <1>8, Codes DEF TypeOK, StubUnknown, WaitExitString, Kill, Ends, NoStub
<1>9. CASE WaitForChild \/ WaitForNobody
  <2>1. WaitForChild => IF then = Again THEN TRUE ELSE (IF then = Status THEN ChildValue ELSE then) \in {0, 1, 3}
    BY Codes DEF TypeOK, WaitType, WaitForChild, ChildValue
  <2>. QED
    BY <1>9, <2>1, Codes DEF TypeOK, WaitForChild, WaitForNobody
<1>10. CASE SuExec \/ SuHeader \/ SuReadsPrompt \/ SuMoreOutput
  BY <1>10, Codes DEF TypeOK, SuExec, SuHeader, SuReadsPrompt, SuMoreOutput
<1>11. CASE SuRefused
  BY <1>11, Codes DEF TypeOK, SuRefused, Kill, Ends, NoStub
<1>12. CASE SuNeedsPassword
  BY <1>12, Codes DEF TypeOK, SuNeedsPassword, Kill, Ends, NoStub
<1>13. CASE SuPassword \/ SuChecksStar \/ SuHandlesStub
  BY <1>13, Codes DEF TypeOK, SuPassword, SuChecksStar, SuHandlesStub
<1>14. CASE ConverseSsh
  BY <1>14, Codes
     DEF TypeOK, ConverseSsh, SshExec, SshNoLine, SshHeader, SshPrompt, SshPassword,
         SshError, SshNewline
<1>15. CASE UNCHANGED vars
  BY <1>15 DEF vars, TypeOK
<1>17. CASE Signals
  <2>1. stub'.at \in {stub.at, "none", "killed"}
    BY <1>17, SignalsDo DEF NoStub, StubType, StubStates
  <2>2. prog' \in {prog, "gone"} /\ status' \in {status, 1, Killed}
    BY <1>17, SignalsDo
  <2>. QED
    BY <1>17, <2>1, <2>2, SignalsDo DEF TypeOK
<1>. QED
  BY <1>1, <1>2, <1>3, <1>4, <1>5, <1>6, <1>7, <1>8, <1>9, <1>10, <1>11, <1>12, <1>13,
     <1>14, <1>15, <1>16, <1>17
     DEF Next, Exec, Program, Stub, ConverseStub, ConverseSU

LEMMA StubTypeStep ==
    ASSUME StubType, InputType, [Next]_vars
    PROVE  StubType'
<1>. USE DEF job, terminal, external, stubVars, process
<1>1. Params \in Seq(STRING) /\ 1 \in DOMAIN Params
  BY StubAssumption
<1>2. CASE UNCHANGED stub
  BY <1>2 DEF StubType
<1>3. CASE stub' = NoStub
  BY <1>3 DEF NoStub, StubType, StubStates
<1>4. CASE ProgStartsStub
  BY <1>1, <1>4 DEF ProgStartsStub, StubType, StubStates
<1>5. CASE StubAsks
  BY <1>5 DEF StubAsks, StubType, StubStates
<1>6. CASE StubReads
  <2>1. Head(inp) \in Inputs /\ stub.i \in DOMAIN Params
    BY <1>6 DEF StubReads, InputType, StubType
  <2>2. CASE stub.i = 1 /\ Head(inp) = "stop"
    <3>1. stub' = [stub EXCEPT !.at = "exited", !.i = 0]
      BY <1>6, <2>2 DEF StubReads, StubExits
    <3>. QED
      BY <3>1 DEF StubType, StubStates
  <2>3. CASE ~(stub.i = 1 /\ Head(inp) = "stop")
    <3>1. Append(stub.values, Head(inp)) \in Seq(Inputs)
      BY <2>1 DEF StubType, StubStates
    <3>2. stub.i < Len(Params) => stub.i + 1 \in DOMAIN Params
      BY <1>1, <2>1
    <3>3. stub.i + 1 \in Nat
      BY DEF StubType, StubStates
    <3>4. stub' = [at |-> IF stub.i < Len(Params) THEN "ask" ELSE "environment",
                   i |-> stub.i + 1, values |-> Append(stub.values, Head(inp))]
      BY <1>6, <2>3 DEF StubReads
    <3>. QED
      BY <3>1, <3>2, <3>3, <3>4 DEF StubType, StubStates
  <2>. QED
    BY <2>2, <2>3
<1>7. CASE StubAsksEnvironment \/ StubRuns
  BY <1>7 DEF StubAsksEnvironment, StubRuns, StubType, StubStates
<1>8. CASE StubReadsVariable
  <2>1. Append(stub.values, Head(inp)) \in Seq(Inputs)
    <3>0. inp /= <<>>
      BY <1>8 DEF StubReadsVariable
    <3>1. Head(inp) \in Inputs
      BY <3>0 DEF InputType
    <3>2. stub.values \in Seq(Inputs)
      BY DEF StubType, StubStates
    <3>. QED
      BY <3>1, <3>2
  <2>2. \/ stub' = [stub EXCEPT !.at = "setup"]
        \/ stub' = [stub EXCEPT !.values = Append(@, Head(inp))] /\ stub.at = "variables"
    BY <1>8 DEF StubReadsVariable
  <2>. QED
    BY <2>1, <2>2 DEF StubType, StubStates
<1>9. CASE StubFails \/ StubReaps
  <2>1. CASE stub' = [stub EXCEPT !.at = "exited", !.i = 0]
    BY <2>1 DEF StubType, StubStates
  <2>2. CASE stub' = [stub EXCEPT !.at = "exited", !.i = 1]
    BY <2>2 DEF StubType, StubStates
  <2>. QED
    BY <1>9, <2>1, <2>2 DEF StubFails, StubReaps, StubExits
<1>10. CASE Exec \/ UNCHANGED vars
  BY <1>2, <1>3, <1>10
     DEF vars, Exec, ConverseStub, StubHeader, StubRequest, StubNoLine, StubEnd, StubUnknown,
         WaitForChild, WaitForNobody, WaitExitString, Kill, ConverseSU, SuExec, SuRefused,
         SuHeader, SuReadsPrompt, SuMoreOutput, SuNeedsPassword, SuPassword, SuChecksStar,
         SuHandlesStub, ConverseSsh, SshExec, SshNoLine, SshHeader, SshPrompt, SshPassword,
         SshError, SshNewline
<1>11. CASE Program
  BY <1>2, <1>3, <1>4, <1>11
     DEF Program, ProgFails, ProgNotice, ProgPrompt, ProgEchoOff, ProgAccepts, ProgRefuses,
         ProgTimeout, ProgForwards, ProgDisconnected, ProgEnds
<1>12. CASE Signals
  <2>1. stub' = [stub EXCEPT !.at = "killed"] => StubType'
    BY DEF StubType, StubStates
  <2>. QED
    BY <1>2, <1>3, <1>12, <2>1, SignalsDo
<1>. QED
  BY <1>5, <1>6, <1>7, <1>8, <1>9, <1>10, <1>11, <1>12 DEF Next, Stub

-----------------------------------------------------------------------------
(* What a step does to the lines on the terminal.                            *)

\* What exec() takes from the output.
LEMMA ExecOutput ==
    ASSUME Exec
    PROVE  ReadLine \/ UnreadLine \/ (buf' = <<>> /\ out' = <<>>) \/ UNCHANGED <<buf, out>>
<1>. USE DEF terminal
<1>1. CASE ConverseStub
  BY <1>1 DEF ConverseStub, StubHeader, StubRequest, StubNoLine, StubEnd, StubUnknown,
              WaitForChild, WaitForNobody, WaitExitString
<1>2. CASE ConverseSU
  BY <1>2 DEF ConverseSU, SuExec, SuRefused, SuHeader, SuReadsPrompt, SuMoreOutput,
              SuNeedsPassword, SuPassword, SuChecksStar, SuHandlesStub
<1>3. CASE ConverseSsh
  BY <1>3 DEF ConverseSsh, SshExec, SshNoLine, SshHeader, SshPrompt, SshPassword, SshError,
              SshNewline
<1>. QED
  BY <1>1, <1>2, <1>3 DEF Exec

ProgramLines == {"blank", "stars", "denied", "text", "forward"} \cup Notices

\* What su, sudo and ssh print.
LEMMA ProgramOutput ==
    ASSUME Program
    PROVE  /\ buf' = buf
           /\ \/ out' = out
              \/ ProgPrompt /\ Prints(<<"prompt">>)
              \/ \E lines \in Seq(ProgramLines) : Prints(lines)
<1>. USE DEF process
<1>1. CASE ProgFails \/ ProgEchoOff \/ ProgStartsStub \/ ProgDisconnected \/ ProgEnds
  BY <1>1 DEF ProgFails, ProgEchoOff, ProgStartsStub, ProgDisconnected, ProgEnds, terminal
<1>2. CASE ProgPrompt
  BY <1>2 DEF ProgPrompt
<1>3. CASE ProgNotice
  <2>1. PICK n \in Notices : Prints(<<n>>)
    BY <1>3 DEF ProgNotice
  <2>2. <<n>> \in Seq(ProgramLines)
    BY DEF ProgramLines
  <2>. QED
    BY <1>3, <2>1, <2>2 DEF ProgNotice
<1>4. CASE ProgAccepts \/ ProgRefuses \/ ProgTimeout \/ ProgForwards
  <2>1. /\ <<"blank">> \in Seq(ProgramLines) /\ <<"stars">> \in Seq(ProgramLines)
        /\ <<"blank", "denied">> \in Seq(ProgramLines) /\ <<"blank", "text">> \in Seq(ProgramLines)
        /\ <<"forward">> \in Seq(ProgramLines)
    BY DEF ProgramLines
  <2>2. \/ Prints(<<"blank">>) \/ Prints(<<"stars">>) \/ Prints(<<"blank", "denied">>)
        \/ Prints(<<"blank", "text">>) \/ Prints(<<"forward">>)
    BY <1>4 DEF ProgAccepts, ProgRefuses, ProgTimeout, ProgForwards
  <2>3. buf' = buf
    BY <1>4 DEF ProgAccepts, ProgRefuses, ProgTimeout, ProgForwards
  <2>. QED
    BY <2>1, <2>2, <2>3
<1>. QED
  BY <1>1, <1>2, <1>3, <1>4 DEF Program

StubLines == {"unknown", "end", "environment", "denied"} \cup ToSet(Params)

\* What kdesu_stub prints.
LEMMA StubOutput ==
    ASSUME StubType, Stub
    PROVE  buf' = buf /\ (out' = out \/ \E l \in StubLines : Prints(<<l>>))
<1>. USE DEF process
<1>1. CASE StubAsks
  <2>1. stub.i \in DOMAIN Params
    BY <1>1 DEF StubAsks, StubType
  <2>2. Params[stub.i] \in StubLines
    BY <2>1 DEF StubLines, ToSet
  <2>. QED
    BY <1>1, <2>2 DEF StubAsks, StubLines
<1>2. CASE StubReads \/ StubAsksEnvironment \/ StubReadsVariable \/ StubFails
  BY <1>2 DEF StubReads, StubAsksEnvironment, StubReadsVariable, StubFails, StubLines
<1>3. CASE StubRuns \/ StubReaps
  BY <1>3 DEF StubRuns, StubReaps, terminal
<1>. QED
  BY <1>1, <1>2, <1>3 DEF Stub

\* A set that has in it what is printed keeps the unread output in it.
LEMMA OutputIn ==
    ASSUME NEW S, buf \in Seq(S), out \in Seq(S), StubType, [Next]_vars,
           ProgPrompt => "prompt" \in S, Program => ProgramLines \subseteq S,
           Stub => StubLines \subseteq S
    PROVE  buf' \in Seq(S) /\ out' \in Seq(S)
<1>1. CASE Exec
  <2>1. Unread \in Seq(S)
    BY DEF Unread
  <2>2. AfterFirst \in Seq(S)
    BY <2>1, FirstAndRest
  <2>. QED
    <3>1. CASE ReadLine
      BY <2>2, <3>1 DEF ReadLine
    <3>2. CASE UnreadLine
      BY <2>1, <3>2 DEF UnreadLine
    <3>3. CASE (buf' = <<>> /\ out' = <<>>) \/ UNCHANGED <<buf, out>>
      BY <3>3, EmptySeq
    <3>. QED
      BY <1>1, <3>1, <3>2, <3>3, ExecOutput
<1>2. ASSUME NEW lines \in Seq(S), buf' = buf, Prints(lines)
      PROVE  buf' \in Seq(S) /\ out' \in Seq(S)
  BY <1>2 DEF Prints
<1>3. CASE Program
  <2>1. Seq(ProgramLines) \subseteq Seq(S)
    BY <1>3
  <2>2. ProgPrompt => <<"prompt">> \in Seq(S)
    OBVIOUS
  <2>. QED
    BY <1>2, <1>3, <2>1, <2>2, ProgramOutput
<1>4. CASE Stub
  <2>1. \A l \in StubLines : <<l>> \in Seq(S)
    BY <1>4
  <2>. QED
    BY <1>2, <1>4, <2>1, StubOutput
<1>5. CASE UNCHANGED vars
  BY <1>5 DEF vars, terminal, process
<1>6. CASE Signals
  BY <1>6, SignalsDo
<1>. QED
  BY <1>1, <1>3, <1>4, <1>5, <1>6 DEF Next

LEMMA OutputTypeStep ==
    ASSUME OutputType, StubType, [Next]_vars
    PROVE  OutputType'
<1>1. "prompt" \in Lines /\ ProgramLines \subseteq Lines /\ StubLines \subseteq Lines
  BY DEF Lines, ProgramLines, StubLines, Printed
<1>. QED
  BY <1>1, OutputIn DEF OutputType

\* What is typed: the password, what the stub asks for, and for the rest nothing.
LEMMA ExecInput ==
    ASSUME Exec
    PROVE  \/ inp' = inp
           \/ SuPassword \/ SshPassword
           \/ StubHeader /\ WriteLines(<<IF check = "run" THEN "ok" ELSE "stop">>)
           \/ StubRequest
<1>. USE DEF terminal
<1>1. CASE ConverseStub
  BY <1>1 DEF ConverseStub, StubHeader, StubRequest, StubNoLine, StubEnd, StubUnknown,
              WaitForChild, WaitForNobody, WaitExitString
<1>2. CASE ConverseSU
  BY <1>2 DEF ConverseSU, SuExec, SuRefused, SuHeader, SuReadsPrompt, SuMoreOutput,
              SuNeedsPassword, SuPassword, SuChecksStar, SuHandlesStub
<1>3. CASE ConverseSsh
  BY <1>3 DEF ConverseSsh, SshExec, SshNoLine, SshHeader, SshPrompt, SshPassword, SshError,
              SshNewline
<1>. QED
  BY <1>1, <1>2, <1>3 DEF Exec

\* Su, sudo, ssh and the stub take the first line, or all there is.
LEMMA OthersInput ==
    ASSUME Program \/ Stub
    PROVE  inp' = inp \/ inp' = <<>> \/ (inp /= <<>> /\ inp' = Tail(inp))
<1>1. CASE Program
  BY <1>1 DEF Program, ProgFails, ProgNotice, ProgPrompt, ProgEchoOff, ProgAccepts, ProgRefuses,
         ProgTimeout, ProgStartsStub, ProgForwards, ProgDisconnected, ProgEnds, terminal
<1>2. CASE Stub
  BY <1>2 DEF Stub, StubAsks, StubReads, StubAsksEnvironment, StubReadsVariable, StubFails,
              StubRuns, StubReaps, terminal
<1>. QED
  BY <1>1, <1>2

\* The answers of exec() to the stub.
Answers == {""} \cup Values

LEMMA AnswersGiven ==
    ASSUME TypeOK, NEW request \in {"environment"} \cup ToSet(Tail(Params))
    PROVE  AnswerTo(request) \in Seq(Answers)
<1>1. CASE request = "environment"
  <2>1. env \in Environments /\ env \in Seq(STRING)
    BY StubAssumption DEF TypeOK
  <2>4. ToSet(env) \subseteq Answers
    BY <2>1 DEF Answers, Values
  <2>2. \A i \in 1 .. Len(env) : env[i] \in Answers
    BY <2>1, <2>4 DEF ToSet
  <2>3. env \in Seq(Answers)
    BY <2>1, <2>2
  <2>. QED
    <3>1. <<"">> \in Seq(Answers)
      BY DEF Answers
    <3>2. env \o <<"">> \in Seq(Answers)
      BY <2>3, <3>1, ConcatProperties
    <3>. QED
      BY <1>1, <3>2 DEF AnswerTo
<1>2. CASE request /= "environment"
  <2>1. ToSet(Tail(Params)) \subseteq ToSet(Params)
    BY StubAssumption DEF ToSet
  <2>2. request \in Answers
    BY <1>2, <2>1 DEF Answers, Values
  <2>. QED
    BY <1>2, <2>2 DEF AnswerTo
<1>. QED
  BY <1>1, <1>2

LEMMA InputTypeStep ==
    ASSUME TypeOK, InputType, [Next]_vars
    PROVE  InputType'
<1>1. ASSUME NEW lines \in Seq(Inputs), WriteLines(lines)
      PROVE  InputType'
  BY <1>1 DEF WriteLines, InputType
<1>2. CASE Exec
  <2>1. CASE SuPassword \/ SshPassword
    <3>1. <<"password">> \in Seq(Inputs) /\ WriteLines(<<"password">>)
      BY <2>1 DEF Inputs, Typed, SuPassword, SshPassword
    <3>. QED
      BY <1>1, <3>1
  <2>2. CASE WriteLines(<<IF check = "run" THEN "ok" ELSE "stop">>)
    <3>1. <<IF check = "run" THEN "ok" ELSE "stop">> \in Seq(Inputs)
      BY DEF Inputs, Typed
    <3>. QED
      BY <1>1, <2>2, <3>1
  <2>3. CASE StubRequest
    <3>1. /\ FirstLine \in {"environment"} \cup ToSet(Tail(Params))
          /\ WriteLines(AnswerTo(FirstLine))
      BY <2>3 DEF StubRequest
    <3>2. AnswerTo(FirstLine) \in Seq(Answers)
      BY <3>1, AnswersGiven
    <3>3. Answers \subseteq Inputs
      <4>1. "" \in Typed
        BY DEF Typed
      <4>. QED
        BY <4>1 DEF Answers, Inputs
    <3>4. AnswerTo(FirstLine) \in Seq(Inputs)
      BY <3>2, <3>3
    <3>. QED
      BY <1>1, <3>1, <3>4
  <2>. QED
    BY <1>2, <2>1, <2>2, <2>3, ExecInput DEF InputType
<1>3. CASE Program \/ Stub
  <2>1. inp /= <<>> => Tail(inp) \in Seq(Inputs)
    BY DEF InputType
  <2>. QED
    BY <1>3, <2>1, OthersInput, EmptySeq DEF InputType
<1>4. CASE UNCHANGED vars
  BY <1>4 DEF vars, terminal, InputType
<1>5. CASE Signals
  BY <1>5, SignalsDo DEF InputType
<1>. QED
  BY <1>2, <1>3, <1>4, <1>5 DEF Next

-----------------------------------------------------------------------------
(* What a step of exec() does to the program, and where exec() goes.         *)

\* exec() starts the program, or kills it together with the stub, or leaves it.
LEMMA ExecKills ==
    ASSUME Exec
    PROVE  \/ UNCHANGED <<prog, status, stub>>
           \/ prog /= "gone" /\ Ends(Killed) /\ stub' = NoStub
                /\ \/ at' = "returned"
                   \/ at' = "wait" /\ (method = "ssh" \/ then' \in {1, 3})
           \/ at = "exec" /\ prog' = "begun" /\ UNCHANGED <<status, stub>>
<1>. USE DEF external, stubVars, Kill, Wait, Return
<1>1. CASE ConverseStub
  BY <1>1 DEF ConverseStub, StubHeader, StubRequest, StubNoLine, StubEnd, StubUnknown,
              WaitForChild, WaitForNobody, WaitExitString
<1>2. CASE ConverseSU
  BY <1>2 DEF ConverseSU, SuExec, SuRefused, SuHeader, SuReadsPrompt, SuMoreOutput,
              SuNeedsPassword, SuPassword, SuChecksStar, SuHandlesStub
<1>3. CASE ConverseSsh
  BY <1>3 DEF ConverseSsh, SshExec, SshNoLine, SshHeader, SshPrompt, SshPassword, SshError,
              SshNewline
<1>. QED
  BY <1>1, <1>2, <1>3 DEF Exec

LEMMA ExecKeeps ==
    ASSUME Exec
    PROVE  UNCHANGED <<method, check, env, right, tries, cmd>> /\ at' /= "exec"
<1>. USE DEF external, stubVars, job, Wait, Return
<1>1. CASE ConverseStub
  BY <1>1 DEF ConverseStub, StubHeader, StubRequest, StubNoLine, StubEnd, StubUnknown,
              WaitForChild, WaitForNobody, WaitExitString
<1>2. CASE ConverseSU
  BY <1>2 DEF ConverseSU, SuExec, SuRefused, SuHeader, SuReadsPrompt, SuMoreOutput,
              SuNeedsPassword, SuPassword, SuChecksStar, SuHandlesStub
<1>3. CASE ConverseSsh
  BY <1>3 DEF ConverseSsh, SshExec, SshNoLine, SshHeader, SshPrompt, SshPassword, SshError,
              SshNewline
<1>. QED
  BY <1>1, <1>2, <1>3 DEF Exec

\* The program and the stub do not touch what is exec()'s.
LEMMA OthersKeep ==
    ASSUME Program \/ Stub
    PROVE  UNCHANGED <<method, check, env, right, buf, at, line, then, result>>
<1>. USE DEF job, process
<1>1. CASE Program
  BY <1>1 DEF Program, ProgFails, ProgNotice, ProgPrompt, ProgEchoOff, ProgAccepts, ProgRefuses,
         ProgTimeout, ProgStartsStub, ProgForwards, ProgDisconnected, ProgEnds
<1>2. CASE Stub
  BY <1>2 DEF Stub, StubAsks, StubReads, StubAsksEnvironment, StubReadsVariable, StubFails,
              StubRuns, StubReaps
<1>. QED
  BY <1>1, <1>2

\* Where exec() goes to wait for the child.
LEMMA ExecWaits ==
    ASSUME Exec
    PROVE  \/ at' = "wait" /\ at = "wait" /\ then = Status /\ then' = then /\ method = "ssh"
           \/ at' = "wait" /\ then' = 1 /\ check = "need" /\ at = "quiet"
           \/ at' = "wait" /\ then' = 3 /\ at = "handle" /\ method = "sudo"
           \/ at' = "wait" /\ at = "talk" /\ then' = (IF method = "ssh" THEN Again ELSE 3)
           \/ at' = "wait" /\ at = "talk" /\ then' = (IF check = "install" THEN 0 ELSE Status)
                /\ UNCHANGED <<prog, status, stub>>
           \/ at' = "waitagain" /\ at = "wait" /\ then = Again /\ then' = then
           \/ at' \notin {"wait", "waitagain"} /\ then' = then
<1>. USE DEF Wait, Return
<1>1. CASE StubHeader \/ StubRequest \/ StubNoLine
  BY <1>1 DEF StubHeader, StubRequest, StubNoLine
<1>2. CASE StubEnd
  BY <1>2 DEF StubEnd, external, stubVars
<1>3. CASE StubUnknown
  BY <1>3 DEF StubUnknown
<1>4. CASE WaitForChild \/ WaitForNobody
  BY <1>4 DEF WaitForChild, WaitForNobody
<1>5. CASE WaitExitString
  BY <1>5 DEF WaitExitString
<1>6. CASE SuExec \/ SuHeader \/ SuReadsPrompt \/ SuMoreOutput
  BY <1>6 DEF SuExec, SuHeader, SuReadsPrompt, SuMoreOutput
<1>7. CASE SuRefused
  BY <1>7 DEF SuRefused
<1>8. CASE SuNeedsPassword
  BY <1>8 DEF SuNeedsPassword
<1>9. CASE SuPassword \/ SuChecksStar \/ SuHandlesStub
  BY <1>9 DEF SuPassword, SuChecksStar, SuHandlesStub
<1>10. CASE ConverseSsh
  BY <1>10 DEF ConverseSsh, SshExec, SshNoLine, SshHeader, SshPrompt, SshPassword, SshError,
              SshNewline
<1>. QED
  BY <1>1, <1>2, <1>3, <1>4, <1>5, <1>6, <1>7, <1>8, <1>9, <1>10
     DEF Exec, ConverseStub, ConverseSU

LEMMA ProgramEnds ==
    ASSUME TypeOK, StubType, WaitType, Program
    PROVE  status' /= None <=> prog' = "gone"
<1>. USE Codes
<1>1. status = None /\ prog /= "gone" /\ prog /= "none"
  BY DEF WaitType, Program, ProgFails, ProgNotice, ProgPrompt, ProgEchoOff, ProgAccepts,
         ProgRefuses, ProgTimeout, ProgStartsStub, ProgForwards, ProgDisconnected, ProgEnds, Before
<1>2. CASE prog' = "gone" /\ status' \in {0, 1, Killed}
  BY <1>2
<1>3. CASE prog' /= "gone" /\ status' = status
  BY <1>1, <1>3
<1>4. CASE ProgEnds
  BY <1>4, <1>2 DEF ProgEnds, Ends, StubType
<1>. QED
  BY <1>1, <1>2, <1>3, <1>4
     DEF Program, ProgFails, ProgNotice, ProgPrompt, ProgEchoOff, ProgAccepts,
         ProgRefuses, ProgTimeout, ProgStartsStub, ProgForwards, ProgDisconnected, Ends

LEMMA WaitTypeStep ==
    ASSUME TypeOK, StubType, OutputType, WaitType, [Next]_vars
    PROVE  WaitType'
<1>1. CASE Exec
  <2>1. line' \in Lines \cup {""}
    <3>1. CASE UNCHANGED line
      BY <3>1 DEF WaitType
    <3>2. CASE SuReadsPrompt
      BY <3>2, Unreads DEF SuReadsPrompt
    <3>. QED
      BY <1>1, <3>1, <3>2
         DEF Exec, ConverseStub, StubHeader, StubRequest, StubNoLine, StubEnd, StubUnknown,
             WaitForChild, WaitForNobody, WaitExitString, ConverseSU, SuExec, SuRefused,
             SuHeader, SuMoreOutput, SuNeedsPassword, SuPassword, SuChecksStar,
             SuHandlesStub, ConverseSsh, SshExec, SshNoLine, SshHeader, SshPrompt,
             SshPassword, SshError, SshNewline, process
  <2>2. then' \in {None, 0, 1, 3, Status, Again}
    BY <1>1, ExecWaits DEF WaitType
  <2>3. at' \in {"wait", "waitagain"} => then' /= None
    BY <1>1, ExecWaits, Codes
  <2>4. status' /= None <=> prog' = "gone"
    BY <1>1, ExecKills, Codes DEF WaitType, Ends
  <2>. QED
    BY <1>1, <2>1, <2>2, <2>3, <2>4, ExecKeeps DEF WaitType
<1>2. CASE Program \/ Stub
  <2>1. UNCHANGED <<at, line, then>>
    BY <1>2, OthersKeep
  <2>2. status' /= None <=> prog' = "gone"
    <3>1. CASE Program
      BY <3>1, ProgramEnds
    <3>2. CASE Stub
      BY <3>2 DEF Stub, StubAsks, StubReads, StubAsksEnvironment, StubReadsVariable, StubFails,
              StubRuns, StubReaps, external, WaitType
    <3>. QED
      BY <1>2, <3>1, <3>2
  <2>3. at = "exec" => prog' = "none"
    <3>1. CASE Program
      BY <3>1 DEF WaitType, Program, ProgFails, ProgNotice, ProgPrompt, ProgEchoOff, ProgAccepts,
         ProgRefuses, ProgTimeout, ProgStartsStub, ProgForwards, ProgDisconnected, ProgEnds, Before
    <3>2. CASE Stub
      BY <3>2 DEF Stub, StubAsks, StubReads, StubAsksEnvironment, StubReadsVariable, StubFails,
              StubRuns, StubReaps, external, WaitType
    <3>. QED
      BY <1>2, <3>1, <3>2
  <2>. QED
    BY <2>1, <2>2, <2>3 DEF WaitType
<1>3. CASE UNCHANGED vars
  BY <1>3 DEF vars, external, process, WaitType
<1>4. CASE Signals
  <2>1. /\ UNCHANGED <<at, line, then>>
        /\ \/ prog /= "none" /\ prog' = "gone" /\ status' \in {1, Killed}
           \/ UNCHANGED <<prog, status>>
    BY <1>4, SignalsDo
  <2>2. CASE prog /= "none" /\ prog' = "gone" /\ status' \in {1, Killed}
    <3>1. status' /= None
      BY <2>2, Codes
    <3>2. at' /= "exec"
      BY <2>1, <2>2 DEF WaitType
    <3>. QED
      BY <2>1, <2>2, <3>1, <3>2 DEF WaitType
  <2>3. CASE UNCHANGED <<prog, status>>
    BY <2>1, <2>3 DEF WaitType
  <2>. QED
    BY <2>1, <2>2, <2>3
<1>. QED
  BY <1>1, <1>2, <1>3, <1>4 DEF Next

LEMMA RunTypeInit == Init => RunType
<1>. SUFFICES ASSUME Init PROVE RunType
  OBVIOUS
<1>1. TypeOK
  <2>1. tries \in 0 .. MaxTries
    <3>1. MaxTries \in Nat
      BY StubAssumption
    <3>2. tries = 0
      BY DEF Init
    <3>. QED
      BY <3>1, <3>2
  <2>2. echo \in BOOLEAN
    BY DEF Init
  <2>3. stub.at = "none"
    BY DEF Init, NoStub
  <2>4. result = None /\ at = "exec"
    BY DEF Init
  <2>. QED
    BY <2>1, <2>2, <2>3, <2>4 DEF Init, TypeOK
<1>2. StubType
  <2>1. NoStub \in StubStates /\ NoStub.at = "none"
    BY EmptySeq DEF StubStates, NoStub
  <2>. QED
    BY <2>1 DEF Init, StubType
<1>3. OutputType /\ InputType
  BY EmptySeq DEF Init, OutputType, InputType
<1>4. WaitType
  BY DEF Init, WaitType
<1>. QED
  BY <1>1, <1>2, <1>3, <1>4 DEF RunType

LEMMA RunTypeStep == RunType /\ [Next]_vars => RunType'
BY TypeStep, StubTypeStep, OutputTypeStep, InputTypeStep, WaitTypeStep DEF RunType


-----------------------------------------------------------------------------
(* Nobody but one who is let in gets to the stub.                            *)

Foreign == Lines \ {Params[1]}
Outside == {"none", "begun", "start", "late", "reading", "authorized"}
Active == stub.at \notin {"none", "exited", "killed"}

\* The stub has not been started, and exec() has not seen its header.
Closed ==
    /\ stub.at = "none"
    /\ buf \in Seq(Foreign) /\ out \in Seq(Foreign)
    /\ at \notin {"talk", "waitagain"}
    /\ at = "wait" => then \in {1, 3}

LetIn ==
    /\ prog \in Outside => Closed
    /\ Closed \/ right \/ tries = 0
    /\ prog = "authorized" => right
    /\ prog \in {"stub", "forwarding"} => right \/ tries = 0
    /\ Active => prog = "stub" \/ (prog = "gone" /\ status \in {1, Killed})

LEMMA ForeignLines ==
    /\ Foreign \subseteq Lines /\ None \notin Foreign /\ "prompt" \in Foreign
    /\ ProgramLines \subseteq Foreign
<1>1. Params[1] \notin Printed
  BY StubAssumption
<1>2. "prompt" \in Printed /\ ProgramLines \subseteq Printed
  BY DEF Printed, ProgramLines
<1>. QED
  BY <1>1, <1>2, StubAssumption DEF Foreign, Lines

\* Only its header brings exec() to talk with the stub.
LEMMA ExecTalks ==
    ASSUME Exec, at' = "talk"
    PROVE  at = "talk" \/ (StubHeader /\ Readable /\ FirstLine = Params[1])
<1>. USE DEF Wait, Return
<1>1. CASE ConverseStub
  BY <1>1 DEF ConverseStub, StubHeader, StubRequest, StubNoLine, StubEnd, StubUnknown,
              WaitForChild, WaitForNobody, WaitExitString
<1>2. CASE ConverseSU
  BY <1>2 DEF ConverseSU, SuExec, SuRefused, SuHeader, SuReadsPrompt, SuMoreOutput,
              SuNeedsPassword, SuPassword, SuChecksStar, SuHandlesStub
<1>3. CASE ConverseSsh
  BY <1>3 DEF ConverseSsh, SshExec, SshNoLine, SshHeader, SshPrompt, SshPassword, SshError,
              SshNewline
<1>. QED
  BY <1>1, <1>2, <1>3 DEF Exec

LEMMA StubIsActive ==
    ASSUME Stub
    PROVE  Active /\ UNCHANGED <<prog, tries, status>>
BY DEF Stub, StubAsks, StubReads, StubAsksEnvironment, StubReadsVariable, StubFails,
       StubRuns, StubReaps, external, Active

LEMMA NoHeader ==
    ASSUME buf \in Seq(Foreign), out \in Seq(Foreign)
    PROVE  FirstLine /= Params[1]
<1>1. Unread \in Seq(Foreign)
  BY DEF Unread
<1>2. FirstLine \in Foreign \cup {None}
  BY <1>1, FirstAndRest
<1>. QED
  BY <1>2, StubAssumption DEF Foreign, ToSet

LEMMA NoStubStays ==
    ASSUME stub.at = "none", [Next]_vars, ~ProgStartsStub
    PROVE  stub'.at = "none"
<1>1. CASE Exec
  BY <1>1, ExecKills DEF NoStub
<1>2. CASE Program
  BY <1>2 DEF Program, ProgFails, ProgNotice, ProgPrompt, ProgEchoOff, ProgAccepts, ProgRefuses,
       ProgTimeout, ProgForwards, ProgDisconnected, ProgEnds, stubVars, NoStub
<1>3. CASE Stub
  BY <1>3, StubIsActive DEF Active
<1>4. CASE Signals
  BY <1>4, SignalsDo DEF NoStub
<1>5. CASE UNCHANGED vars
  BY <1>5 DEF vars, stubVars
<1>. QED
  BY <1>1, <1>2, <1>3, <1>4, <1>5 DEF Next

\* What is in Closed stays so until the stub is started.
LEMMA ClosedStep ==
    ASSUME RunType, Closed, [Next]_vars, ~ProgStartsStub
    PROVE  Closed'
<1>. USE DEF RunType
<1>1. buf' \in Seq(Foreign) /\ out' \in Seq(Foreign)
  <2>1. ~Stub
    BY StubIsActive DEF Closed, Active
  <2>. QED
    BY <2>1, OutputIn, ForeignLines DEF Closed
<1>2. stub'.at = "none"
  BY NoStubStays DEF Closed
<1>3. CASE Exec
  <2>1. at' /= "talk"
    BY <1>3, NoHeader, ExecTalks DEF Closed
  <2>2. at' /= "waitagain" /\ (at' = "wait" => then' \in {1, 3})
    BY <1>3, ExecWaits, Codes DEF Closed
  <2>. QED
    BY <1>1, <1>2, <2>1, <2>2 DEF Closed
<1>4. CASE Program \/ Stub
  BY <1>1, <1>2, <1>4, OthersKeep DEF Closed
<1>5. CASE UNCHANGED vars
  BY <1>1, <1>2, <1>5 DEF vars, process, Closed
<1>6. CASE Signals
  BY <1>1, <1>2, <1>6, SignalsDo DEF Closed
<1>. QED
  BY <1>3, <1>4, <1>5, <1>6 DEF Next

\* The ways of the programs.
LEMMA ProgramGoes ==
    ASSUME Program
    PROVE  /\ prog' \in Outside => prog \in Outside /\ ~ProgStartsStub
           /\ prog' \in {"stub", "forwarding"} => prog = "stub" \/ ProgStartsStub
           /\ prog' = "authorized" => right
           /\ tries' = tries \/ (ProgPrompt /\ Before /\ tries' = tries + 1 /\ prog' \in {"late", "reading"})
           /\ ProgStartsStub => prog = "authorized" \/ (Before /\ tries = 0)
           /\ stub' = stub \/ ProgStartsStub \/ stub' = NoStub
           /\ prog = "stub" => ~Active \/ stub' = NoStub
           /\ prog /= "gone"
           /\ ProgStartsStub => prog' = "stub"
BY DEF Program, ProgFails, ProgNotice, ProgPrompt, ProgEchoOff, ProgAccepts, ProgRefuses,
       ProgTimeout, ProgStartsStub, ProgForwards, ProgDisconnected, ProgEnds, Ends, Before,
       stubVars, Outside, Active, StubOver

LEMMA LetInStep ==
    ASSUME RunType, LetIn, [Next]_vars
    PROVE  LetIn'
<1>1. CASE Program
  <2>1. (prog \in Outside => Closed)' /\ (Closed' \/ right \/ tries' = 0)
    <3>1. CASE ~ProgStartsStub
      <4>1. Closed => Closed'
        BY <3>1, ClosedStep
      <4>2. ProgPrompt => Closed
        BY DEF ProgPrompt, Before, LetIn, Outside
      <4>. QED
        BY <1>1, <4>1, <4>2, ProgramGoes DEF LetIn
    <3>2. CASE ProgStartsStub
      <4>1. prog' = "stub" /\ tries' = tries
        BY <3>2 DEF ProgStartsStub
      <4>2. right \/ tries = 0
        BY <3>2 DEF ProgStartsStub, LetIn
      <4>. QED
        BY <4>1, <4>2 DEF Outside
    <3>. QED
      BY <3>1, <3>2
  <2>2. prog' = "authorized" => right
    BY <1>1, ProgramGoes
  <2>3. prog' \in {"stub", "forwarding"} => right \/ tries' = 0
    BY <1>1, ProgramGoes DEF LetIn
  <2>4. Active' => prog' = "stub" \/ (prog' = "gone" /\ status' \in {1, Killed})
    <3>1. CASE ProgStartsStub
      BY <3>1 DEF ProgStartsStub
    <3>2. CASE stub' = NoStub
      BY <3>2 DEF NoStub, Active
    <3>3. CASE stub' = stub /\ ~ProgStartsStub
      <4>1. Active => stub' = NoStub
        BY <1>1, ProgramGoes DEF LetIn, Active
      <4>. QED
        BY <3>3, <4>1 DEF NoStub, Active
    <3>. QED
      BY <1>1, <3>1, <3>2, <3>3, ProgramGoes
  <2>. QED
    BY <1>1, <2>1, <2>2, <2>3, <2>4, OthersKeep DEF LetIn
<1>2. CASE Exec
  <2>1. ~ProgStartsStub
    BY <1>2, ExecKills DEF ProgStartsStub, Before, Ends
  <2>2. Closed => Closed'
    BY <2>1, ClosedStep
  <2>3. CASE UNCHANGED <<prog, status, stub>>
    BY <1>2, <2>2, <2>3, ExecKeeps DEF LetIn, Active
  <2>4. CASE prog' = "gone" /\ stub' = NoStub
    BY <1>2, <2>2, <2>4, ExecKeeps DEF LetIn, Active, NoStub, Outside
  <2>5. CASE at = "exec" /\ prog' = "begun" /\ stub' = stub
    <3>1. prog = "none"
      BY <2>5 DEF RunType, WaitType
    <3>. QED
      BY <1>2, <2>2, <2>5, <3>1, ExecKeeps DEF LetIn, Active, Outside
  <2>. QED
    BY <1>2, <2>3, <2>4, <2>5, ExecKills DEF Ends
<1>3. CASE Stub
  <2>1. (prog = "stub" \/ (prog = "gone" /\ status \in {1, Killed})) /\ UNCHANGED <<prog, tries, status>>
    BY <1>3, StubIsActive DEF LetIn
  <2>2. right \/ tries = 0
    BY <1>3, StubIsActive DEF LetIn, Closed, Active
  <2>. QED
    BY <1>3, <2>1, <2>2, OthersKeep DEF LetIn, Outside
<1>4. CASE UNCHANGED vars
  BY <1>4, ClosedStep DEF vars, job, terminal, external, stubVars, process, LetIn, Active, Closed
<1>5. CASE Signals
  <2>1. Closed => Closed'
    BY <1>5, ClosedStep, SignalsDo DEF ProgStartsStub
  <2>2. CASE prog' = "gone" /\ status' \in {1, Killed}
    BY <1>5, <2>1, <2>2, SignalsDo DEF LetIn, Outside
  <2>3. CASE stub' = [stub EXCEPT !.at = "killed"] /\ UNCHANGED <<prog, status>>
    <3>1. ~Active'
      BY <2>3 DEF Active, RunType, StubType, StubStates
    <3>. QED
      BY <1>5, <2>1, <2>3, <3>1, SignalsDo DEF LetIn
  <2>. QED
    BY <1>5, <2>2, <2>3, SignalsDo
<1>. QED
  BY <1>1, <1>2, <1>3, <1>4, <1>5 DEF Next

-----------------------------------------------------------------------------
(* Until it has given the password exec() has typed nothing.                 *)

QuietNotices == Notices \cap {"prompt", "notice"} = {}

Asking == {"exec", "prompt", "quiet", "login", "slave"}
Asked == {"late", "reading", "gone"}
Calm == Lines \ {"prompt", "notice"}

NotAskedYet ==
    /\ buf \in Seq(Calm) /\ out \in Seq(Calm)
    /\ at /= "slave"
    /\ at = "quiet" => line \in Calm

BeforePassword ==
    at \in Asking =>
        /\ inp = <<>> /\ prog /= "authorized"
        /\ tries = 0 => NotAskedYet
        /\ tries > 0 => prog \in Asked /\ Closed
        /\ at = "exec" => tries = 0

LEMMA CalmLines ==
    ASSUME QuietNotices
    PROVE  ProgramLines \subseteq Calm /\ StubLines \subseteq Calm /\ None \notin Calm
<1>1. ProgramLines \subseteq Calm
  <2>1. ProgramLines \subseteq Printed
    BY DEF Printed, ProgramLines
  <2>2. "prompt" \notin ProgramLines /\ "notice" \notin ProgramLines
    BY DEF ProgramLines, QuietNotices
  <2>. QED
    BY <2>1, <2>2 DEF Calm, Lines
<1>2. StubLines \subseteq Calm
  <2>1. "prompt" \notin ToSet(Params) /\ "notice" \notin ToSet(Params)
    <3>1. "prompt" \in Printed
      BY DEF Printed
    <3>. QED
      BY <3>1, StubAssumption DEF ToSet
  <2>2. {"unknown", "end", "environment", "denied"} \subseteq Calm
    BY DEF Calm, Lines, Printed
  <2>3. ToSet(Params) \subseteq Calm
    BY <2>1 DEF Calm, Lines
  <2>. QED
    BY <2>2, <2>3 DEF StubLines
<1>. QED
  BY <1>1, <1>2, StubAssumption DEF Calm, Lines

\* How exec() comes to where it asks for a password, and to where it gives it.
LEMMA ExecAsks ==
    ASSUME Exec, at' \in Asking
    PROVE  /\ at \in Asking /\ inp' = inp
           /\ at' = "slave" => at = "login" /\ Readable /\ FirstLine \in {"prompt", "notice"}
           /\ at' = "quiet" => at = "prompt" /\ Readable /\ FirstLine /= None /\ line' = FirstLine
<1>. USE DEF Asking, Wait, Return, terminal
<1>1. CASE ConverseStub
  BY <1>1 DEF ConverseStub, StubHeader, StubRequest, StubNoLine, StubEnd, StubUnknown,
              WaitForChild, WaitForNobody, WaitExitString
<1>2. CASE ConverseSU
  BY <1>2 DEF ConverseSU, SuExec, SuRefused, SuHeader, SuReadsPrompt, SuMoreOutput,
              SuNeedsPassword, SuPassword, SuChecksStar, SuHandlesStub
<1>3. CASE ConverseSsh
  BY <1>3 DEF ConverseSsh, SshExec, SshNoLine, SshHeader, SshPrompt, SshPassword, SshError,
              SshNewline
<1>. QED
  BY <1>1, <1>2, <1>3 DEF Exec

LEMMA ProgramWithoutInput ==
    ASSUME Program, inp = <<>>
    PROVE  /\ prog = "late" => prog' = "reading"
           /\ prog = "reading" => prog' = "gone"
           /\ prog /= "gone"
           /\ prog' = "authorized" => prog = "authorized"
BY DEF Program, ProgFails, ProgNotice, ProgPrompt, ProgEchoOff, ProgAccepts, ProgRefuses,
       ProgTimeout, ProgStartsStub, ProgForwards, ProgDisconnected, ProgEnds, Ends, Before

LEMMA BeforePasswordStep ==
    ASSUME QuietNotices, RunType, LetIn, BeforePassword, [Next]_vars
    PROVE  BeforePassword'
<1>. SUFFICES ASSUME at' \in Asking
              PROVE  /\ inp' = <<>> /\ prog' /= "authorized"
                     /\ tries' = 0 => NotAskedYet'
                     /\ tries' > 0 => prog' \in Asked /\ Closed'
                     /\ at' = "exec" => tries' = 0
  BY DEF BeforePassword
<1>. USE DEF RunType
<1>1. at \in Asking
  BY ExecAsks, OthersKeep, SignalsDo DEF Next, vars, process
<1>2. /\ inp = <<>> /\ prog /= "authorized"
      /\ tries = 0 => NotAskedYet
      /\ tries > 0 => prog \in Asked /\ Closed
      /\ at = "exec" => tries = 0
  BY <1>1 DEF BeforePassword
<1>3. inp' = <<>>
  BY <1>2, ExecAsks, OthersInput, SignalsDo DEF Next, vars, terminal
<1>4. prog' /= "authorized"
  <2>1. Exec => prog' = prog \/ prog' = "gone" \/ prog' = "begun"
    BY ExecKills DEF Ends
  <2>. QED
    BY <1>2, <2>1, ProgramWithoutInput, StubIsActive, SignalsDo DEF Next, vars, external
<1>5. /\ tries \in Nat /\ tries' \in Nat
      /\ tries' = tries \/ (ProgPrompt /\ Before /\ tries' = tries + 1 /\ prog' \in {"late", "reading"})
  <2>1. tries \in Nat
    BY StubAssumption DEF TypeOK
  <2>2. tries' = tries \/ (ProgPrompt /\ Before /\ tries' = tries + 1 /\ prog' \in {"late", "reading"})
    BY ExecKeeps, ProgramGoes, StubIsActive, SignalsDo DEF Next, vars, external
  <2>. QED
    BY <2>1, <2>2
<1>6. ASSUME tries' = 0
      PROVE  NotAskedYet'
  <2>1. tries = 0 /\ tries' = tries /\ ~ProgPrompt
    <3>1. tries' = tries
      BY <1>5, <1>6
    <3>2. ~ProgPrompt
      BY <1>5, <3>1 DEF ProgPrompt
    <3>. QED
      BY <1>6, <3>1, <3>2
  <2>2. NotAskedYet
    BY <1>2, <2>1
  <2>3. buf' \in Seq(Calm) /\ out' \in Seq(Calm)
    BY <2>1, <2>2, OutputIn, CalmLines DEF NotAskedYet
  <2>4. FirstLine \in Calm \cup {None}
    <3>1. Unread \in Seq(Calm)
      BY <2>2 DEF NotAskedYet, Unread
    <3>. QED
      BY <3>1, FirstAndRest
  <2>5. at' /= "slave"
    <3>1. FirstLine \notin {"prompt", "notice"}
      <4>1. None /= "prompt" /\ None /= "notice"
        BY StubAssumption DEF Printed
      <4>. QED
        BY <2>4, <4>1 DEF Calm
    <3>. QED
      BY <2>2, <3>1, ExecAsks, OthersKeep, SignalsDo DEF NotAskedYet, Next, vars, process
  <2>6. at' = "quiet" => line' \in Calm
    BY <2>2, <2>4, ExecAsks, OthersKeep, SignalsDo DEF NotAskedYet, Next, vars, process
  <2>. QED
    BY <2>3, <2>5, <2>6 DEF NotAskedYet
<1>7. ASSUME tries' > 0
      PROVE  prog' \in Asked /\ Closed'
  <2>1. Closed /\ ~ProgStartsStub
    <3>1. CASE ProgPrompt
      BY <3>1 DEF ProgPrompt, ProgStartsStub, Before, LetIn, Outside
    <3>2. CASE ~ProgPrompt
      BY <1>2, <1>5, <1>7, <3>2 DEF ProgStartsStub, Before, Asked
    <3>. QED
      BY <3>1, <3>2
  <2>2. ~Stub
    BY <2>1, StubIsActive DEF Closed, Active
  <2>3. Closed'
    BY <2>1, ClosedStep
  <2>4. prog' \in Asked
    <3>1. CASE tries' /= tries
      BY <1>5, <3>1 DEF Asked
    <3>2. CASE tries' = tries
      <4>1. prog \in Asked /\ at /= "exec"
        BY <1>2, <1>5, <1>7, <3>2
      <4>2. CASE Exec
        BY <4>1, <4>2, ExecKills DEF Ends, Asked
      <4>3. CASE Program
        BY <1>2, <4>1, <4>3, ProgramWithoutInput DEF Asked
      <4>4. CASE Signals
        BY <4>1, <4>4, SignalsDo DEF Asked
      <4>. QED
        BY <2>2, <4>1, <4>2, <4>3, <4>4 DEF Next, vars, external
    <3>. QED
      BY <3>1, <3>2
  <2>. QED
    BY <2>3, <2>4
<1>8. at' = "exec" => tries' = 0
  BY <1>2, <1>5, ExecKeeps, OthersKeep, SignalsDo DEF Next, vars, process, ProgPrompt, Before, WaitType
<1>. QED
  BY <1>3, <1>4, <1>6, <1>7, <1>8

-----------------------------------------------------------------------------
(* The password is read by the program.                                      *)

PasswordFirst ==
    \A i \in DOMAIN inp : inp[i] = "password" => i = 1 /\ prog \in Asked /\ stub.at = "none"

LEMMA AnswersAreHarmless == "password" \notin Answers /\ "stop" \notin Answers
<1>1. "password" \notin ToSet(Params) /\ "stop" \notin ToSet(Params)
  BY StubAssumption DEF ToSet, Typed
<1>2. ASSUME NEW e \in Environments
      PROVE  "password" \notin ToSet(e) /\ "stop" \notin ToSet(e)
  BY StubAssumption DEF ToSet
<1>. QED
  BY <1>1, <1>2 DEF Answers, Values

FirstAnswer == IF check = "run" THEN "ok" ELSE "stop"

\* The password is typed once, where it is awaited.
LEMMA PasswordTyped ==
    ASSUME RunType, BeforePassword, SuPassword \/ SshPassword
    PROVE  /\ inp = <<>> /\ inp' = <<"password">>
           /\ prog \in Asked /\ stub.at = "none" /\ UNCHANGED <<prog, stub, buf, out>>
           /\ method /= "ssh" \/ ~echo
<1>. USE DEF WriteLines, external, stubVars
<1>1. CASE SuPassword
  <2>1. inp = <<>> /\ (tries = 0 => line \in Calm) /\ (tries > 0 => prog \in Asked /\ stub.at = "none")
    BY <1>1 DEF SuPassword, BeforePassword, Asking, NotAskedYet, Closed
  <2>2. tries > 0
    <3>1. tries \in Nat
      BY StubAssumption DEF RunType, TypeOK
    <3>2. line \notin Calm
      BY <1>1 DEF SuPassword, LooksLikePrompt, Calm
    <3>. QED
      BY <2>1, <3>1, <3>2
  <2>. QED
    BY <1>1, <2>1, <2>2 DEF SuPassword, isSu
<1>2. CASE SshPassword
  <2>1. inp = <<>> /\ tries /= 0 /\ (tries > 0 => prog \in Asked /\ stub.at = "none")
    BY <1>2 DEF SshPassword, BeforePassword, Asking, NotAskedYet, Closed
  <2>2. tries \in Nat
    BY StubAssumption DEF RunType, TypeOK
  <2>. QED
    BY <1>2, <2>1, <2>2 DEF SshPassword
<1>. QED
  BY <1>1, <1>2

\* What exec() types: the password, or answers.
LEMMA ExecTypes ==
    ASSUME RunType, BeforePassword, Exec
    PROVE  \/ inp' = inp
           \/ /\ inp' = <<"password">> /\ prog \in Asked /\ stub.at = "none"
              /\ UNCHANGED <<prog, stub>>
              /\ method /= "ssh" \/ ~echo
           \/ \E lines \in Seq(Answers) \cup {<<FirstAnswer>>} :
                 inp' = inp \o lines /\ UNCHANGED <<prog, stub>>
<1>. USE DEF WriteLines, external, stubVars
<1>1. CASE SuPassword \/ SshPassword
  BY <1>1, PasswordTyped
<1>2. CASE StubHeader /\ WriteLines(<<FirstAnswer>>)
  BY <1>2 DEF StubHeader
<1>3. CASE StubRequest
  <2>1. /\ FirstLine \in {"environment"} \cup ToSet(Tail(Params))
        /\ inp' = inp \o AnswerTo(FirstLine) /\ UNCHANGED <<prog, stub>>
    BY <1>3 DEF StubRequest
  <2>2. AnswerTo(FirstLine) \in Seq(Answers)
    BY <2>1, AnswersGiven DEF RunType
  <2>. QED
    BY <2>1, <2>2
<1>. QED
  BY <1>1, <1>2, <1>3, ExecInput DEF FirstAnswer

\* What is added to the input has no password in it.
LEMMA NoPasswordAdded ==
    ASSUME RunType, NEW lines \in Seq(Answers) \cup {<<FirstAnswer>>}
    PROVE  /\ inp \o lines \in Seq(Inputs)
           /\ \A i \in DOMAIN (inp \o lines) :
                 (inp \o lines)[i] = "password" => i \in DOMAIN inp /\ inp[i] = "password"
           /\ check = "run" => \A i \in DOMAIN (inp \o lines) :
                 (inp \o lines)[i] = "stop" => i \in DOMAIN inp /\ inp[i] = "stop"
<1>1. lines \in Seq(Inputs)
  <2>1. Answers \subseteq Inputs
    BY DEF Answers, Inputs, Typed
  <2>2. FirstAnswer \in Inputs
    BY DEF FirstAnswer, Inputs, Typed
  <2>. QED
    BY <2>1, <2>2
<1>2. \A i \in 1 .. Len(lines) : lines[i] /= "password" /\ (check = "run" => lines[i] /= "stop")
  <2>1. CASE lines \in Seq(Answers)
    BY <2>1, AnswersAreHarmless
  <2>2. CASE lines = <<FirstAnswer>>
    BY <2>2 DEF FirstAnswer
  <2>. QED
    BY <2>1, <2>2
<1>3. inp \in Seq(Inputs)
  BY DEF RunType, InputType
<1>4. inp \o lines \in Seq(Inputs)
  BY <1>1, <1>3
<1>5. ASSUME NEW i \in DOMAIN (inp \o lines)
      PROVE  \/ i \in DOMAIN inp /\ (inp \o lines)[i] = inp[i]
             \/ i - Len(inp) \in 1 .. Len(lines) /\ (inp \o lines)[i] = lines[i - Len(inp)]
  BY <1>1, <1>3, <1>5
<1>. QED
  BY <1>2, <1>4, <1>5

LEMMA NoPasswordInTail ==
    ASSUME RunType, PasswordFirst, inp /= <<>>
    PROVE  \A i \in DOMAIN Tail(inp) : Tail(inp)[i] /= "password"
<1>1. inp \in Seq(Inputs)
  BY DEF RunType, InputType
<1>2. ASSUME NEW i \in DOMAIN Tail(inp)
      PROVE  i \in Nat \ {0} /\ i + 1 \in DOMAIN inp /\ Tail(inp)[i] = inp[i + 1]
  BY <1>1, <1>2
<1>. QED
  BY <1>2 DEF PasswordFirst

\* As long as the program may read it, the password stays or is taken.
LEMMA ProgramReads ==
    ASSUME Program, prog \in Asked
    PROVE  prog' \in Asked \/ inp' = <<>> \/ (inp /= <<>> /\ inp' = Tail(inp))
BY DEF Program, ProgFails, ProgNotice, ProgPrompt, ProgEchoOff, ProgAccepts, ProgRefuses,
       ProgTimeout, ProgStartsStub, ProgForwards, ProgDisconnected, ProgEnds, Ends, Before, Asked

LEMMA PasswordFirstStep ==
    ASSUME RunType, BeforePassword, PasswordFirst, [Next]_vars
    PROVE  PasswordFirst'
<1>0. prog \in Asked /\ stub.at = "none" => stub'.at = "none"
  BY NoStubStays DEF Asked, ProgStartsStub, Before
<1>1. CASE Exec
  <2>1. CASE inp' = inp
    <3>1. (\E i \in DOMAIN inp : inp[i] = "password") => at /= "exec"
      BY DEF BeforePassword, Asking
    <3>2. prog \in Asked /\ at /= "exec" => prog' \in Asked
      BY <1>1, ExecKills DEF Ends, Asked
    <3>. QED
      BY <1>0, <2>1, <3>1, <3>2 DEF PasswordFirst
  <2>2. CASE inp' = <<"password">> /\ prog' = prog /\ prog \in Asked /\ stub.at = "none"
    BY <1>0, <2>2 DEF PasswordFirst
  <2>3. ASSUME NEW lines \in Seq(Answers) \cup {<<FirstAnswer>>}, inp' = inp \o lines, prog' = prog
        PROVE  PasswordFirst'
    BY <1>0, <2>3, NoPasswordAdded DEF PasswordFirst
  <2>. QED
    BY <1>1, <2>1, <2>2, <2>3, ExecTypes
<1>2. CASE Program \/ Stub
  <2>1. CASE inp' = <<>>
    BY <2>1 DEF PasswordFirst
  <2>2. CASE inp /= <<>> /\ inp' = Tail(inp)
    BY <2>2, NoPasswordInTail DEF PasswordFirst
  <2>3. CASE inp' = inp /\ (prog' \in Asked \/ prog \notin Asked)
    BY <1>0, <2>3 DEF PasswordFirst
  <2>. QED
    BY <1>2, <2>1, <2>2, <2>3, OthersInput, ProgramReads, StubIsActive
<1>3. CASE UNCHANGED vars
  BY <1>3 DEF vars, terminal, external, stubVars, PasswordFirst
<1>4. CASE Signals
  BY <1>0, <1>4, SignalsDo DEF PasswordFirst, Asked
<1>. QED
  BY <1>1, <1>2, <1>3, <1>4 DEF Next

-----------------------------------------------------------------------------
(* A program that turns the echo off late.                                   *)

LateIsSsh == LateEcho \subseteq {"ssh"}

NothingTyped == \A i \in DOMAIN inp : inp[i] /= "password"

EchoKnown ==
    /\ prog = "late" => method \in LateEcho /\ NothingTyped
    /\ method = "ssh" /\ prog \in {"none", "begun", "start", "late"} => echo

LEMMA ExecEcho ==
    ASSUME Exec
    PROVE  echo' = echo \/ (StubHeader /\ FirstLine = Params[1])
<1>. USE DEF terminal
<1>1. CASE ConverseStub
  BY <1>1 DEF ConverseStub, StubHeader, StubRequest, StubNoLine, StubEnd, StubUnknown,
              WaitForChild, WaitForNobody, WaitExitString
<1>2. CASE ConverseSU
  BY <1>2 DEF ConverseSU, SuExec, SuRefused, SuHeader, SuReadsPrompt, SuMoreOutput,
              SuNeedsPassword, SuPassword, SuChecksStar, SuHandlesStub
<1>3. CASE ConverseSsh
  BY <1>3 DEF ConverseSsh, SshExec, SshNoLine, SshHeader, SshPrompt, SshPassword, SshError,
              SshNewline
<1>. QED
  BY <1>1, <1>2, <1>3 DEF Exec

LEMMA ProgramEcho ==
    ASSUME Program
    PROVE  /\ echo' = echo \/ echo' = (method = "ssh") \/ prog' = "reading"
           /\ prog' \in {"none", "begun", "start", "late"} /\ echo' = echo =>
                 prog \in {"none", "begun", "start", "late"} \/ echo' = (method = "ssh")
           /\ prog' = "late" => ProgPrompt /\ Before /\ inp' = inp /\ method \in LateEcho
BY DEF Program, ProgFails, ProgNotice, ProgPrompt, ProgEchoOff, ProgAccepts, ProgRefuses,
       ProgTimeout, ProgStartsStub, ProgForwards, ProgDisconnected, ProgEnds, Ends, Before,
       EchoRestored, terminal

LEMMA EchoKnownStep ==
    ASSUME LateIsSsh, RunType, LetIn, BeforePassword, PasswordFirst, EchoKnown, [Next]_vars
    PROVE  EchoKnown'
<1>1. CASE Exec
  <2>1. method' = method /\ (prog' = prog \/ prog' = "gone" \/ (prog = "none" /\ prog' = "begun"))
    BY <1>1, ExecKeeps, ExecKills DEF Ends, RunType, WaitType
  <2>2. prog \in {"none", "begun", "start", "late"} => echo' = echo
    BY <1>1, ExecEcho, NoHeader DEF LetIn, Outside, Closed
  <2>3. prog' = "late" => NothingTyped'
    <3>1. SUFFICES ASSUME prog' = "late"
                   PROVE  NothingTyped'
      OBVIOUS
    <3>2. prog = "late" /\ method = "ssh" /\ NothingTyped
      BY <2>1, <3>1 DEF EchoKnown, LateIsSsh
    <3>3. CASE inp' = inp
      BY <3>2, <3>3 DEF NothingTyped
    <3>4. ASSUME NEW lines \in Seq(Answers) \cup {<<FirstAnswer>>}, inp' = inp \o lines
          PROVE  NothingTyped'
      BY <3>2, <3>4, NoPasswordAdded DEF NothingTyped
    <3>5. echo
      BY <3>2 DEF EchoKnown
    <3>. QED
      BY <1>1, <3>2, <3>3, <3>4, <3>5, ExecTypes
  <2>. QED
    BY <2>1, <2>2, <2>3 DEF EchoKnown
<1>2. CASE Program
  <2>1. method' = method
    BY <1>2, OthersKeep
  <2>2. prog' = "late" => NothingTyped' /\ method \in LateEcho
    BY <1>2, ProgramEcho DEF NothingTyped, PasswordFirst, Before, Asked
  <2>3. method = "ssh" /\ prog' \in {"none", "begun", "start", "late"} => echo'
    BY <1>2, ProgramEcho DEF EchoKnown
  <2>. QED
    BY <2>1, <2>2, <2>3 DEF EchoKnown
<1>3. CASE Stub
  <2>1. prog' \in {"stub", "gone"}
    BY <1>3, StubIsActive DEF LetIn
  <2>. QED
    BY <2>1 DEF EchoKnown
<1>4. CASE UNCHANGED vars
  BY <1>4 DEF vars, terminal, external, job, EchoKnown, NothingTyped
<1>5. CASE Signals
  BY <1>5, SignalsDo DEF EchoKnown, NothingTyped
<1>. QED
  BY <1>1, <1>2, <1>3, <1>4, <1>5 DEF Next

-----------------------------------------------------------------------------
(* What exec() returns.                                                      *)

\* A check for the need of a password gets no further than the question, and
\* "stop" is typed for checks only.
CheckedOnly ==
    /\ check = "need" =>
          /\ at \in {"exec", "prompt", "quiet", "login", "wait", "returned"}
          /\ at = "wait" => then = 1
    /\ check = "run" => \A i \in DOMAIN inp : inp[i] /= "stop"

\* What is known of the command when the stub, or the program, has ended.
StubEnded == check = "run" /\ stub.at = "exited" /\ stub.i = 0 => cmd = 0
ProgramEnded == check = "run" /\ status = 0 => cmd = 0

WaitsFor ==
    /\ at = "wait" =>
          /\ then = 0 => check = "install"
          /\ then = Status => check /= "install"
          /\ then = Again => method = "ssh"
    /\ at = "waitagain" => then = Again /\ method = "ssh"

\* The last of exec().
LEMMA ExecEnds ==
    ASSUME Exec
    PROVE  /\ at /= "returned"
           /\ at = "waitagain" => at' = "returned"
           /\ at = "wait" => at' \in {"wait", "waitagain", "returned"}
           /\ at = "wait" /\ at' = "wait" => then' = then
           /\ at' \notin {"wait", "returned"} /\ check = "need" /\ at \in {"exec", "prompt", "quiet", "login"}
                => at' \in {"prompt", "quiet", "login"}
<1>. USE DEF Wait, Return
<1>1. CASE ConverseStub
  BY <1>1 DEF ConverseStub, StubHeader, StubRequest, StubNoLine, StubEnd, StubUnknown,
              WaitForChild, WaitForNobody, WaitExitString
<1>2. CASE ConverseSU
  BY <1>2 DEF ConverseSU, SuExec, SuRefused, SuHeader, SuReadsPrompt, SuMoreOutput,
              SuNeedsPassword, SuPassword, SuChecksStar, SuHandlesStub
<1>3. CASE ConverseSsh
  BY <1>3 DEF ConverseSsh, SshExec, SshNoLine, SshHeader, SshPrompt, SshPassword, SshError,
              SshNewline
<1>. QED
  BY <1>1, <1>2, <1>3 DEF Exec

\* Where the 0 comes from that exec() returns.
LEMMA ExecReturnsZero ==
    ASSUME Exec, result' = 0, result /= 0
    PROVE  \/ check = "need" /\ at \in {"prompt", "star", "handle", "login"} /\ FirstLine = Params[1]
           \/ /\ at = "wait" /\ then /= Again /\ (IF then = Status THEN ChildValue ELSE then) = 0
              /\ status' = status
           \/ at = "waitagain" /\ then' = then
<1>. USE DEF Wait, Return, external
<1>1. CASE ConverseStub
  BY <1>1 DEF ConverseStub, StubHeader, StubRequest, StubNoLine, StubEnd, StubUnknown,
              WaitForChild, WaitForNobody, WaitExitString
<1>2. CASE ConverseSU
  BY <1>2 DEF ConverseSU, SuExec, SuRefused, SuHeader, SuReadsPrompt, SuMoreOutput,
              SuNeedsPassword, SuPassword, SuChecksStar, SuHandlesStub
<1>3. CASE ConverseSsh
  BY <1>3 DEF ConverseSsh, SshExec, SshNoLine, SshHeader, SshPrompt, SshPassword, SshError,
              SshNewline
<1>. QED
  BY <1>1, <1>2, <1>3 DEF Exec

LEMMA ProgramKeepsCmd == Program => cmd' = cmd
BY DEF Program, ProgFails, ProgNotice, ProgPrompt, ProgEchoOff, ProgAccepts, ProgRefuses,
       ProgTimeout, ProgStartsStub, ProgForwards, ProgDisconnected, ProgEnds, stubVars

LEMMA CheckedOnlyStep ==
    ASSUME RunType, LetIn, BeforePassword, CheckedOnly, [Next]_vars
    PROVE  CheckedOnly'
<1>1. CASE Exec
  <2>1. check' = check
    BY <1>1, ExecKeeps
  <2>2. ASSUME check = "need"
        PROVE  /\ at' \in {"exec", "prompt", "quiet", "login", "wait", "returned"}
               /\ at' = "wait" => then' = 1
    BY <1>1, <2>2, ExecEnds, ExecWaits, Codes DEF CheckedOnly
  <2>3. ASSUME check = "run"
        PROVE  \A i \in DOMAIN inp' : inp'[i] /= "stop"
    <3>1. CASE inp' = inp
      BY <2>3, <3>1 DEF CheckedOnly
    <3>2. CASE inp' = <<"password">>
      BY <3>2
    <3>3. ASSUME NEW lines \in Seq(Answers) \cup {<<FirstAnswer>>}, inp' = inp \o lines
          PROVE  \A i \in DOMAIN inp' : inp'[i] /= "stop"
      BY <2>3, <3>3, NoPasswordAdded DEF CheckedOnly
    <3>. QED
      BY <1>1, <3>1, <3>2, <3>3, ExecTypes
  <2>. QED
    BY <2>1, <2>2, <2>3 DEF CheckedOnly
<1>2. CASE Program \/ Stub
  <2>1. UNCHANGED <<check, at, then>>
    BY <1>2, OthersKeep
  <2>2. ASSUME check = "run"
        PROVE  \A i \in DOMAIN inp' : inp'[i] /= "stop"
    <3>1. CASE inp' = inp \/ inp' = <<>>
      BY <2>2, <3>1 DEF CheckedOnly
    <3>2. CASE inp /= <<>> /\ inp' = Tail(inp)
      <4>1. inp \in Seq(Inputs)
        BY DEF RunType, InputType
      <4>2. ASSUME NEW i \in DOMAIN Tail(inp)
            PROVE  i + 1 \in DOMAIN inp /\ Tail(inp)[i] = inp[i + 1]
        BY <3>2, <4>1
      <4>. QED
        BY <2>2, <3>2, <4>2 DEF CheckedOnly
    <3>. QED
      BY <1>2, <3>1, <3>2, OthersInput
  <2>. QED
    BY <2>1, <2>2 DEF CheckedOnly
<1>3. CASE UNCHANGED vars
  BY <1>3 DEF vars, job, process, terminal, CheckedOnly
<1>4. CASE Signals
  BY <1>4, SignalsDo DEF CheckedOnly
<1>. QED
  BY <1>1, <1>2, <1>3, <1>4 DEF Next

LEMMA StubEndedStep ==
    ASSUME RunType, LetIn, CheckedOnly, StubEnded, [Next]_vars
    PROVE  StubEnded'
<1>1. CASE Exec
  BY <1>1, ExecKeeps, ExecKills DEF StubEnded, NoStub
<1>2. CASE Program
  BY <1>2, ProgramGoes, ProgramKeepsCmd, OthersKeep DEF StubEnded, NoStub, ProgStartsStub
<1>3. CASE Stub
  <2>1. check' = check /\ stub \in StubStates
    BY <1>3, OthersKeep DEF RunType, StubType
  <2>2. ASSUME check = "run", stub'.at = "exited", stub'.i = 0
        PROVE  cmd' = 0
    <3>1. ~StubAsks /\ ~StubAsksEnvironment /\ ~StubRuns /\ ~StubReadsVariable
      BY <2>1, <2>2 DEF StubAsks, StubAsksEnvironment, StubRuns, StubReadsVariable, StubStates
    <3>2. ~StubFails
      <4>1. StubFails => stub'.i = 1
        BY <2>1 DEF StubFails, StubExits, StubStates
      <4>. QED
        BY <2>2, <4>1
    <3>3. ~StubReads
      <4>1. SUFFICES ASSUME StubReads
                     PROVE  FALSE
        OBVIOUS
      <4>2. inp /= <<>> /\ Head(inp) = inp[1] /\ 1 \in DOMAIN inp
        BY <4>1 DEF StubReads, RunType, InputType
      <4>3. Head(inp) /= "stop"
        BY <2>2, <4>2 DEF CheckedOnly
      <4>. QED
        BY <2>2, <4>1, <4>3 DEF StubReads
    <3>4. CASE StubReaps
      BY <2>1, <2>2, <3>4 DEF StubReaps, StubExits, StubStates
    <3>. QED
      BY <1>3, <3>1, <3>2, <3>3, <3>4 DEF Stub
  <2>. QED
    BY <2>1, <2>2 DEF StubEnded
<1>4. CASE UNCHANGED vars
  BY <1>4 DEF vars, job, stubVars, StubEnded
<1>5. CASE Signals
  <2>1. stub' = [stub EXCEPT !.at = "killed"] => stub'.at /= "exited"
    BY DEF RunType, StubType, StubStates
  <2>. QED
    BY <1>5, <2>1, SignalsDo DEF StubEnded, NoStub
<1>. QED
  BY <1>1, <1>2, <1>3, <1>4, <1>5 DEF Next

LEMMA ProgramEndedStep ==
    ASSUME RunType, LetIn, StubEnded, ProgramEnded, [Next]_vars
    PROVE  ProgramEnded'
<1>1. CASE Exec
  BY <1>1, ExecKeeps, ExecKills, Codes DEF ProgramEnded, Ends
<1>2. CASE Program
  <2>1. check' = check /\ cmd' = cmd
    BY <1>2, OthersKeep, ProgramKeepsCmd
  <2>2. CASE ProgEnds
    BY <2>1, <2>2, Codes DEF ProgEnds, Ends, StubEnded, ProgramEnded
  <2>3. status' = 1 \/ status' = status \/ ProgEnds
    BY <1>2 DEF Program, ProgFails, ProgNotice, ProgPrompt, ProgEchoOff, ProgAccepts, ProgRefuses,
       ProgTimeout, ProgStartsStub, ProgForwards, ProgDisconnected, Ends
  <2>. QED
    BY <2>1, <2>2, <2>3 DEF ProgramEnded
<1>3. CASE Stub
  <2>1. status' = status /\ (prog /= "gone" \/ status \in {1, Killed})
    BY <1>3, StubIsActive DEF LetIn
  <2>2. status' /= 0
    <3>1. status \in {None, 1, Killed}
      BY <2>1 DEF RunType, WaitType
    <3>. QED
      BY <2>1, <3>1, Codes
  <2>. QED
    BY <2>2 DEF ProgramEnded
<1>4. CASE UNCHANGED vars
  BY <1>4 DEF vars, job, external, stubVars, ProgramEnded
<1>5. CASE Signals
  BY <1>5, SignalsDo, Codes DEF ProgramEnded
<1>. QED
  BY <1>1, <1>2, <1>3, <1>4, <1>5 DEF Next

LEMMA WaitsForStep ==
    ASSUME RunType, WaitsFor, [Next]_vars
    PROVE  WaitsFor'
<1>. USE Codes
<1>1. CASE Exec
  <2>1. UNCHANGED <<method, check>>
    BY <1>1, ExecKeeps
  <2>2. /\ at' = "wait" =>
             /\ then' = 0 => check = "install"
             /\ then' = Status => check /= "install"
             /\ then' = Again => method = "ssh"
        /\ at' = "waitagain" => then' = Again /\ method = "ssh"
    BY <1>1, ExecEnds, ExecWaits DEF WaitsFor
  <2>. QED
    BY <2>1, <2>2 DEF WaitsFor
<1>2. CASE Program \/ Stub
  BY <1>2, OthersKeep DEF WaitsFor
<1>3. CASE Signals
  BY <1>3, SignalsDo DEF WaitsFor
<1>4. CASE UNCHANGED vars
  BY <1>4 DEF vars, job, process, WaitsFor
<1>. QED
  BY <1>1, <1>2, <1>3, <1>4 DEF Next

LEMMA ResultIsSoStep ==
    ASSUME RunType, LetIn, BeforePassword, CheckedOnly, ProgramEnded, WaitsFor, ResultIsSo,
           [Next]_vars
    PROVE  ResultIsSo'
<1>. USE Codes
<1>1. CASE at = "returned"
  <2>1. UNCHANGED vars
    BY <1>1, ExecEnds DEF Next
  <2>. QED
    BY <2>1 DEF vars, job, external, stubVars, process, ResultIsSo
<1>2. CASE at /= "returned" /\ Exec
  <2>0. then' = then \/ at' = "wait"
    BY <1>2, ExecWaits
  <2>1. result = None /\ UNCHANGED <<method, check, right, tries, cmd>>
    BY <1>2, ExecKeeps DEF RunType, TypeOK
  <2>2. SUFFICES ASSUME result' = 0
                 PROVE  /\ check = "run" => cmd = 0 \/ status' = Killed \/ then' = Again
                        /\ check = "install" => right \/ tries = 0
                        /\ check = "need" => tries = 0
    BY <2>1 DEF ResultIsSo, RunType, TypeOK
  <2>3. CASE check = "need" /\ at \in {"prompt", "star", "handle", "login"} /\ FirstLine = Params[1]
    <3>1. at \in Asking
      BY <2>3 DEF CheckedOnly, Asking
    <3>2. ~(tries > 0)
      BY <2>3, <3>1, NoHeader DEF BeforePassword, Closed
    <3>3. tries \in Nat
      BY StubAssumption DEF RunType, TypeOK
    <3>. QED
      BY <2>3, <3>2, <3>3
  <2>4. CASE /\ at = "wait" /\ then /= Again /\ (IF then = Status THEN ChildValue ELSE then) = 0
             /\ status' = status
    <3>1. check = "run" => then = Status /\ ChildValue = 0
      BY <2>4 DEF WaitsFor
    <3>2. check = "run" => cmd = 0 \/ status = Killed
      BY <3>1 DEF ChildValue, ProgramEnded
    <3>. QED
      BY <2>4, <3>2 DEF WaitsFor, CheckedOnly, LetIn, Closed
  <2>5. CASE at = "waitagain" /\ then' = then
    BY <2>5 DEF WaitsFor, CheckedOnly, LetIn, Closed
  <2>. QED
    BY <1>2, <2>1, <2>2, <2>3, <2>4, <2>5, ExecReturnsZero
<1>3. CASE at /= "returned" /\ (Program \/ Stub)
  BY <1>3, OthersKeep DEF ResultIsSo, RunType, TypeOK
<1>4. CASE UNCHANGED vars
  BY <1>4 DEF vars, job, external, stubVars, process, ResultIsSo
<1>5. CASE at /= "returned" /\ Signals
  BY <1>5, SignalsDo DEF ResultIsSo, RunType, TypeOK
<1>. QED
  BY <1>1, <1>2, <1>3, <1>4, <1>5 DEF Next

-----------------------------------------------------------------------------
(* The theorems.                                                             *)

AuthInv ==
    /\ RunType /\ LetIn /\ BeforePassword /\ PasswordFirst
    /\ CheckedOnly /\ StubEnded /\ ProgramEnded /\ WaitsFor /\ ResultIsSo

LEMMA AuthInit == Init => AuthInv
<1>. SUFFICES ASSUME Init PROVE AuthInv
  OBVIOUS
<1>1. RunType
  BY RunTypeInit
<1>2. inp = <<>> /\ buf = <<>> /\ out = <<>> /\ stub.at = "none" /\ tries = 0
  BY DEF Init, NoStub
<1>3. LetIn
  <2>1. Closed
    <3>1. buf \in Seq(Foreign) /\ out \in Seq(Foreign)
      BY <1>2, EmptySeq
    <3>2. at = "exec"
      BY DEF Init
    <3>. QED
      BY <1>2, <3>1, <3>2 DEF Closed
  <2>2. prog = "none" /\ ~Active
    BY <1>2 DEF Init, Active
  <2>. QED
    BY <2>1, <2>2 DEF LetIn
<1>4. BeforePassword
  <2>1. buf \in Seq(Calm) /\ out \in Seq(Calm)
    BY <1>2, EmptySeq
  <2>2. at = "exec" /\ prog = "none"
    BY DEF Init
  <2>. QED
    BY <1>2, <2>1, <2>2 DEF BeforePassword, NotAskedYet
<1>5. PasswordFirst /\ CheckedOnly
  <2>1. DOMAIN inp = {} /\ at = "exec"
    <3>1. at = "exec"
      BY DEF Init
    <3>. QED
      BY <1>2, <3>1
  <2>. QED
    BY <2>1 DEF PasswordFirst, CheckedOnly
<1>6. StubEnded /\ ProgramEnded /\ WaitsFor /\ ResultIsSo
  <2>1. status = None /\ result = None /\ at = "exec"
    BY DEF Init
  <2>2. status /= 0 /\ status /= Killed /\ result /= 0
    BY <2>1, Codes
  <2>. QED
    BY <1>2, <2>1, <2>2 DEF StubEnded, ProgramEnded, WaitsFor, ResultIsSo
<1>. QED
  BY <1>1, <1>3, <1>4, <1>5, <1>6 DEF AuthInv

LEMMA AuthStep == QuietNotices /\ AuthInv /\ [Next]_vars => AuthInv'
BY RunTypeStep, LetInStep, BeforePasswordStep, PasswordFirstStep, CheckedOnlyStep, StubEndedStep,
   ProgramEndedStep, WaitsForStep, ResultIsSoStep DEF AuthInv

\* The variables have their types in every state of exec(), the program and
\* the stub (stubprocess.cpp:140-219, ptyprocess.cpp:394-505).
THEOREM AuthenticationTypeCorrect == Spec => []TypeOK
<1>1. Spec => []RunType
  BY RunTypeInit, RunTypeStep, PTL DEF Spec
<1>2. RunType => TypeOK
  BY DEF RunType
<1>. QED
  BY <1>1, <1>2, PTL

\* If what a program says before it asks is no prompt and does not end in a
\* colon, the password is read by the program that asked for it and by nothing
\* else (suprocess.cpp:247-280, sshprocess.cpp:189-212).
THEOREM PasswordStaysWithProgramHolds ==
    ASSUME QuietNotices
    PROVE  Spec => []PasswordStaysWithProgram
<1>1. Spec => []AuthInv
  BY AuthInit, AuthStep, PTL DEF Spec
<1>2. AuthInv => PasswordStaysWithProgram
  BY DEF AuthInv, PasswordFirst, PasswordStaysWithProgram, ToSet, Asked
<1>. QED
  BY <1>1, <1>2, PTL

\* Under the same condition what exec() returns is so, with su, sudo and ssh and
\* with signals from outside to the program and the stub at any time: 0 for a run
\* means that the command has ended with 0, that waitForChild() has seen a program
\* ended by a signal (ptyprocess.cpp:484), or that a conversation with ssh failed
\* (sshprocess.cpp:121-134); 0 for a check means that a right password, or none,
\* led to the installation, and that no password was asked for
\* (suprocess.cpp:154-215, stubprocess.cpp:140-219).
THEOREM ResultIsSoHolds ==
    ASSUME QuietNotices
    PROVE  Spec => []ResultIsSo
<1>1. Spec => []AuthInv
  BY AuthInit, AuthStep, PTL DEF Spec
<1>2. AuthInv => ResultIsSo
  BY DEF AuthInv
<1>. QED
  BY <1>1, <1>2, PTL

\* If besides only ssh turns the echo off after it has asked, no program
\* discards the password when it does so (ptyprocess.cpp:359-391).
THEOREM PasswordNotDiscardedHolds ==
    ASSUME QuietNotices, LateIsSsh
    PROVE  Spec => PasswordNotDiscarded
<1>1. Init => AuthInv /\ EchoKnown
  <2>1. Init => EchoKnown
    BY DEF Init, EchoKnown
  <2>. QED
    BY <2>1, AuthInit
<1>2. AuthInv /\ EchoKnown /\ [Next]_vars => (AuthInv /\ EchoKnown)'
  BY AuthStep, EchoKnownStep DEF AuthInv
<1>3. ASSUME AuthInv, EchoKnown
      PROVE  [ProgEchoOff \/ ProgPrompt => "password" \notin ToSet(inp)]_vars
  BY <1>3 DEF AuthInv, EchoKnown, NothingTyped, PasswordFirst, ProgEchoOff, ProgPrompt, Before,
         Asked, ToSet
<1>. QED
  BY <1>1, <1>2, <1>3, PTL DEF Spec, PasswordNotDiscarded

-----------------------------------------------------------------------------
(* What the stub takes for the value of a parameter is that value: first     *)
(* what is so before the stub is started.                                    *)

\* An additional variable is a line that is not empty.
VariablesSay == \A e \in Environments : \A i \in DOMAIN e : e[i] /= ""

\* Nothing but the password has been typed, and only where it is awaited.
Untyped ==
    prog \in Outside =>
        inp = <<>> \/ (inp = <<"password">> /\ prog \in {"late", "reading"})

LEMMA ProgramUntyped ==
    ASSUME Program, prog' \in Outside, Untyped
    PROVE  inp' = <<>> \/ (Before /\ inp' = inp)
<1>1. Tail(<<"password">>) = <<>>
  OBVIOUS
<1>2. prog \in Outside /\ inp /= <<>> => Tail(inp) = <<>>
  BY <1>1 DEF Untyped
<1>. QED
  BY <1>2
     DEF Program, ProgFails, ProgNotice, ProgPrompt, ProgEchoOff, ProgAccepts, ProgRefuses,
         ProgTimeout, ProgStartsStub, ProgForwards, ProgDisconnected, ProgEnds, Ends, Before,
         Outside

LEMMA UntypedStep ==
    ASSUME RunType, LetIn, BeforePassword, Untyped, [Next]_vars
    PROVE  Untyped'
<1>1. CASE Exec
  <2>1. SUFFICES ASSUME prog' \in Outside
                 PROVE  inp' = <<>> \/ (inp' = <<"password">> /\ prog' \in {"late", "reading"})
    BY DEF Untyped
  <2>2. /\ prog \in Outside
        /\ prog' = prog \/ (at = "exec" /\ prog = "none" /\ prog' = "begun")
    BY <1>1, <2>1, ExecKills DEF Ends, Outside, RunType, WaitType
  <2>3. Closed /\ FirstLine /= Params[1]
    BY <2>2, NoHeader DEF LetIn, Closed
  <2>4. CASE inp' = inp
    BY <2>2, <2>4 DEF Untyped
  <2>5. CASE SuPassword \/ SshPassword
    BY <2>2, <2>5, PasswordTyped DEF Outside, Asked
  <2>6. ~StubHeader \/ inp' = inp
    BY <2>3 DEF StubHeader
  <2>7. ~StubRequest
    BY <2>3 DEF Closed, StubRequest
  <2>. QED
    BY <1>1, <2>4, <2>5, <2>6, <2>7, ExecInput
<1>2. CASE Program
  BY <1>2, ProgramUntyped, ProgramGoes DEF Untyped, Before
<1>3. CASE Stub
  BY <1>3, StubIsActive DEF LetIn, Untyped, Outside
<1>4. CASE UNCHANGED vars
  BY <1>4 DEF vars, terminal, external, Untyped
<1>5. CASE Signals
  BY <1>5, SignalsDo DEF Untyped, Outside
<1>. QED
  BY <1>1, <1>2, <1>3, <1>4, <1>5 DEF Next

-----------------------------------------------------------------------------
(* What there is to be read.                                                 *)

LEMMA UnreadAfter ==
    ASSUME RunType
    PROVE  /\ ReadLine => Unread' = AfterFirst
           /\ UnreadLine => Unread' = Unread
           /\ UNCHANGED <<buf, out>> => Unread' = Unread
<1>1. Unread \in Seq(Lines) /\ AfterFirst \in Seq(Lines)
  BY Unreads DEF RunType
<1>. QED
  BY <1>1, ConcatEmptySeq DEF ReadLine, UnreadLine, Unread

LEMMA UnreadPrinted ==
    ASSUME RunType, NEW l \in Lines, buf' = buf, Prints(<<l>>)
    PROVE  Unread' = Unread \o <<l>> /\ (Unread = <<>> => Unread' = <<l>>)
<1>1. buf \in Seq(Lines) /\ out \in Seq(Lines) /\ <<l>> \in Seq(Lines)
  BY DEF RunType, OutputType
<1>2. buf \o (out \o <<l>>) = (buf \o out) \o <<l>>
  BY <1>1, ConcatAssociative
<1>3. <<>> \o <<l>> = <<l>>
  BY <1>1, ConcatEmptySeq
<1>. QED
  BY <1>2, <1>3 DEF Unread, Prints

LEMMA OneLine ==
    ASSUME NEW l, Unread = <<l>>
    PROVE  FirstLine = l /\ AfterFirst = <<>>
<1>1. Head(<<l>>) = l /\ Len(<<l>>) = 1 /\ Tail(<<l>>) = <<>> /\ <<l>> /= <<>>
  OBVIOUS
<1>. QED
  BY <1>1 DEF FirstLine, AfterFirst

\* The header is the last line that has come.
HeaderLast == \E l \in Seq(Foreign) : Unread = l \o <<Params[1]>>

LEMMA ParamFacts ==
    /\ Params \in Seq(STRING) /\ Len(Params) \in Nat \ {0}
    /\ \A i \in 1 .. Len(Params) :
          /\ Params[i] \in Lines /\ Params[i] \notin Printed \cup Typed
          /\ i > 1 => Params[i] \in ToSet(Tail(Params))
<1>1. Params \in Seq(STRING) /\ Params /= <<>>
  BY StubAssumption
<1>2. Len(Params) \in Nat \ {0} /\ DOMAIN Params = 1 .. Len(Params)
  BY <1>1
<1>3. ASSUME NEW i \in 1 .. Len(Params)
      PROVE  /\ Params[i] \in Lines /\ Params[i] \notin Printed \cup Typed
             /\ i > 1 => Params[i] \in ToSet(Tail(Params))
  <2>1. Params[i] \in Lines
    BY <1>2 DEF Lines, ToSet
  <2>2. Params[i] \notin Printed \cup Typed
    BY <1>2, StubAssumption
  <2>3. ASSUME i > 1
        PROVE  Params[i] \in ToSet(Tail(Params))
    <3>1. i - 1 \in DOMAIN Tail(Params) /\ Tail(Params)[i - 1] = Params[i]
      BY <1>1, <1>2, <2>3
    <3>. QED
      BY <3>1 DEF ToSet
  <2>. QED
    BY <2>1, <2>2, <2>3
<1>. QED
  BY <1>1, <1>2, <1>3

LEMMA HeaderFirst ==
    ASSUME HeaderLast, FirstLine = Params[1]
    PROVE  AfterFirst = <<>>
<1>1. PICK l \in Seq(Foreign) : Unread = l \o <<Params[1]>>
  BY DEF HeaderLast
<1>2. CASE l = <<>>
  <2>1. Unread = <<Params[1]>>
    BY <1>1, <1>2
  <2>. QED
    BY <2>1, OneLine
<1>3. CASE l /= <<>>
  <2>1. Head(Unread) = Head(l) /\ Head(l) \in Foreign /\ Unread /= <<>>
    BY <1>1, <1>3
  <2>. QED
    BY <2>1 DEF FirstLine, Foreign
<1>. QED
  BY <1>2, <1>3

LEMMA TailOfConcat ==
    ASSUME NEW S, NEW l \in Seq(S), NEW h, l /= <<>>
    PROVE  Tail(l \o <<h>>) = Tail(l) \o <<h>> /\ Tail(l) \in Seq(S)
OBVIOUS

LEMMA SecondIsLast ==
    ASSUME NEW S, NEW l \in Seq(S), NEW h \in S, l /= <<>>, (l \o <<h>>)[2] /= h
    PROVE  Tail(l) /= <<>>
<1>1. <<h>> \in Seq(S) /\ Len(<<h>>) = 1 /\ <<h>>[1] = h
  OBVIOUS
<1>2. Len(l) \in Nat \ {0}
  BY EmptySeq
<1>3. Len(l) /= 1
  BY <1>1, <1>2, ConcatProperties
<1>4. Len(Tail(l)) = Len(l) - 1
  BY HeadTailProperties
<1>5. Len(Tail(l)) /= 0
  BY <1>2, <1>3, <1>4
<1>. QED
  BY <1>5, EmptySeq

LEMMA HeaderStays ==
    ASSUME HeaderLast, FirstLine /= Params[1]
    PROVE  \E l \in Seq(Foreign) : AfterFirst = l \o <<Params[1]>>
<1>1. PICK l \in Seq(Foreign) : Unread = l \o <<Params[1]>>
  BY DEF HeaderLast
<1>2. l /= <<>> /\ Unread /= <<>>
  <2>1. l = <<>> => Unread = <<Params[1]>>
    BY <1>1
  <2>. QED
    BY <1>1, <2>1, OneLine
<1>3. Tail(Unread) = Tail(l) \o <<Params[1]>> /\ Tail(l) \in Seq(Foreign)
  BY <1>1, <1>2, TailOfConcat
<1>4. ASSUME Len(Unread) > 1, Unread[2] = "blank"
      PROVE  Tail(Tail(Unread)) = Tail(Tail(l)) \o <<Params[1]>> /\ Tail(Tail(l)) \in Seq(Foreign)
  <2>1. Params[1] /= "blank"
    BY ParamFacts DEF Printed
  <2>2. l \in Seq(Lines) /\ Params[1] \in Lines
    BY ParamFacts, ForeignLines, SeqMonotonic
  <2>3. Tail(l) /= <<>>
    BY <1>1, <1>2, <1>4, <2>1, <2>2, SecondIsLast
  <2>. QED
    BY <1>3, <2>3, TailOfConcat
<1>. QED
  BY <1>2, <1>3, <1>4 DEF AfterFirst

-----------------------------------------------------------------------------
(* The lines that the stub is to take, and those it has taken.               *)

Whole == (<<"ok">> \o Tail(Params)) \o (env \o <<"">>)

\* What a concatenation is made of.
LEMMA Joined ==
    ASSUME NEW S, NEW s \in Seq(S), NEW t \in Seq(S)
    PROVE  /\ s \o t \in Seq(S) /\ Len(s) \in Nat /\ Len(t) \in Nat
           /\ Len(s \o t) = Len(s) + Len(t)
           /\ \A j \in 1 .. Len(s) : (s \o t)[j] = s[j]
           /\ \A j \in 1 .. Len(t) : (s \o t)[Len(s) + j] = t[j]
<1>1. Len(s) \in Nat /\ Len(t) \in Nat
  BY LenProperties
<1>2. /\ s \o t \in Seq(S)
      /\ Len(s \o t) = Len(s) + Len(t)
      /\ \A i \in 1 .. Len(s) + Len(t) : (s \o t)[i] = IF i <= Len(s) THEN s[i] ELSE t[i - Len(s)]
  BY ConcatProperties
<1>3. ASSUME NEW j \in 1 .. Len(t)
      PROVE  (s \o t)[Len(s) + j] = t[j]
  <2>1. Len(s) + j \in 1 .. Len(s) + Len(t) /\ ~(Len(s) + j <= Len(s)) /\ (Len(s) + j) - Len(s) = j
    BY <1>1
  <2>. QED
    BY <1>2, <2>1
<1>4. ASSUME NEW j \in 1 .. Len(s)
      PROVE  (s \o t)[j] = s[j]
  BY <1>1, <1>2
<1>. QED
  BY <1>1, <1>2, <1>3, <1>4

LEMMA One ==
    ASSUME NEW S, NEW x \in S
    PROVE  <<x>> \in Seq(S) /\ Len(<<x>>) = 1 /\ <<x>>[1] = x
OBVIOUS

\* The first element of p replaced by a.
LEMMA Fronted ==
    ASSUME NEW S, NEW p \in Seq(S), p /= <<>>, NEW a \in S
    PROVE  /\ <<a>> \o Tail(p) \in Seq(S) /\ Len(<<a>> \o Tail(p)) = Len(p)
           /\ (<<a>> \o Tail(p))[1] = a
           /\ \A j \in 2 .. Len(p) : (<<a>> \o Tail(p))[j] = p[j]
<1>1. <<a>> \in Seq(S) /\ Len(<<a>>) = 1 /\ <<a>>[1] = a
  BY One
<1>2. /\ Tail(p) \in Seq(S) /\ Len(Tail(p)) = Len(p) - 1 /\ Len(p) \in Nat \ {0}
      /\ \A j \in 1 .. Len(p) - 1 : Tail(p)[j] = p[j + 1]
  BY HeadTailProperties, LenProperties, EmptySeq
<1>3. /\ <<a>> \o Tail(p) \in Seq(S) /\ Len(<<a>> \o Tail(p)) = 1 + (Len(p) - 1)
      /\ (<<a>> \o Tail(p))[1] = a
      /\ \A j \in 1 .. Len(p) - 1 : (<<a>> \o Tail(p))[1 + j] = Tail(p)[j]
  BY <1>1, <1>2, Joined
<1>4. ASSUME NEW j \in 2 .. Len(p)
      PROVE  (<<a>> \o Tail(p))[j] = p[j]
  <2>1. j - 1 \in 1 .. Len(p) - 1 /\ 1 + (j - 1) = j /\ (j - 1) + 1 = j
    BY <1>2
  <2>. QED
    BY <1>2, <1>3, <2>1
<1>. QED
  BY <1>2, <1>3, <1>4

\* One more element at the end of e.
LEMMA Ended ==
    ASSUME NEW S, NEW e \in Seq(S), NEW z \in S
    PROVE  /\ e \o <<z>> \in Seq(S) /\ Len(e) \in Nat /\ Len(e \o <<z>>) = Len(e) + 1
           /\ \A j \in 1 .. Len(e) : (e \o <<z>>)[j] = e[j]
           /\ (e \o <<z>>)[Len(e) + 1] = z
<1>1. <<z>> \in Seq(S) /\ Len(<<z>>) = 1 /\ <<z>>[1] = z
  BY One
<1>2. /\ e \o <<z>> \in Seq(S) /\ Len(e) \in Nat /\ Len(e \o <<z>>) = Len(e) + 1
      /\ \A j \in 1 .. Len(e) : (e \o <<z>>)[j] = e[j]
      /\ \A j \in 1 .. 1 : (e \o <<z>>)[Len(e) + j] = <<z>>[j]
  BY <1>1, Joined
<1>. QED
  BY <1>1, <1>2

\* w is a, the elements of p without the first, those of e, and z.
Composes(w, p, e, a, z) ==
    /\ Len(p) \in Nat \ {0} /\ Len(e) \in Nat
    /\ Len(w) = Len(p) + Len(e) + 1
    /\ w[1] = a
    /\ \A j \in 2 .. Len(p) : w[j] = p[j]
    /\ \A j \in 1 .. Len(e) : w[Len(p) + j] = e[j]
    /\ w[Len(p) + Len(e) + 1] = z

LEMMA Composed ==
    ASSUME NEW S, NEW p \in Seq(S), p /= <<>>, NEW e \in Seq(S), NEW a \in S, NEW z \in S,
           NEW f \in Seq(S), NEW g \in Seq(S), f = <<a>> \o Tail(p), g = e \o <<z>>
    PROVE  f \o g \in Seq(S) /\ Composes(f \o g, p, e, a, z)
<1>1. Len(f) = Len(p) /\ f[1] = a /\ \A j \in 2 .. Len(p) : f[j] = p[j]
  BY Fronted
<1>2. /\ Len(e) \in Nat /\ Len(g) = Len(e) + 1
      /\ \A j \in 1 .. Len(e) : g[j] = e[j]
      /\ g[Len(e) + 1] = z
  BY Ended
<1>3. /\ f \o g \in Seq(S) /\ Len(f) \in Nat /\ Len(f \o g) = Len(f) + Len(g)
      /\ \A j \in 1 .. Len(f) : (f \o g)[j] = f[j]
      /\ \A j \in 1 .. Len(g) : (f \o g)[Len(f) + j] = g[j]
  BY Joined
<1>4. Len(p) \in Nat \ {0}
  BY LenProperties, EmptySeq
<1>5. Len(f \o g) = Len(p) + Len(e) + 1
  BY <1>1, <1>2, <1>3, <1>4
<1>6. \A j \in 1 .. Len(p) : (f \o g)[j] = f[j]
  BY <1>1, <1>3
<1>7. ASSUME NEW j \in 1 .. Len(e)
      PROVE  (f \o g)[Len(p) + j] = e[j]
  <2>1. j \in 1 .. Len(g)
    BY <1>2
  <2>2. (f \o g)[Len(f) + j] = g[j]
    BY <1>3, <2>1
  <2>. QED
    BY <1>1, <1>2, <2>2
<1>8. (f \o g)[Len(p) + Len(e) + 1] = z
  <2>1. (f \o g)[Len(f) + (Len(e) + 1)] = g[Len(e) + 1]
    BY <1>2, <1>3
  <2>2. Len(f) + (Len(e) + 1) = Len(p) + Len(e) + 1
    BY <1>1, <1>2, <1>4
  <2>. QED
    BY <1>2, <2>1, <2>2
<1>. QED
  BY <1>1, <1>2, <1>3, <1>4, <1>5, <1>6, <1>7, <1>8 DEF Composes

LEMMA EnvInputs == RunType => env \in Seq(Inputs)
<1>. SUFFICES ASSUME RunType PROVE env \in Seq(Inputs)
  OBVIOUS
<1>1. env \in Seq(STRING) /\ env \in Environments
  BY StubAssumption DEF RunType, TypeOK
<1>2. ToSet(env) \subseteq Inputs
  BY <1>1 DEF Inputs, Values
<1>3. \A i \in 1 .. Len(env) : env[i] \in Inputs
  BY <1>1, <1>2 DEF ToSet
<1>. QED
  BY <1>1, <1>3

LEMMA ParamInputs == Params \in Seq(Inputs)
<1>1. Params \in Seq(STRING)
  BY StubAssumption
<1>2. ToSet(Params) \subseteq Inputs
  BY DEF Inputs, Values
<1>3. \A i \in 1 .. Len(Params) : Params[i] \in Inputs
  BY <1>1, <1>2 DEF ToSet
<1>. QED
  BY <1>1, <1>3

LEMMA WholeFacts ==
    ASSUME RunType
    PROVE  Whole \in Seq(Inputs) /\ Composes(Whole, Params, env, "ok", "")
<1>1. Params \in Seq(STRING) /\ Params /= <<>> /\ env \in Seq(STRING) /\ env \in Environments
  BY StubAssumption DEF RunType, TypeOK
<1>2. "ok" \in Inputs /\ "" \in Inputs
  BY DEF Inputs, Typed
<1>3. Params \in Seq(Inputs)
  BY ParamInputs
<1>4. env \in Seq(Inputs)
  BY EnvInputs
<1>5. PICK a \in Inputs : a = "ok"
  BY <1>2
<1>6. PICK z \in Inputs : z = ""
  BY <1>2
<1>7. PICK f \in Seq(Inputs) : f = <<a>> \o Tail(Params)
  BY <1>1, <1>3, Fronted
<1>8. PICK g \in Seq(Inputs) : g = env \o <<z>>
  BY <1>4, Ended
<1>9. Whole = f \o g
  BY <1>5, <1>6, <1>7, <1>8 DEF Whole
<1>10. f \o g \in Seq(Inputs) /\ Composes(f \o g, Params, env, a, z)
  BY <1>1, <1>3, <1>4, <1>7, <1>8, Composed
<1>. QED
  BY <1>5, <1>6, <1>9, <1>10

\* v and then q are the first elements of w.
Agrees(v, q, w) ==
    /\ \A j \in 1 .. Len(v) : v[j] = w[j]
    /\ \A j \in 1 .. Len(q) : q[j] = w[Len(v) + j]

\* One element is taken from q and appended to v.
LEMMA AgreesOn ==
    ASSUME NEW S, NEW v \in Seq(S), NEW q \in Seq(S), q /= <<>>, NEW w, Agrees(v, q, w)
    PROVE  /\ Len(v) \in Nat /\ Len(q) \in Nat \ {0}
           /\ Head(q) = w[Len(v) + 1]
           /\ Len(Append(v, Head(q))) = Len(v) + 1 /\ Len(Tail(q)) = Len(q) - 1
           /\ Agrees(Append(v, Head(q)), Tail(q), w)
           /\ Agrees(v, <<>>, w)
<1>1. Len(v) \in Nat /\ Len(q) \in Nat \ {0} /\ Head(q) = q[1] /\ Head(q) \in S
  BY LenProperties, EmptySeq, HeadTailProperties
<1>2. Head(q) = w[Len(v) + 1]
  BY <1>1 DEF Agrees
<1>3. /\ Len(Append(v, Head(q))) = Len(v) + 1
      /\ \A j \in 1 .. Len(v) : Append(v, Head(q))[j] = v[j]
      /\ Append(v, Head(q))[Len(v) + 1] = Head(q)
  BY <1>1, AppendProperties
<1>4. /\ Len(Tail(q)) = Len(q) - 1
      /\ \A j \in 1 .. Len(q) - 1 : Tail(q)[j] = q[j + 1]
  BY HeadTailProperties
<1>5. ASSUME NEW j \in 1 .. Len(v) + 1
      PROVE  Append(v, Head(q))[j] = w[j]
  BY <1>1, <1>2, <1>3 DEF Agrees
<1>6. ASSUME NEW j \in 1 .. Len(q) - 1
      PROVE  Tail(q)[j] = w[Len(v) + 1 + j]
  <2>1. j + 1 \in 1 .. Len(q) /\ Len(v) + (j + 1) = Len(v) + 1 + j
    BY <1>1
  <2>2. q[j + 1] = w[Len(v) + (j + 1)]
    BY <2>1 DEF Agrees
  <2>. QED
    BY <1>4, <2>1, <2>2
<1>7. Agrees(Append(v, Head(q)), Tail(q), w)
  BY <1>3, <1>4, <1>5, <1>6 DEF Agrees
<1>8. Agrees(v, <<>>, w)
  <2>1. Len(<<>>) = 0
    BY EmptySeq
  <2>. QED
    BY <2>1 DEF Agrees
<1>. QED
  BY <1>1, <1>2, <1>3, <1>4, <1>7, <1>8

Matches ==
    \/ Agrees(stub.values, inp, Whole)
    \/ stub.at = "read" /\ stub.i = 1 /\ inp = <<"stop">>

Taken ==
    /\ stub.at \in {"ask", "read"} => Len(stub.values) = stub.i - 1
    /\ stub.at = "environment" => Len(stub.values) = Len(Params)
    /\ stub.at = "variables" => Len(stub.values) >= Len(Params)
    /\ stub.at \in {"setup", "command"} => Len(stub.values) = Len(Whole) - 1

\* Exec() and the stub in turn.
InTurn ==
    \/ stub.at = "ask" /\ stub.i > 1 /\ Unread = <<>> /\ inp = <<>>
    \/ /\ stub.at = "read" /\ stub.i > 1 /\ inp = <<>>
       /\ Unread = <<Params[stub.i]>> \/ Unread = <<"unknown">>
    \/ stub.at = "read" /\ Unread = <<>> /\ Len(inp) = 1
    \/ stub.at = "environment" /\ Unread = <<>> /\ inp = <<>>
    \/ /\ stub.at = "variables" /\ Unread = <<"environment">> /\ inp = <<>>
       /\ Len(stub.values) = Len(Params)
    \/ stub.at = "variables" /\ Unread = <<>> /\ Len(stub.values) + Len(inp) = Len(Whole)
    \/ stub.at \in {"setup", "command"} /\ Unread = <<"end">> /\ inp = <<>>

Early == {"exec", "prompt", "quiet", "star", "handle", "login", "slave", "newline", "header"}
Late == {"wait", "waitagain", "returned"}

\* The stub prints its name and waits for what is typed.
AtHeader ==
    /\ stub.at \in {"ask", "read"} /\ stub.i = 1 /\ inp = <<>>
    /\ stub.at = "ask" => buf \in Seq(Foreign) /\ out \in Seq(Foreign)
    /\ stub.at = "read" => HeaderLast

\* Nobody answers it any more.
LeftAlone == stub.at \in {"ask", "read", "setup", "command"} /\ inp = <<>>

Conversation ==
    Active =>
        /\ Matches /\ Taken
        /\ at = "talk" => InTurn
        /\ at \in Early => AtHeader
        /\ at \in Late => LeftAlone

LEMMA StartStep ==
    ASSUME RunType, LetIn, Untyped, ProgStartsStub
    PROVE  Conversation'
<1>1. prog \in Outside /\ prog \notin {"late", "reading"} /\ inp = <<>>
  BY DEF ProgStartsStub, Before, Outside, Untyped
<1>2. Closed
  BY <1>1 DEF LetIn
<1>3. /\ stub' = [at |-> "ask", i |-> 1, values |-> <<>>]
      /\ inp' = <<>> /\ buf' = buf /\ out' = out /\ at' = at
  BY <1>1 DEF ProgStartsStub, terminal, process
<1>4. stub'.at = "ask" /\ stub'.i = 1 /\ stub'.values = <<>> /\ Len(<<>>) = 0
  BY <1>3, EmptySeq
<1>5. Whole' = Whole /\ Len(Whole) \in Nat
  <2>1. env' = env
    BY DEF ProgStartsStub, job
  <2>2. Len(Whole) \in Nat
    BY WholeFacts, LenProperties
  <2>. QED
    BY <2>1, <2>2 DEF Whole
<1>6. Matches' /\ Taken'
  BY <1>3, <1>4, <1>5 DEF Matches, Agrees, Taken
<1>7. AtHeader' /\ LeftAlone' /\ at' /= "talk"
  BY <1>2, <1>3, <1>4 DEF Closed, AtHeader, LeftAlone
<1>. QED
  BY <1>6, <1>7 DEF Conversation

\* Where exec() is when something has been typed for the stub.
LEMMA Talking ==
    ASSUME RunType, Conversation, Active,
           inp /= <<>> \/ stub.at \in {"environment", "variables"}
    PROVE  at = "talk" /\ InTurn /\ Matches /\ Taken
<1>1. at \in Early \cup {"talk"} \cup Late
  BY DEF RunType, TypeOK, Early, Late
<1>2. at \notin Early /\ at \notin Late
  BY DEF Conversation, AtHeader, LeftAlone
<1>. QED
  BY <1>1, <1>2 DEF Conversation

LEMMA StubTypes ==
    ASSUME RunType
    PROVE  /\ stub \in StubStates /\ stub.i \in Nat /\ stub.values \in Seq(Inputs)
           /\ Len(stub.values) \in Nat /\ inp \in Seq(Inputs)
           /\ Len(Whole) \in Nat
           /\ stub.at \in {"ask", "read"} => stub.i \in 1 .. Len(Params)
<1>1. stub \in StubStates /\ stub.i \in Nat /\ stub.values \in Seq(Inputs) /\ inp \in Seq(Inputs)
  BY DEF RunType, StubType, StubStates, InputType
<1>2. Len(stub.values) \in Nat
  BY <1>1, LenProperties
<1>3. Len(Whole) \in Nat
  BY WholeFacts, LenProperties
<1>4. stub.at \in {"ask", "read"} => stub.i \in 1 .. Len(Params)
  BY StubAssumption DEF RunType, StubType
<1>. QED
  BY <1>1, <1>2, <1>3, <1>4

LEMMA AsksStep ==
    ASSUME RunType, Conversation, StubAsks
    PROVE  Conversation'
<1>1. PICK l \in Lines : /\ Prints(<<l>>)
                         /\ l = Params[stub.i] \/ (l = "unknown" /\ stub.i > 1)
  <2>1. stub.i \in 1 .. Len(Params)
    BY StubTypes DEF StubAsks
  <2>2. Params[stub.i] \in Lines /\ "unknown" \in Lines
    BY <2>1, ParamFacts DEF Lines, Printed
  <2>. QED
    BY <2>2 DEF StubAsks
<1>2. stub.at = "ask" /\ Active /\ stub \in StubStates
  BY StubTypes DEF StubAsks, Active
<1>3. /\ stub'.at = "read" /\ stub'.i = stub.i /\ stub'.values = stub.values
      /\ inp' = inp /\ at' = at /\ buf' = buf /\ env' = env
  BY <1>2 DEF StubAsks, StubStates, job, process
<1>4. Unread' = Unread \o <<l>> /\ (Unread = <<>> => Unread' = <<l>>)
  BY <1>1, <1>3, UnreadPrinted
<1>5. Matches' /\ Taken'
  <2>1. Whole' = Whole
    BY <1>3 DEF Whole
  <2>2. Matches /\ Taken
    BY <1>2 DEF Conversation
  <2>3. Agrees(stub.values, inp, Whole)
    BY <1>2, <2>2 DEF Matches
  <2>4. Matches'
    BY <1>3, <2>1, <2>3 DEF Matches
  <2>5. Taken'
    BY <1>2, <1>3, <2>2 DEF Taken
  <2>. QED
    BY <2>4, <2>5
<1>6. at = "talk" => InTurn'
  <2>1. SUFFICES ASSUME at = "talk"
                 PROVE  InTurn'
    OBVIOUS
  <2>2. stub.i > 1 /\ Unread = <<>> /\ inp = <<>>
    BY <1>2, <2>1 DEF Conversation, InTurn
  <2>3. Unread' = <<Params[stub.i]>> \/ Unread' = <<"unknown">>
    BY <1>1, <1>4, <2>2
  <2>. QED
    BY <1>3, <2>2, <2>3 DEF InTurn
<1>7. at \in Early => AtHeader'
  <2>1. SUFFICES ASSUME at \in Early
                 PROVE  AtHeader'
    OBVIOUS
  <2>2. stub.i = 1 /\ inp = <<>> /\ buf \in Seq(Foreign) /\ out \in Seq(Foreign)
    BY <1>2, <2>1 DEF Conversation, AtHeader
  <2>3. l = Params[1] /\ Unread \in Seq(Foreign)
    BY <1>1, <2>2 DEF Unread
  <2>4. HeaderLast'
    BY <1>4, <2>3 DEF HeaderLast
  <2>. QED
    BY <1>3, <2>2, <2>4 DEF AtHeader
<1>8. at \in Late => LeftAlone'
  BY <1>2, <1>3 DEF Conversation, LeftAlone
<1>. QED
  BY <1>3, <1>5, <1>6, <1>7, <1>8 DEF Conversation

LEMMA ReadsStep ==
    ASSUME RunType, Conversation, StubReads
    PROVE  Conversation'
<1>1. stub.at = "read" /\ Active /\ inp /= <<>> /\ inp' = Tail(inp)
  BY DEF StubReads, Active
<1>2. at = "talk" /\ InTurn /\ Matches /\ Taken
  BY <1>1, Talking
<1>3. Unread = <<>> /\ Len(inp) = 1
  BY <1>1, <1>2 DEF InTurn
<1>4. CASE stub.i = 1 /\ Head(inp) = "stop"
  <2>1. stub'.at = "exited"
    BY <1>4, StubTypes DEF StubReads, StubExits, StubStates
  <2>. QED
    BY <2>1 DEF Conversation, Active
<1>5. CASE ~(stub.i = 1 /\ Head(inp) = "stop")
  <2>1. /\ stub' = [at |-> IF stub.i < Len(Params) THEN "ask" ELSE "environment",
                    i |-> stub.i + 1, values |-> Append(stub.values, Head(inp))]
        /\ out' = out
    BY <1>5 DEF StubReads
  <2>2. at' = at /\ buf' = buf /\ env' = env
    BY DEF StubReads, job, process
  <2>3. Unread' = <<>> /\ Whole' = Whole
    BY <1>3, <2>1, <2>2 DEF Unread, Whole
  <2>4. Agrees(stub.values, inp, Whole)
    <3>1. Head(<<"stop">>) = "stop"
      OBVIOUS
    <3>. QED
      BY <1>2, <1>5, <3>1 DEF Matches
  <2>5. /\ Len(stub'.values) = Len(stub.values) + 1 /\ Len(inp') = Len(inp) - 1
        /\ Agrees(stub'.values, inp', Whole)
    <3>1. stub'.values = Append(stub.values, Head(inp))
      BY <2>1
    <3>. QED
      BY <1>1, <2>4, <3>1, StubTypes, AgreesOn
  <2>6. inp' = <<>>
    <3>1. inp' \in Seq(Inputs) /\ Len(inp') = 0
      BY <1>1, <1>3, <2>5, StubTypes, HeadTailProperties
    <3>. QED
      BY <3>1, EmptySeq
  <2>7. Matches'
    BY <2>3, <2>5 DEF Matches
  <2>8. /\ Len(stub.values) = stub.i - 1 /\ stub.i \in 1 .. Len(Params)
        /\ Len(Params) \in Nat /\ stub'.i = stub.i + 1
        /\ stub'.at = IF stub.i < Len(Params) THEN "ask" ELSE "environment"
    <3>1. Len(stub.values) = stub.i - 1
      BY <1>1, <1>2 DEF Taken
    <3>2. stub.i \in 1 .. Len(Params) /\ Len(Params) \in Nat
      BY <1>1, StubTypes, ParamFacts
    <3>. QED
      BY <2>1, <3>1, <3>2
  <2>9. Taken'
    BY <2>5, <2>8 DEF Taken
  <2>10. InTurn'
    BY <2>3, <2>6, <2>8 DEF InTurn
  <2>. QED
    BY <1>2, <2>2, <2>7, <2>9, <2>10 DEF Conversation, Early, Late
<1>. QED
  BY <1>4, <1>5

LEMMA AsksEnvironmentStep ==
    ASSUME RunType, Conversation, StubAsksEnvironment
    PROVE  Conversation'
<1>1. stub.at = "environment" /\ Active /\ stub \in StubStates
  BY StubTypes DEF StubAsksEnvironment, Active
<1>2. at = "talk" /\ InTurn /\ Matches /\ Taken
  BY <1>1, Talking
<1>3. Unread = <<>> /\ inp = <<>> /\ Len(stub.values) = Len(Params)
  BY <1>1, <1>2 DEF InTurn, Taken
<1>4. /\ stub'.at = "variables" /\ stub'.i = stub.i /\ stub'.values = stub.values
      /\ inp' = inp /\ at' = at /\ buf' = buf /\ env' = env
  BY <1>1 DEF StubAsksEnvironment, StubStates, job, process
<1>5. Unread' = <<"environment">>
  <2>1. "environment" \in Lines
    BY DEF Lines, Printed
  <2>. QED
    BY <1>3, <1>4, <2>1, UnreadPrinted DEF StubAsksEnvironment
<1>6. Matches'
  BY <1>1, <1>2, <1>4 DEF Matches, Whole
<1>7. Taken' /\ InTurn'
  BY <1>3, <1>4, <1>5, ParamFacts DEF Taken, InTurn
<1>. QED
  BY <1>2, <1>4, <1>6, <1>7 DEF Conversation, Early, Late

\* The empty line comes last.
LEMMA EmptyIsLast ==
    ASSUME RunType, VariablesSay, NEW k \in Nat, k > Len(Params), k <= Len(Whole)
    PROVE  Whole[k] = "" <=> k = Len(Whole)
<1>1. Len(Params) \in Nat /\ Len(env) \in Nat /\ Len(Whole) = Len(Params) + Len(env) + 1
  BY WholeFacts DEF Composes
<1>2. /\ \A j \in 1 .. Len(env) : Whole[Len(Params) + j] = env[j]
      /\ Whole[Len(Params) + Len(env) + 1] = ""
  BY WholeFacts DEF Composes
<1>3. ASSUME k /= Len(Whole)
      PROVE  Whole[k] /= ""
  <2>1. k - Len(Params) \in 1 .. Len(env) /\ Len(Params) + (k - Len(Params)) = k
    BY <1>1, <1>3
  <2>2. Whole[k] = env[k - Len(Params)]
    BY <1>2, <2>1
  <2>3. env \in Environments /\ DOMAIN env = 1 .. Len(env)
    BY StubAssumption DEF RunType, TypeOK
  <2>. QED
    BY <2>1, <2>2, <2>3 DEF VariablesSay
<1>. QED
  BY <1>1, <1>2, <1>3

LEMMA ReadsVariableStep ==
    ASSUME RunType, VariablesSay, Conversation, StubReadsVariable
    PROVE  Conversation'
<1>1. /\ stub.at = "variables" /\ Active /\ inp /= <<>> /\ inp' = Tail(inp)
      /\ stub \in StubStates
  BY StubTypes DEF StubReadsVariable, Active
<1>2. at = "talk" /\ InTurn /\ Matches /\ Taken
  BY <1>1, Talking
<1>3. /\ Unread = <<>> /\ Len(stub.values) + Len(inp) = Len(Whole)
      /\ Len(stub.values) >= Len(Params)
  BY <1>1, <1>2 DEF InTurn, Taken
<1>4. Agrees(stub.values, inp, Whole)
  BY <1>1, <1>2 DEF Matches
<1>5. /\ Len(stub.values) \in Nat /\ Len(inp) \in Nat \ {0}
      /\ Head(inp) = Whole[Len(stub.values) + 1]
      /\ Len(Append(stub.values, Head(inp))) = Len(stub.values) + 1
      /\ Len(Tail(inp)) = Len(inp) - 1
      /\ Agrees(Append(stub.values, Head(inp)), Tail(inp), Whole)
      /\ Agrees(stub.values, <<>>, Whole)
  BY <1>1, <1>4, StubTypes, AgreesOn
<1>6. Head(inp) = "" <=> Len(stub.values) + 1 = Len(Whole)
  <2>1. /\ Len(stub.values) + 1 \in Nat /\ Len(stub.values) + 1 > Len(Params)
        /\ Len(stub.values) + 1 <= Len(Whole)
    BY <1>3, <1>5, ParamFacts
  <2>. QED
    BY <1>5, <2>1, EmptyIsLast
<1>7. at' = at /\ buf' = buf /\ env' = env
  BY DEF StubReadsVariable, job, process
<1>8. Len(Whole) \in Nat /\ Len(Params) \in Nat
  BY StubTypes, ParamFacts
<1>9. ASSUME Len(stub.values) + 1 = Len(Whole)
      PROVE  Len(stub.values) = Len(Whole) - 1 /\ Len(inp) = 1
  BY <1>3, <1>5, <1>8, <1>9
<1>10. Whole' = Whole
  BY <1>7 DEF Whole
<1>11. Len(inp') = Len(inp) - 1
  BY <1>1, <1>5
<1>12. CASE Head(inp) = ""
  <2>1. stub'.at = "setup" /\ stub'.values = stub.values /\ Prints(<<"end">>)
    BY <1>1, <1>12 DEF StubReadsVariable, StubStates
  <2>2. Len(stub.values) = Len(Whole) - 1 /\ Len(inp) = 1
    BY <1>6, <1>9, <1>12
  <2>3. inp' = <<>>
    <3>1. Len(inp') = 0
      BY <1>11, <2>2
    <3>2. inp' \in Seq(Inputs)
      BY <1>1, StubTypes, HeadTailProperties
    <3>. QED
      BY <3>1, <3>2, EmptySeq
  <2>4. Unread' = <<"end">>
    <3>1. "end" \in Lines
      BY DEF Lines, Printed
    <3>. QED
      BY <1>3, <1>7, <2>1, <3>1, UnreadPrinted
  <2>5. Matches'
    BY <1>5, <1>10, <2>1, <2>3 DEF Matches
  <2>6. Taken'
    BY <1>10, <2>1, <2>2 DEF Taken
  <2>7. InTurn'
    BY <2>1, <2>3, <2>4 DEF InTurn
  <2>. QED
    BY <1>2, <1>7, <2>5, <2>6, <2>7 DEF Conversation, Early, Late
<1>13. CASE Head(inp) /= ""
  <2>1. /\ stub'.at = "variables" /\ stub'.values = Append(stub.values, Head(inp))
        /\ out' = out
    BY <1>1, <1>13 DEF StubReadsVariable, StubStates
  <2>2. Unread' = <<>>
    BY <1>3, <1>7, <2>1 DEF Unread
  <2>3. Matches'
    BY <1>1, <1>5, <1>10, <2>1 DEF Matches
  <2>4. Len(stub'.values) = Len(stub.values) + 1
    BY <1>5, <2>1
  <2>5. Len(stub.values) \in Nat /\ Len(inp) \in Nat
    BY <1>5
  <2>6. Len(stub'.values) >= Len(Params) /\ Len(stub'.values) + Len(inp') = Len(Whole)
    BY <1>3, <1>8, <1>11, <2>4, <2>5
  <2>7. Taken'
    BY <2>1, <2>6 DEF Taken
  <2>8. InTurn'
    BY <1>10, <2>1, <2>2, <2>6 DEF InTurn
  <2>. QED
    BY <1>2, <1>7, <2>3, <2>7, <2>8 DEF Conversation, Early, Late
<1>. QED
  BY <1>12, <1>13

LEMMA RunsStep ==
    ASSUME RunType, Conversation, StubRuns
    PROVE  Conversation'
<1>1. stub.at = "setup" /\ Active /\ stub \in StubStates
  BY StubTypes DEF StubRuns, Active
<1>2. /\ stub'.at = "command" /\ stub'.i = stub.i /\ stub'.values = stub.values
      /\ inp' = inp /\ at' = at /\ buf' = buf /\ out' = out /\ env' = env
  BY <1>1 DEF StubRuns, StubStates, job, process, terminal
<1>3. Whole' = Whole /\ Unread' = Unread
  BY <1>2 DEF Whole, Unread
<1>4. Matches /\ Taken /\ at \notin Early
  BY <1>1 DEF Conversation, AtHeader
<1>5. Matches' /\ Taken'
  BY <1>1, <1>2, <1>3, <1>4 DEF Matches, Taken
<1>6. at = "talk" => InTurn'
  BY <1>1, <1>2, <1>3 DEF Conversation, InTurn
<1>7. at \in Late => LeftAlone'
  BY <1>1, <1>2 DEF Conversation, LeftAlone
<1>. QED
  BY <1>2, <1>4, <1>5, <1>6, <1>7 DEF Conversation

LEMMA StubTalks ==
    ASSUME RunType, VariablesSay, Conversation, Stub
    PROVE  Conversation'
<1>1. CASE StubFails \/ StubReaps
  <2>1. stub'.at = "exited"
    BY <1>1, StubTypes DEF StubFails, StubReaps, StubExits, StubStates
  <2>. QED
    BY <2>1 DEF Conversation, Active
<1>. QED
  BY <1>1, AsksStep, ReadsStep, AsksEnvironmentStep, ReadsVariableStep, RunsStep DEF Stub

-----------------------------------------------------------------------------
(* What exec() does.                                                         *)

LEMMA NoneIsNoName == Params[1] /= None
<1>1. 1 \in DOMAIN Params
  BY StubAssumption
<1>2. Params[1] \in ToSet(Params)
  BY <1>1 DEF ToSet
<1>. QED
  BY <1>2, StubAssumption

LEMMA EarlyExec ==
    ASSUME Exec, at \in Early, stub' = stub, Active
    PROVE  \/ SuPassword \/ SshPassword
           \/ StubHeader /\ FirstLine = Params[1]
           \/ /\ at' \in Early \cup Late /\ inp' = inp
              /\ \/ at' \in Late
                 \/ ReadLine /\ FirstLine /= Params[1]
                 \/ UnreadLine
                 \/ UNCHANGED <<buf, out>>
<1>. USE DEF Return, Wait, Early, Late, terminal
<1>4. Params[1] \notin {"blank", "prompt", "notice", "denied", None}
  <2>1. 1 \in DOMAIN Params
    BY StubAssumption
  <2>2. Params[1] \in ToSet(Params)
    BY <2>1 DEF ToSet
  <2>. QED
    BY <2>1, <2>2, StubAssumption DEF Printed
<1>1. CASE ConverseStub
  BY <1>1, <1>4 DEF ConverseStub, StubHeader, StubRequest, StubNoLine, StubEnd, StubUnknown,
              WaitForChild, WaitForNobody, WaitExitString
<1>2. CASE ConverseSU
  <2>1. CASE SuRefused
    BY <1>4, <2>1 DEF HasColon, SuRefused
  <2>2. CASE SuHeader \/ SuReadsPrompt \/ SuMoreOutput \/ SuChecksStar \/ SuHandlesStub
    BY <1>4, <2>2 DEF SuHeader, SuReadsPrompt, SuMoreOutput, SuChecksStar, SuHandlesStub
  <2>3. CASE SuExec \/ SuNeedsPassword
    BY <2>3 DEF SuExec, SuNeedsPassword
  <2>. QED
    BY <1>2, <2>1, <2>2, <2>3 DEF ConverseSU
<1>3. CASE ConverseSsh
  <2>1. CASE SshExec \/ SshNoLine \/ SshNewline
    BY <1>4, <2>1 DEF SshExec, SshNoLine, SshNewline
  <2>2. CASE SshHeader \/ SshPrompt \/ SshError
    BY <1>4, <2>2 DEF SshHeader, SshPrompt, SshError
  <2>. QED
    BY <1>3, <2>1, <2>2 DEF ConverseSsh
<1>. QED
  BY <1>1, <1>2, <1>3 DEF Exec

LEMMA TalkExec ==
    ASSUME Exec, at = "talk"
    PROVE  StubRequest \/ StubNoLine \/ StubEnd \/ StubUnknown
<1>1. CASE ConverseStub
  BY <1>1 DEF ConverseStub, StubHeader, WaitForChild, WaitForNobody, WaitExitString
<1>2. CASE ConverseSU
  BY <1>2 DEF ConverseSU, SuExec, SuRefused, SuHeader, SuReadsPrompt, SuMoreOutput,
              SuNeedsPassword, SuPassword, SuChecksStar, SuHandlesStub
<1>3. CASE ConverseSsh
  BY <1>3 DEF ConverseSsh, SshExec, SshNoLine, SshHeader, SshPrompt, SshPassword, SshError,
              SshNewline
<1>. QED
  BY <1>1, <1>2, <1>3 DEF Exec

LEMMA LateExec ==
    ASSUME Exec, at \in Late
    PROVE  at' \in Late /\ inp' = inp
<1>. USE DEF Return, Late
<1>1. CASE ConverseStub
  BY <1>1 DEF ConverseStub, StubHeader, StubRequest, StubNoLine, StubEnd, StubUnknown,
              WaitForChild, WaitForNobody, WaitExitString, terminal
<1>2. CASE ConverseSU
  BY <1>2 DEF ConverseSU, SuExec, SuRefused, SuHeader, SuReadsPrompt, SuMoreOutput,
              SuNeedsPassword, SuPassword, SuChecksStar, SuHandlesStub
<1>3. CASE ConverseSsh
  BY <1>3 DEF ConverseSsh, SshExec, SshNoLine, SshHeader, SshPrompt, SshPassword, SshError,
              SshNewline
<1>. QED
  BY <1>1, <1>2, <1>3 DEF Exec

LEMMA EarlyStep ==
    ASSUME RunType, LetIn, BeforePassword, Conversation, Exec, Active, stub' = stub,
           at \in Early
    PROVE  Conversation'
<1>1. AtHeader /\ Matches /\ Taken /\ prog \in {"stub", "gone"}
  BY DEF Conversation, LetIn
<1>2. /\ stub.at \in {"ask", "read"} /\ stub.i = 1 /\ inp = <<>> /\ Len(stub.values) = 0
      /\ stub'.at = stub.at /\ stub'.i = stub.i /\ stub'.values = stub.values
      /\ stub.values \in Seq(Inputs)
  BY <1>1, StubTypes DEF AtHeader, Taken
<1>3. Whole' = Whole
  BY ExecKeeps DEF Whole
<1>4. Taken'
  BY <1>1, <1>2, <1>3 DEF Taken
<1>5. ~SuPassword /\ ~SshPassword
  BY PasswordTyped DEF Active
<1>6. CASE StubHeader /\ FirstLine = Params[1]
  <2>1. stub.at = "read" /\ HeaderLast
    BY <1>1, <1>2, <1>6, NoHeader DEF AtHeader
  <2>2. ReadLine /\ at' = "talk" /\ inp' = inp \o <<FirstAnswer>>
    <3>1. Params[1] /= None
      BY NoneIsNoName
    <3>. QED
      BY <1>6, <3>1 DEF StubHeader, WriteLines, FirstAnswer
  <2>3. Unread' = <<>>
    BY <1>6, <2>1, <2>2, HeaderFirst, UnreadAfter
  <2>4. inp' = <<FirstAnswer>> /\ Len(<<FirstAnswer>>) = 1 /\ <<FirstAnswer>>[1] = FirstAnswer
    <3>1. FirstAnswer \in Inputs
      BY DEF FirstAnswer, Inputs, Typed
    <3>2. <<FirstAnswer>> \in Seq(Inputs) /\ Len(<<FirstAnswer>>) = 1 /\ <<FirstAnswer>>[1] = FirstAnswer
      BY <3>1, One
    <3>. QED
      BY <1>2, <2>2, <3>2, ConcatEmptySeq
  <2>5. Matches'
    <3>1. CASE FirstAnswer = "ok"
      <4>1. inp'[1] = Whole[1] /\ Len(inp') = 1
        BY <2>4, <3>1, WholeFacts DEF Composes
      <4>2. Agrees(stub'.values, inp', Whole)
        BY <1>2, <4>1 DEF Agrees
      <4>. QED
        BY <1>3, <4>2 DEF Matches
    <3>2. CASE FirstAnswer = "stop"
      BY <1>2, <2>1, <2>4, <3>2 DEF Matches
    <3>. QED
      BY <3>1, <3>2 DEF FirstAnswer
  <2>6. InTurn'
    BY <1>2, <2>1, <2>3, <2>4 DEF InTurn
  <2>. QED
    BY <1>4, <2>2, <2>5, <2>6 DEF Conversation, Early, Late
<1>7. CASE /\ at' \in Early \cup Late /\ inp' = inp
           /\ \/ at' \in Late
              \/ ReadLine /\ FirstLine /= Params[1]
              \/ UnreadLine
              \/ UNCHANGED <<buf, out>>
  <2>1. Matches'
    BY <1>1, <1>2, <1>3, <1>7 DEF Matches
  <2>2. LeftAlone'
    BY <1>2, <1>7 DEF LeftAlone
  <2>3. ASSUME at' \notin Late
        PROVE  AtHeader'
    <3>1. CASE stub.at = "ask"
      <4>1. buf \in Seq(Foreign) /\ out \in Seq(Foreign)
        BY <1>1, <3>1 DEF AtHeader
      <4>2. Unread \in Seq(Foreign) /\ AfterFirst \in Seq(Foreign) /\ <<>> \in Seq(Foreign)
        <5>1. Unread \in Seq(Foreign)
          BY <4>1 DEF Unread
        <5>. QED
          BY <5>1, FirstAndRest, EmptySeq
      <4>3. buf' \in Seq(Foreign) /\ out' \in Seq(Foreign)
        BY <1>7, <2>3, <4>1, <4>2 DEF ReadLine, UnreadLine
      <4>. QED
        BY <1>2, <1>7, <3>1, <4>3 DEF AtHeader
    <3>2. CASE stub.at = "read"
      <4>1. HeaderLast
        BY <1>1, <3>2 DEF AtHeader
      <4>2. ASSUME ReadLine, FirstLine /= Params[1]
            PROVE  HeaderLast'
        <5>1. PICK l \in Seq(Foreign) : AfterFirst = l \o <<Params[1]>>
          BY <4>1, <4>2, HeaderStays
        <5>2. Unread' = AfterFirst
          BY <4>2, UnreadAfter
        <5>. QED
          BY <5>1, <5>2 DEF HeaderLast
      <4>3. ASSUME UnreadLine \/ UNCHANGED <<buf, out>>
            PROVE  HeaderLast'
        <5>1. PICK l \in Seq(Foreign) : Unread = l \o <<Params[1]>>
          BY <4>1 DEF HeaderLast
        <5>2. Unread' = Unread
          BY <4>3, UnreadAfter
        <5>. QED
          BY <5>1, <5>2 DEF HeaderLast
      <4>4. HeaderLast'
        <5>1. (ReadLine /\ FirstLine /= Params[1]) \/ UnreadLine \/ UNCHANGED <<buf, out>>
          BY <1>7, <2>3
        <5>. QED
          BY <4>2, <4>3, <5>1
      <4>. QED
        BY <1>2, <1>7, <3>2, <4>4 DEF AtHeader
    <3>. QED
      BY <1>2, <3>1, <3>2
  <2>. QED
    BY <1>4, <1>7, <2>1, <2>2, <2>3 DEF Conversation, Early, Late
<1>. QED
  BY <1>5, <1>6, <1>7, EarlyExec DEF Active

\* Exec() and the stub in turn: there is something to be read only when the
\* stub has asked or come to its end.
LEMMA TurnRead ==
    ASSUME RunType, Conversation, Active, LetIn, at = "talk", Readable
    PROVE  /\ inp = <<>> /\ Matches /\ Taken
           /\ \/ stub.at = "read" /\ stub.i > 1 /\ Unread = <<Params[stub.i]>>
              \/ stub.at = "read" /\ Unread = <<"unknown">>
              \/ /\ stub.at = "variables" /\ Unread = <<"environment">>
                 /\ Len(stub.values) = Len(Params)
              \/ stub.at \in {"setup", "command"} /\ Unread = <<"end">>
<1>1. InTurn /\ Matches /\ Taken
  BY DEF Conversation
<1>2. Unread /= <<>>
  BY DEF Readable, TerminalClosed, StubOver, Active
<1>. QED
  BY <1>1, <1>2 DEF InTurn

\* The names of parameters and what else the stub prints are different.
LEMMA Requests ==
    /\ \A i \in 2 .. Len(Params) :
          /\ Params[i] \in ToSet(Tail(Params))
          /\ Params[i] \notin {"environment", "end", "unknown", None}
    /\ ToSet(Tail(Params)) \cap {"environment", "end", "unknown", None} = {}
<1>1. Params \in Seq(STRING) /\ Len(Params) \in Nat \ {0} /\ Params /= <<>>
  BY ParamFacts, StubAssumption
<1>2. ASSUME NEW i \in 1 .. Len(Params)
      PROVE  Params[i] \notin {"environment", "end", "unknown", None}
  <2>1. Params[i] \notin Printed /\ Params[i] \in ToSet(Params)
    BY <1>1, ParamFacts DEF ToSet
  <2>. QED
    BY <2>1, StubAssumption DEF Printed
<1>3. ASSUME NEW l \in ToSet(Tail(Params))
      PROVE  l \notin {"environment", "end", "unknown", None}
  <2>1. PICK j \in DOMAIN Tail(Params) : l = Tail(Params)[j]
    BY DEF ToSet
  <2>2. j + 1 \in 1 .. Len(Params) /\ l = Params[j + 1]
    BY <1>1, <2>1
  <2>. QED
    BY <1>2, <2>2
<1>4. ASSUME NEW i \in 2 .. Len(Params)
      PROVE  Params[i] \in ToSet(Tail(Params)) /\ i \in 1 .. Len(Params)
  <2>1. i \in 1 .. Len(Params) /\ i > 1
    BY <1>1
  <2>. QED
    BY <2>1, ParamFacts
<1>. QED
  BY <1>2, <1>3, <1>4

LEMMA RequestStep ==
    ASSUME RunType, LetIn, Conversation, Active, StubRequest
    PROVE  Conversation'
<1>1. /\ at = "talk" /\ Readable /\ ReadLine /\ at' = at /\ stub' = stub /\ env' = env
      /\ FirstLine \in ToSet(Tail(Params)) \cup {"environment"}
      /\ inp' = inp \o AnswerTo(FirstLine)
  BY DEF StubRequest, WriteLines, stubVars, job
<1>2. /\ stub'.at = stub.at /\ stub'.i = stub.i /\ stub'.values = stub.values
      /\ Unread' = AfterFirst /\ Whole' = Whole
  BY <1>1, UnreadAfter DEF Whole
<1>3. inp = <<>> /\ Matches /\ Taken
  BY <1>1, TurnRead
<1>4. Taken'
  BY <1>2, <1>3 DEF Taken
<1>5. stub.i \in Nat /\ stub.values \in Seq(Inputs) /\ Len(stub.values) \in Nat
  BY StubTypes
<1>6. CASE stub.at = "read" /\ stub.i > 1 /\ Unread = <<Params[stub.i]>>
  <2>1. FirstLine = Params[stub.i] /\ Unread' = <<>>
    BY <1>2, <1>6, OneLine
  <2>2. stub.i \in 2 .. Len(Params) /\ Len(stub.values) = stub.i - 1
    <3>1. stub.i \in 1 .. Len(Params)
      BY <1>6, StubTypes
    <3>2. Len(stub.values) = stub.i - 1
      BY <1>3, <1>6 DEF Taken
    <3>. QED
      BY <1>6, <3>1, <3>2
  <2>3. AnswerTo(FirstLine) = <<Params[stub.i]>>
    BY <2>1, <2>2, Requests DEF AnswerTo
  <2>4. PICK a \in Inputs : a = Params[stub.i]
    <3>1. stub.i \in DOMAIN Params
      BY <2>2, ParamFacts
    <3>. QED
      BY <3>1 DEF Inputs, Values, ToSet
  <2>5. inp' = <<a>> /\ Len(<<a>>) = 1 /\ <<a>>[1] = a
    <3>1. <<a>> \in Seq(Inputs) /\ Len(<<a>>) = 1 /\ <<a>>[1] = a
      BY One
    <3>2. <<>> \o <<a>> = <<a>>
      BY <3>1, ConcatEmptySeq
    <3>. QED
      BY <1>1, <1>3, <2>3, <2>4, <3>1, <3>2
  <2>6. Agrees(stub.values, inp', Whole)
    <3>1. Whole[stub.i] = Params[stub.i]
      BY <2>2, WholeFacts DEF Composes
    <3>2. Len(stub.values) + 1 = stub.i
      BY <2>2
    <3>3. inp'[1] = Whole[Len(stub.values) + 1] /\ Len(inp') = 1
      BY <2>4, <2>5, <3>1, <3>2
    <3>4. \A j \in 1 .. Len(stub.values) : stub.values[j] = Whole[j]
      <4>1. Agrees(stub.values, inp, Whole)
        <5>1. <<"stop">> /= <<>>
          OBVIOUS
        <5>. QED
          BY <1>3, <5>1 DEF Matches
      <4>. QED
        BY <4>1 DEF Agrees
    <3>. QED
      BY <3>3, <3>4 DEF Agrees
  <2>7. Matches'
    BY <1>2, <2>6 DEF Matches
  <2>8. InTurn'
    BY <1>2, <1>6, <2>1, <2>5 DEF InTurn
  <2>. QED
    BY <1>1, <1>4, <2>7, <2>8 DEF Conversation, Early, Late
<1>7. CASE /\ stub.at = "variables" /\ Unread = <<"environment">>
           /\ Len(stub.values) = Len(Params)
  <2>1. FirstLine = "environment" /\ Unread' = <<>>
    BY <1>2, <1>7, OneLine
  <2>2. PICK z \in Inputs : z = ""
    BY DEF Inputs, Typed
  <2>3. inp' = env \o <<z>>
    <3>1. AnswerTo(FirstLine) = env \o <<z>> /\ env \o <<z>> \in Seq(Inputs)
      BY <2>1, <2>2, EnvInputs, Ended DEF AnswerTo
    <3>. QED
      BY <1>1, <1>3, <3>1, ConcatEmptySeq
  <2>4. /\ Len(env) \in Nat /\ Len(inp') = Len(env) + 1
        /\ \A j \in 1 .. Len(env) : inp'[j] = env[j]
        /\ inp'[Len(env) + 1] = z
    BY <2>3, EnvInputs, Ended
  <2>5. /\ Len(Whole) = Len(Params) + Len(env) + 1
        /\ \A j \in 1 .. Len(env) : Whole[Len(Params) + j] = env[j]
        /\ Whole[Len(Params) + Len(env) + 1] = ""
    BY WholeFacts DEF Composes
  <2>6. Agrees(stub.values, inp', Whole)
    <3>1. ASSUME NEW j \in 1 .. Len(inp')
          PROVE  inp'[j] = Whole[Len(Params) + j]
      <4>1. CASE j \in 1 .. Len(env)
        BY <2>4, <2>5, <4>1
      <4>2. CASE j = Len(env) + 1
        <5>1. Len(Params) + (Len(env) + 1) = Len(Params) + Len(env) + 1
          BY <2>4, ParamFacts
        <5>. QED
          BY <2>2, <2>4, <2>5, <4>2, <5>1
      <4>. QED
        BY <2>4, <4>1, <4>2
    <3>2. \A j \in 1 .. Len(stub.values) : stub.values[j] = Whole[j]
      <4>1. Agrees(stub.values, inp, Whole)
        BY <1>3, <1>7 DEF Matches
      <4>. QED
        BY <4>1 DEF Agrees
    <3>. QED
      BY <1>7, <3>1, <3>2 DEF Agrees
  <2>7. Matches'
    BY <1>2, <2>6 DEF Matches
  <2>8. InTurn'
    <3>1. Len(stub.values) + Len(inp') = Len(Whole)
      <4>1. Len(stub.values) = Len(Params) /\ Len(inp') = Len(env) + 1
        BY <1>7, <2>4
      <4>2. Len(Whole) = Len(Params) + Len(env) + 1 /\ Len(Params) \in Nat /\ Len(env) \in Nat
        BY <2>4, <2>5, ParamFacts
      <4>. QED
        BY <4>1, <4>2
    <3>. QED
      BY <1>2, <1>7, <2>1, <3>1 DEF InTurn
  <2>. QED
    BY <1>1, <1>4, <2>7, <2>8 DEF Conversation, Early, Late
<1>8. CASE Unread = <<"unknown">> \/ Unread = <<"end">>
  BY <1>1, <1>8, OneLine, Requests
<1>. QED
  BY <1>1, <1>6, <1>7, <1>8, TurnRead

\* After its end, or after a request that no stub of this source makes, nobody
\* types anything any more.
LEMMA LastLine ==
    ASSUME RunType, LetIn, Conversation, Active, at = "talk", Readable,
           FirstLine \notin ToSet(Tail(Params)) \cup {"environment"}
    PROVE  /\ inp = <<>> /\ Matches /\ Taken /\ FirstLine /= None
           /\ stub.at \in {"read", "setup", "command"}
<1>1. /\ inp = <<>> /\ Matches /\ Taken
      /\ \/ stub.at = "read" /\ stub.i > 1 /\ Unread = <<Params[stub.i]>>
         \/ stub.at = "read" /\ Unread = <<"unknown">>
         \/ stub.at = "variables" /\ Unread = <<"environment">>
         \/ stub.at \in {"setup", "command"} /\ Unread = <<"end">>
  BY TurnRead
<1>2. FirstLine /= None
  <2>1. <<Params[stub.i]>> /= <<>> /\ <<"unknown">> /= <<>> /\ <<"environment">> /= <<>> /\ <<"end">> /= <<>>
    OBVIOUS
  <2>. QED
    BY <1>1, <2>1, Unreads DEF RunType
<1>3. ~(stub.at = "variables" /\ Unread = <<"environment">>)
  BY OneLine
<1>. QED
  BY <1>1, <1>2, <1>3

LEMMA TalkStep ==
    ASSUME RunType, LetIn, Conversation, Exec, Active, stub' = stub, at = "talk"
    PROVE  Conversation'
<1>1. CASE StubRequest
  BY <1>1, RequestStep
<1>2. CASE StubNoLine \/ StubEnd \/ StubUnknown
  <2>1. Readable /\ FirstLine \notin ToSet(Tail(Params)) \cup {"environment"}
    <3>1. None /= "environment"
      BY StubAssumption DEF Printed
    <3>2. None \notin ToSet(Tail(Params)) /\ "end" \notin ToSet(Tail(Params))
      BY Requests
    <3>. QED
      BY <1>2, <3>1, <3>2 DEF StubNoLine, StubEnd, StubUnknown
  <2>2. /\ inp = <<>> /\ Matches /\ Taken /\ FirstLine /= None
        /\ stub.at \in {"read", "setup", "command"}
    BY <2>1, LastLine
  <2>3. at' = "wait" /\ inp' = inp
    BY <1>2, <2>2 DEF StubNoLine, StubEnd, StubUnknown, Wait
  <2>4. Whole' = Whole
    BY ExecKeeps DEF Whole
  <2>5. Matches' /\ Taken'
    BY <2>2, <2>3, <2>4 DEF Matches, Taken
  <2>6. LeftAlone'
    BY <2>2, <2>3 DEF LeftAlone
  <2>. QED
    BY <2>3, <2>5, <2>6 DEF Conversation, Early
<1>. QED
  BY <1>1, <1>2, TalkExec

LEMMA LateStep ==
    ASSUME RunType, Conversation, Exec, Active, stub' = stub, at \in Late
    PROVE  Conversation'
<1>1. at' \in Late /\ inp' = inp
  BY LateExec
<1>2. Matches /\ Taken /\ LeftAlone
  BY DEF Conversation
<1>3. Whole' = Whole
  BY ExecKeeps DEF Whole
<1>4. Matches' /\ Taken' /\ LeftAlone'
  BY <1>1, <1>2, <1>3 DEF Matches, Taken, LeftAlone
<1>. QED
  BY <1>1, <1>4 DEF Conversation, Early, Late

LEMMA ConversationStep ==
    ASSUME VariablesSay, RunType, LetIn, BeforePassword, Untyped, Conversation, [Next]_vars
    PROVE  Conversation'
<1>1. CASE Exec
  <2>1. SUFFICES ASSUME Active'
                 PROVE  Conversation'
    BY DEF Conversation
  <2>2. stub' = stub /\ Active
    BY <1>1, <2>1, ExecKills DEF Active, NoStub
  <2>3. at \in Early \cup {"talk"} \cup Late
    BY DEF RunType, TypeOK, Early, Late
  <2>. QED
    BY <1>1, <2>2, <2>3, EarlyStep, TalkStep, LateStep
<1>2. CASE Program
  <2>1. CASE ProgStartsStub
    BY <2>1, StartStep
  <2>2. CASE ~ProgStartsStub
    <3>1. ~Active'
      BY <1>2, <2>2 DEF Program, ProgFails, ProgNotice, ProgPrompt, ProgEchoOff, ProgAccepts,
         ProgRefuses, ProgTimeout, ProgForwards, ProgDisconnected, ProgEnds, stubVars, NoStub,
         Before, LetIn, Active, StubOver
    <3>. QED
      BY <3>1 DEF Conversation
  <2>. QED
    BY <2>1, <2>2
<1>3. CASE Stub
  BY <1>3, StubTalks
<1>4. CASE UNCHANGED vars
  BY <1>4 DEF vars, job, terminal, external, stubVars, process, Conversation, Active, Matches,
              Taken, InTurn, AtHeader, HeaderLast, LeftAlone, Whole, Unread
<1>5. CASE Signals
  <2>1. CASE stub' = stub
    BY <1>5, <2>1, SignalsDo DEF Conversation, Active, Matches, Taken, InTurn, AtHeader, HeaderLast,
       LeftAlone, Whole, Unread
  <2>2. CASE stub' = NoStub \/ stub' = [stub EXCEPT !.at = "killed"]
    <3>1. ~Active'
      BY <2>2 DEF Active, NoStub, RunType, StubType, StubStates
    <3>. QED
      BY <3>1 DEF Conversation
  <2>. QED
    BY <1>5, <2>1, <2>2, SignalsDo
<1>. QED
  BY <1>1, <1>2, <1>3, <1>4, <1>5 DEF Next

-----------------------------------------------------------------------------
(* The theorem.                                                              *)

TalkInv == AuthInv /\ Untyped /\ Conversation

LEMMA TalkInit == Init => TalkInv
<1>1. ASSUME Init
      PROVE  Untyped /\ Conversation
  <2>1. inp = <<>> /\ stub.at = "none"
    BY <1>1 DEF Init, NoStub
  <2>. QED
    BY <2>1 DEF Untyped, Conversation, Active
<1>. QED
  BY <1>1, AuthInit DEF TalkInv

LEMMA TalkInvStep == QuietNotices /\ VariablesSay /\ TalkInv /\ [Next]_vars => TalkInv'
BY AuthStep, UntypedStep, ConversationStep DEF TalkInv, AuthInv

\* v is w without its last element.
WithoutLast(v, w) ==
    /\ Len(v) = Len(w) - 1
    /\ \A j \in 1 .. Len(v) : v[j] = w[j]

LEMMA ButLast ==
    ASSUME NEW S, NEW s \in Seq(S), NEW g \in Seq(S), Len(g) = 1,
           NEW w, w = s \o g, NEW v \in Seq(S), WithoutLast(v, w)
    PROVE  v = s
<1>. USE DEF WithoutLast
<1>1. /\ Len(s) \in Nat /\ Len(s \o g) = Len(s) + Len(g)
      /\ \A j \in 1 .. Len(s) : (s \o g)[j] = s[j]
  BY Joined
<1>2. Len(v) = Len(s)
  <2>1. Len(s \o g) = Len(s) + 1
    BY <1>1
  <2>. QED
    BY <1>1, <2>1
<1>3. \A j \in 1 .. Len(s) : v[j] = s[j]
  BY <1>1, <1>2
<1>. QED
  BY <1>2, <1>3, SeqEqual

LEMMA WholeParts ==
    ASSUME RunType
    PROVE  /\ <<"ok">> \o Tail(Params) \in Seq(Inputs)
           /\ <<"">> \in Seq(Inputs) /\ Len(<<"">>) = 1
<1>1. PICK a \in Inputs : a = "ok"
  BY DEF Inputs, Typed
<1>2. PICK z \in Inputs : z = ""
  BY DEF Inputs, Typed
<1>3. Params \in Seq(Inputs) /\ Params /= <<>>
  BY ParamInputs, StubAssumption
<1>4. <<a>> \o Tail(Params) \in Seq(Inputs)
  BY <1>3, Fronted
<1>5. <<z>> \in Seq(Inputs) /\ Len(<<z>>) = 1
  BY One
<1>. QED
  BY <1>1, <1>2, <1>4, <1>5

LEMMA AllTaken ==
    ASSUME TalkInv
    PROVE  ValuesMatch
<1>1. SUFFICES ASSUME stub.at \in {"setup", "command"}
               PROVE  stub.values = <<"ok">> \o Tail(Params) \o env /\ inp = <<>>
  BY DEF ValuesMatch
<1>2. RunType /\ Active /\ Conversation
  BY <1>1 DEF TalkInv, AuthInv, Active
<1>3. inp = <<>> /\ Matches /\ Taken
  <2>1. at \in Early \cup {"talk"} \cup Late
    BY <1>2 DEF RunType, TypeOK, Early, Late
  <2>. QED
    BY <1>1, <1>2, <2>1 DEF Conversation, InTurn, AtHeader, LeftAlone
<1>4. /\ Len(stub.values) = Len(Whole) - 1 /\ stub.values \in Seq(Inputs)
      /\ \A j \in 1 .. Len(stub.values) : stub.values[j] = Whole[j]
  <2>1. Agrees(stub.values, inp, Whole)
    BY <1>1, <1>3 DEF Matches
  <2>. QED
    BY <1>1, <1>2, <1>3, <2>1, StubTypes DEF Taken, Agrees
<1>. DEFINE F == <<"ok">> \o Tail(Params)
<1>5. stub.values = F \o env
  <2>1. PICK f \in Seq(Inputs) : f = F
    BY <1>2, WholeParts
  <2>2. PICK g \in Seq(Inputs) : g = <<"">>
    BY <1>2, WholeParts
  <2>3. env \in Seq(Inputs)
    BY <1>2, EnvInputs
  <2>4. Len(g) = 1
    BY <1>2, <2>2, WholeParts
  <2>5. Whole = (f \o env) \o g
    <3>1. Whole = f \o (env \o g)
      BY <2>1, <2>2 DEF Whole
    <3>. QED
      BY <2>3, <3>1, ConcatAssociative
  <2>6. PICK s \in Seq(Inputs) : s = f \o env
    <3>1. f \o env \in Seq(Inputs)
      BY <2>3
    <3>. QED
      BY <3>1, Zenon
  <2>7. Whole = s \o g
    BY <2>5, <2>6
  <2>8. stub.values = s
    <3>1. WithoutLast(stub.values, Whole)
      BY <1>4 DEF WithoutLast
    <3>. QED
      BY <1>4, <2>4, <2>7, <3>1, ButLast
  <2>. QED
    BY <2>1, <2>6, <2>8
<1>. QED
  BY <1>3, <1>5

\* If besides an additional variable is never an empty line, which would end the
\* list, the stub has taken for each parameter the value of that parameter when
\* it starts the command, then every variable, and nothing is left for the
\* command to read (kdesu_stub.c:205-237, stubprocess.cpp:140-219).
THEOREM ValuesMatchHolds ==
    ASSUME QuietNotices, VariablesSay
    PROVE  Spec => []ValuesMatch
<1>1. Spec => []TalkInv
  BY TalkInit, TalkInvStep, PTL DEF Spec
<1>2. TalkInv => ValuesMatch
  BY AllTaken
<1>. QED
  BY <1>1, <1>2, PTL
===============================================================================
