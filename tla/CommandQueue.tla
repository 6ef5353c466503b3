----------------------------- MODULE CommandQueue -----------------------------
(***************************************************************************)
(* What a connection to kdesud promises the program that uses it: calls    *)
(* are executed once each, in their order and with their arguments, a      *)
(* variable that was set is what is read, and the result of a call is the  *)
(* answer that was given to it.  Lines, buffers and bytes do not exist.    *)
(***************************************************************************)
EXTENDS Integers, Sequences

CONSTANTS
    Calls,        \* what can be called
    Unspeakable,  \* calls that cannot be expressed; they arrive as Malformed
    Malformed,    \* a call nobody understands
    Unknown,      \* a command nobody knows
    Set, Get, Unset, Stop,    \* four of the commands
    Answers,      \* what the others may be answered
    Unreadable,   \* answers that do not survive the way back
    Failed        \* what a call returns that has no answer, or NO for one

VARIABLES
    last,       \* the last call made
    queue,      \* calls made and not executed
    store,      \* the variables
    answers,    \* answers given and not returned
    result,     \* of the last call that returned
    open,
    inStep,     \* no unreadable answer was returned
    reader      \* the program takes one answer after each call

vars == <<last, queue, store, answers, result, open, inStep, reader>>

Names == {call.strings[1] : call \in {c \in Calls : c.op \in {Set, Get, Unset}}}

Init ==
    /\ last = Unknown /\ queue = <<>> /\ answers = <<>>
    /\ store = [n \in Names |-> <<>>]
    /\ result = Failed
    /\ open = TRUE /\ inStep = TRUE
    /\ reader \in BOOLEAN

Call ==
    /\ open
    /\ last' \in Calls
    /\ queue' = Append(queue, IF last' \in Unspeakable THEN Malformed ELSE last')
    /\ UNCHANGED <<store, answers, result, open, inStep, reader>>

\* A program that writes its lines itself can say what others cannot express.
Say ==
    /\ ~reader /\ open
    /\ last' \in Calls
    /\ queue' = Append(queue, last')
    /\ UNCHANGED <<store, answers, result, open, inStep, reader>>

AnswersTo(call) ==
    IF call.op = Get
    THEN {a \in Answers : a.text = store[call.strings[1]] /\ (a.ok <=> a.text /= <<>>)}
    ELSE Answers

StoreAfter(call) ==
    CASE call.op = Set   -> [store EXCEPT ![call.strings[1]] = call.strings[2]]
      [] call.op = Unset -> [store EXCEPT ![call.strings[1]] = <<>>]
      [] OTHER           -> store

\* The oldest call that was not executed yet.
Execute ==
    /\ queue /= <<>> /\ Head(queue) \notin {Malformed, Unknown}
    /\ \E a \in AnswersTo(Head(queue)) : answers' = Append(answers, a)
    /\ store' = StoreAfter(Head(queue))
    /\ open' = (Head(queue).op /= Stop)
    /\ queue' = IF open' THEN Tail(queue) ELSE <<>>
    /\ UNCHANGED <<last, result, inStep, reader>>

\* The connection ends; what is not known may be answered.
HangUp ==
    /\ open
    /\ open' = FALSE
    /\ queue' = <<>>
    /\ \/ UNCHANGED answers
       \/ queue /= <<>> /\ Head(queue) = Unknown /\ answers' = Append(answers, Failed)
    /\ UNCHANGED <<last, store, result, inStep, reader>>

Return ==
    /\ answers /= <<>>
    /\ answers' = Tail(answers)
    /\ inStep' = (inStep /\ Head(answers) \notin Unreadable)
    /\ inStep' => result' = Head(answers)
    /\ UNCHANGED <<last, queue, store, open, reader>>

\* Nobody is left to answer.
EndOfFile ==
    /\ ~open /\ answers = <<>>
    /\ result' = Failed
    /\ UNCHANGED <<last, queue, store, answers, open, inStep, reader>>

\* A program that reads its answers in another way.
Drain ==
    /\ ~reader
    /\ answers' = <<>>
    /\ UNCHANGED <<last, queue, store, result, open, inStep, reader>>

\* What is left over of an answer that was too long.
Astray ==
    /\ ~inStep
    /\ UNCHANGED <<last, queue, store, answers, open, inStep, reader>>

Next ==
    \/ Call
    \/ Say
    \/ Execute
    \/ HangUp
    \/ Return
    \/ EndOfFile
    \/ Drain
    \/ Astray

Spec == Init /\ [][Next]_vars
===============================================================================
