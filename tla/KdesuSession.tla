----------------------------- MODULE KdesuSession -----------------------------
(***************************************************************************)
(* Clients of the daemon: class Client (client.cpp) talks to kdesud over   *)
(* one connection, sends a command and blocks in one recv() for the reply. *)
(* A client may also go away at any moment, and a program that does not    *)
(* use the class may send its next command before it has the reply to the  *)
(* last one (the connections in Pipelining).                               *)
(***************************************************************************)
EXTENDS Kdesud

CONSTANTS
    Requests,     \* Requests[c]: the commands client c sends, as records
    MaxRequests,  \* MaxRequests[c]: how many client c sends at most
    Pipelining,
    OneJob,       \* TRUE: nobody sends EXEC again once a command was launched
    Terminated    \* TRUE: somebody may end the daemon with a signal

\* What clients send, and what a ConnectionHandler takes from it.
Sent == UNION {Requests[c] : c \in Conns}
Asked(op) == {r \in Sent : r.op = op}

TimeoutsSent == {0} \cup {r.timeout : r \in Asked("PASS") \cup Asked("SET")}
HostsSent == {Null} \cup {r.host : r \in Asked("HOST")}
PrioritiesSent == {NormalPriority} \cup {r.priority : r \in Asked("PRIO")}
SchedulersSent == {SchedNormal} \cup {r.scheduler : r \in Asked("SCHD")}

Results == Conns \X Nat

HandlerStates ==
    [conn : Conns, pass : Values \cup {Null}, timeout : TimeoutsSent, host : HostsSent,
     priority : PrioritiesSent, scheduler : SchedulersSent,
     exitCode : Results \cup {None}, hasExitCode : BOOLEAN, needExitCode : BOOLEAN,
     pid : Pids \cup {None}, jobs : Nat]

\* The store has room for what the commands put into it.
ASSUME RequestsAssumption ==
    /\ TimeoutsSent \subseteq Nat
    /\ \A r \in Asked("PASS") : r.pass \in Values
    /\ \A r \in Asked("SET") :
          VarKey(r.name) \in Keys /\ r.value \in Values /\ r.group \in Groups
    /\ \A r \in Asked("EXEC") :
          /\ r.env \in Values
          /\ \A ns \in {0, 2}, h \in HostsSent, u \in {r.user, Root} :
                MakeKey(ns, h, u, r.command) \in Keys

\* None is told apart from what it stands beside.
ASSUME NoneAssumption ==
    None \notin HandlerStates \cup Pids \cup Results \cup {"EXIT"} \cup {r.op : r \in Sent}

VARIABLES
    waiting,      \* waiting[c]: the command whose reply the client awaits, or None
    sent          \* sent[c]: how many commands; how many EXECs were answered OK

clientVars == <<waiting, sent>>
vars == <<daemonVars, clientVars>>

SessionInit ==
    /\ Init
    /\ waiting = [c \in Conns |-> None]
    /\ sent = [c \in Conns |-> [count |-> 0, launched |-> 0]]

\* connect(): the socket exists until the daemon's cleanup unlinks it.
Connect(c) ==
    /\ peer[c] = "idle" /\ mode /= "exited"
    /\ peer' = [peer EXCEPT ![c] = "open"]
    /\ backlog' = Append(backlog, c)
    /\ UNCHANGED <<inbox, outbox, procVars, timeVars, loopVars, handler, work,
                   storeVars, clientVars>>

\* The send() of command(): it fails, and the client goes on, once the stream
\* is gone.
Send(c, r) ==
    /\ peer[c] = "open" /\ ~Gone(c)
    /\ waiting[c] = None \/ c \in Pipelining
    /\ sent[c].count < MaxRequests[c]
    /\ OneJob /\ sent[c].launched > 0 => r.op /= "EXEC"
    /\ inbox' = [inbox EXCEPT ![c] = Append(@, r)]
    /\ waiting' = [waiting EXCEPT ![c] = r.op]
    /\ sent' = [sent EXCEPT ![c].count = @ + 1]
    /\ UNCHANGED <<backlog, peer, outbox, procVars, timeVars, loopVars, handler, work,
                   storeVars>>

\* The recv() of command(): whatever has arrived is taken for one reply.
Receive(c) ==
    /\ peer[c] = "open" /\ waiting[c] /= None
    /\ outbox[c] /= <<>>
    /\ outbox' = [outbox EXCEPT ![c] = <<>>]
    /\ waiting' = [waiting EXCEPT ![c] = None]
    /\ sent' = IF waiting[c] = "EXEC" /\ Head(outbox[c]).ok
               THEN [sent EXCEPT ![c].launched = @ + 1] ELSE sent
    /\ UNCHANGED <<netVars, procVars, timeVars, loopVars, handler, work, storeVars>>

\* recv() returns 0: "no reply from daemon".
ReceiveEof(c) ==
    /\ peer[c] = "open" /\ waiting[c] /= None
    /\ outbox[c] = <<>> /\ Gone(c)
    /\ waiting' = [waiting EXCEPT ![c] = None]
    /\ UNCHANGED <<daemonVars, sent>>

\* ~Client(), or the end of the client's process.
Close(c) ==
    /\ peer[c] = "open"
    /\ peer' = [peer EXCEPT ![c] = "closed"]
    /\ outbox' = [outbox EXCEPT ![c] = <<>>]
    /\ waiting' = [waiting EXCEPT ![c] = None]
    /\ UNCHANGED <<backlog, inbox, procVars, timeVars, loopVars, handler, work,
                   storeVars, sent>>

\* setPass(), exec(), exitCode() and the others format a command and send it.
Calls(c) == \E r \in Requests[c] : Send(c, r)

Client(c) ==
    \/ Connect(c)
    \/ Calls(c)
    \/ Receive(c)
    \/ ReceiveEof(c)
    \/ Close(c)

Next ==
    \/ Daemon /\ UNCHANGED clientVars
    \/ Kernel /\ UNCHANGED clientVars
    \/ Terminated /\ SignalExit /\ UNCHANGED clientVars
    \/ \E c \in Conns : Client(c)

\* The daemon runs, signals arrive, and a client that waits reads.  Nothing is
\* assumed of what clients choose to do, of time or of SIGTERM; that a child
\* ends is stated apart.
DaemonFairness ==
    /\ WF_vars(Daemon /\ UNCHANGED clientVars)
    /\ WF_vars(SigChld /\ UNCHANGED clientVars)
    /\ \A c \in Conns : WF_vars(Receive(c)) /\ WF_vars(ReceiveEof(c))

ChildFairness ==
    \A p \in Pids : WF_vars(ChildExit(p) /\ UNCHANGED clientVars)

Safe == SessionInit /\ [][Next]_vars
Spec == Safe /\ DaemonFairness /\ ChildFairness

-----------------------------------------------------------------------------
(* Properties of a conversation.                                             *)

\* Client::command() takes whatever its recv() returns for the reply to the
\* command it sent.  That is right only if replies never pile up and never
\* come unasked, although the answer to EXIT is sent from another place of the
\* daemon at another time (client.cpp:181-209, kdesud.cpp:486).
RepliesMatch ==
    \A c \in Conns \ Pipelining :
        peer[c] = "open" =>
            \/ outbox[c] = <<>>
            \/ Len(outbox[c]) = 1 /\ outbox[c][1].to = waiting[c]

\* exitCode() is to "wait for the last command to exit and return the exit code"
\* (client.h:76-80): what it reads is an answer to EXIT, and the status in it that
\* of the last command the client launched.  A reply nobody asked for would shift
\* all that follow (handler.cpp:113-118, 510, kdesud.cpp:486).
ExitIsOfLastCommand ==
    \A c \in Conns \ Pipelining :
        /\ waiting[c] = "EXIT" /\ outbox[c] /= <<>> => Head(outbox[c]).to = "EXIT"
        /\ \A reply \in ToSet(outbox[c]) :
              reply.to = "EXIT" => reply.status = <<c, sent[c].launched>>

\* A client that waits gets its reply or an end of file, whatever the others
\* do.  An EXIT on a connection that launched nothing is left out: nothing ever
\* answers it.
CommandsReturn ==
    \A c \in Conns :
        (waiting[c] /= None /\ (waiting[c] = "EXIT" => sent[c].launched > 0))
            ~> (waiting[c] = None)

\* After DEL the password that EXEC of the same command for the same user would
\* take is gone, if the connection has the priority and scheduler it began with
\* (handler.cpp:339-361; EXEC files the password under another user otherwise).
DelForgetsOwn ==
    [][Del /\ AuthUser(handler[Fd], Command.user) = Command.user
         => PassKey \notin Stored(repo')]_vars
===============================================================================
