-------------------------------- MODULE Kdesud --------------------------------
(***************************************************************************)
(* The daemon kdesud: the select() loop of main() (kdesud.cpp), the        *)
(* command handlers of ConnectionHandler (handler.cpp), and what the       *)
(* kernel does around them: the listening socket, one stream per           *)
(* connection, child processes, SIGCHLD and the self-pipe.                 *)
(*                                                                         *)
(* The daemon is one thread, but the kernel and the clock move between any *)
(* two of its system calls, so each system call that looks at or changes   *)
(* shared state is a step of its own.  A command is one message (framing   *)
(* is abstracted: a read may stop after any command); the result of a      *)
(* child is the pair of its connection and its ordinal there, so a reply   *)
(* says whose exit code it carries.                                        *)
(*                                                                         *)
(* As in RepositoryOps, ...Slip names a plausible mistake in the operator  *)
(* after it.                                                               *)
(*                                                                         *)
(* Module KdesuSession adds the clients and the next-state relation.       *)
(***************************************************************************)
EXTENDS RepositoryOps, SequencesExt

CONSTANTS
    Conns,       \* connections, each made at most once
    Foreign,     \* those of them made by another user
    ConnFds,     \* descriptors that accept() can return
    Pids,        \* process ids: one is free again once it has been reaped
    None,        \* no handler, no pid, no status
    Root,        \* the user "root"
    NormalPriority, SchedNormal,      \* 50 and SuProcess::SchedNormal
    PipeRead,    \* bytes one read() of the pipe takes (100 in the code)
    MaxTime      \* bound on the clock

SockFd == 3      \* main() moves the listening socket to descriptor 3
PipeFd == 4      \* pipeOfDeath[0]; pipeOfDeath[1] is 5

ASSUME KdesudAssumption ==
    /\ Foreign \subseteq Conns
    /\ ConnFds \subseteq Nat /\ \A fd \in ConnFds : fd > PipeFd
    /\ PipeRead \in Nat \ {0}
    /\ MaxTime \in Nat

VARIABLES
    backlog,     \* connections that wait for accept()
    peer,        \* the client's end: "idle", "open" or "closed"
    inbox,       \* inbox[c]: commands sent and not yet received
    outbox,      \* outbox[c]: replies sent and not yet read
    kid,         \* kid[p]: the child processes
    sigchld,     \* SIGCHLD is pending (signals of one kind coalesce)
    pipe,        \* bytes in the self-pipe
    clock,       \* time(nullptr)
    mode,        \* where main() is: "select", "pass", "reap", "handle", "exited"
    tmp_fds,     \* ready descriptors the current pass has still to serve
    active_fds,  \* connection descriptors in the set select() watches
    handlerSize, \* handler.size()
    handler,     \* handler[fd]: a ConnectionHandler or None
    work,        \* complete commands in m_Buf, being executed
    repo,        \* the password and variable store
    swept,       \* history: the clock at the last expire()
    storedFor    \* history: the environment a password was stored with

netVars == <<backlog, peer, inbox>>
procVars == <<kid, sigchld, pipe>>
timeVars == <<clock, swept>>
loopVars == <<mode, tmp_fds, active_fds, handlerSize>>
storeVars == <<repo, storedFor>>
daemonVars == <<netVars, outbox, procVars, timeVars, loopVars, handler, work, storeVars>>

-----------------------------------------------------------------------------
(* Helpers.                                                                  *)

Fd == Min(tmp_fds)      \* the loop serves ready descriptors in ascending order
Conn == handler[Fd].conn

\* A ConnectionHandler as its constructor leaves it.  m_Timeout has no initial
\* value; it is read only after PASS has set it.  "jobs" counts the children.
NewHandler(c) ==
    [conn |-> c, pass |-> Null, timeout |-> 0, host |-> Null,
     priority |-> NormalPriority, scheduler |-> SchedNormal,
     exitCode |-> None, hasExitCode |-> FALSE, needExitCode |-> FALSE,
     pid |-> None, jobs |-> 0]

NoProcess == [state |-> "none", status |-> None, holds |-> {}]

Accepted == {handler[fd].conn : fd \in {f \in ConnFds : handler[f] /= None}}

\* send() to a client that is gone fails with EPIPE (SIGPIPE is ignored).  Else it
\* takes the whole reply: one that the socket's buffer has no room for would be cut
\* or lost, as the descriptor is non-blocking and nobody looks at the result.
Posted(box, c, reply) ==
    IF peer[c] = "open" THEN [box EXCEPT ![c] = Append(@, reply)] ELSE box

ExitReply(h) == [to |-> "EXIT", ok |-> TRUE, status |-> h.exitCode]

\* sendExitCode()
ExitPostedSlip(box, h) == Posted(box, h.conn, ExitReply(h))      \* asked or not

ExitPosted(box, h) ==
    IF h.needExitCode THEN Posted(box, h.conn, ExitReply(h)) ELSE box

\* A child runs in a copy of the daemon that keeps every connection of the
\* moment of fork() open; the client sees an end of file only when all are gone.
Running == {p \in Pids : kid[p].state = "running"}

Gone(c) ==
    /\ c \notin Accepted
    /\ c \in ToSet(backlog) => mode = "exited" /\ Running = {}
    /\ \A p \in Running : c \notin kid[p].holds

Init ==
    /\ backlog = <<>>
    /\ peer = [c \in Conns |-> "idle"]
    /\ inbox = [c \in Conns |-> <<>>]
    /\ outbox = [c \in Conns |-> <<>>]
    /\ kid = [p \in Pids |-> NoProcess]
    /\ sigchld = FALSE
    /\ pipe = 0
    /\ clock = 0
    /\ mode = "select"
    /\ tmp_fds = {}
    /\ active_fds = {}
    /\ handlerSize = 0
    /\ handler = [fd \in ConnFds |-> None]
    /\ work = <<>>
    /\ repo = EmptyRepository
    /\ swept = 0
    /\ storedFor = [k \in Keys |-> None]

-----------------------------------------------------------------------------
(* The kernel: time, child exits, signal delivery.                           *)

Tick ==
    /\ clock < MaxTime
    /\ clock' = clock + 1
    /\ UNCHANGED <<netVars, outbox, procVars, swept, loopVars, handler, work, storeVars>>

ChildExit(p) ==
    /\ p \in Running
    /\ IF mode = "exited"
       THEN kid' = [kid EXCEPT ![p] = NoProcess] /\ UNCHANGED sigchld
       ELSE kid' = [kid EXCEPT ![p].state = "zombie", ![p].holds = {}] /\ sigchld' = TRUE
    /\ UNCHANGED <<netVars, outbox, pipe, timeVars, loopVars, handler, work, storeVars>>

\* sigchld_handler() interrupts the daemon anywhere and writes one byte.
SigChld ==
    /\ sigchld /\ mode /= "exited"
    /\ sigchld' = FALSE
    /\ pipe' = pipe + 1
    /\ UNCHANGED <<netVars, outbox, kid, timeVars, loopVars, handler, work, storeVars>>

\* The process ends: its descriptors are closed, zombies go to init.
Exits ==
    /\ mode' = "exited"
    /\ tmp_fds' = {} /\ active_fds' = {}
    /\ handler' = [fd \in ConnFds |-> None]
    /\ work' = <<>>
    /\ kid' = [p \in Pids |-> IF p \in Running THEN kid[p] ELSE NoProcess]
    /\ sigchld' = FALSE /\ pipe' = 0
    /\ UNCHANGED <<netVars, timeVars, handlerSize, storeVars>>

\* signal_exit(), and the X11 error handler: at any moment.
SignalExit == mode /= "exited" /\ Exits /\ UNCHANGED outbox

-----------------------------------------------------------------------------
(* The main loop.                                                            *)

Ready ==
    {fd \in {SockFd} : backlog /= <<>>} \cup {fd \in {PipeFd} : pipe > 0} \cup
    {fd \in active_fds : LET c == handler[fd].conn
                         IN  inbox[c] /= <<>> \/ peer[c] = "closed"}

\* select() returns; expire() runs before any descriptor is served.
Select ==
    /\ mode = "select" /\ Ready /= {}
    /\ mode' = "pass"
    /\ tmp_fds' = Ready
    /\ repo' = Expired(repo, clock)
    /\ swept' = clock
    /\ UNCHANGED <<netVars, outbox, procVars, clock, active_fds, handlerSize, handler,
                   work, storedFor>>

EndPass ==
    /\ mode = "pass" /\ tmp_fds = {}
    /\ mode' = "select"
    /\ UNCHANGED <<netVars, outbox, procVars, timeVars, tmp_fds, active_fds, handlerSize,
                   handler, work, storeVars>>

Serving(fds) == mode = "pass" /\ tmp_fds /= {} /\ Fd \in fds

\* accept() returns the lowest free descriptor, or fails when there is none.
FreeFds == {fd \in ConnFds : handler[fd] = None}

Accept ==
    /\ Serving({SockFd}) /\ FreeFds /= {}
    /\ LET fd == Min(FreeFds)
       IN  /\ handler' = [handler EXCEPT ![fd] = NewHandler(Head(backlog))]
           /\ handlerSize' = Max({handlerSize, fd + 1})
           /\ active_fds' = active_fds \cup {fd}
    /\ backlog' = Tail(backlog)
    /\ tmp_fds' = tmp_fds \ {SockFd}
    /\ UNCHANGED <<peer, inbox, outbox, procVars, timeVars, mode, work, storeVars>>

AcceptFails ==
    /\ Serving({SockFd}) /\ FreeFds = {}
    /\ tmp_fds' = tmp_fds \ {SockFd}
    /\ UNCHANGED <<netVars, outbox, procVars, timeVars, mode, active_fds, handlerSize,
                   handler, work, storeVars>>

\* The pipe is emptied before the children are collected.
ReadPipe ==
    /\ Serving({PipeFd})
    /\ pipe' = pipe - Min({pipe, PipeRead})
    /\ mode' = "reap"
    /\ UNCHANGED <<netVars, outbox, kid, sigchld, timeVars, tmp_fds, active_fds,
                   handlerSize, handler, work, storeVars>>

\* waitpid(-1, WNOHANG) returns a child, in any order, until there is none.
ReapedSlip(h, status) ==      \* m_pid is not cleared
    [h EXCEPT !.exitCode = status, !.hasExitCode = TRUE]

Reaped(h, status) ==
    [h EXCEPT !.exitCode = status, !.hasExitCode = TRUE, !.pid = None]

AfterOneSlip == "pass"      \* one waitpid() for each wake-up

AfterOne == "reap"

WaitpidOne(p) ==
    /\ mode = "reap" /\ kid[p].state = "zombie"
    /\ kid' = [kid EXCEPT ![p] = NoProcess]
    /\ LET owners == {fd \in ConnFds : handler[fd] /= None /\ handler[fd].pid = p}
       IN  IF owners = {}
           THEN UNCHANGED <<handler, outbox>>
           ELSE LET fd == Max(owners)      \* the search runs downwards
                    h  == Reaped(handler[fd], kid[p].status)
                IN  /\ handler' = [handler EXCEPT ![fd] = h]
                    /\ outbox' = ExitPosted(outbox, h)
    /\ mode' = AfterOne
    /\ UNCHANGED <<netVars, sigchld, pipe, timeVars, tmp_fds, active_fds, handlerSize,
                   work, storeVars>>

\* No child is left.  There is no "continue" here: main() goes on to look at
\* handler[pipeOfDeath[0]], which is null if handler is that long.
WaitpidNone ==
    /\ mode = "reap" /\ \A p \in Pids : kid[p].state /= "zombie"
    /\ mode' = "pass"
    /\ tmp_fds' = tmp_fds \ {PipeFd}
    /\ UNCHANGED <<netVars, outbox, procVars, timeVars, active_fds, handlerSize, handler,
                   work, storeVars>>

-----------------------------------------------------------------------------
(* ConnectionHandler::handle(): one non-blocking recv(), then the commands   *)
(* it completed, then back to the loop.                                      *)

WatchedSlip(fds) == fds      \* no FD_CLR

Watched(fds) == fds \ {Fd}

\* delete handler[fd] closes the descriptor.
CloseConnection ==
    /\ handler' = [handler EXCEPT ![Fd] = None]
    /\ active_fds' = Watched(active_fds)
    /\ tmp_fds' = tmp_fds \ {Fd}
    /\ mode' = "pass"
    /\ work' = <<>>
    /\ UNCHANGED <<netVars, procVars, timeVars, handlerSize, storeVars>>

\* The tail of inbox[c] stands for a last command whose bytes arrive later.
Recv ==
    /\ Serving(ConnFds)
    /\ \E n \in 1 .. Len(inbox[Conn]) :
          /\ work' = SubSeq(inbox[Conn], 1, n)
          /\ inbox' = [inbox EXCEPT ![Conn] = SubSeq(@, n + 1, Len(@))]
    /\ mode' = "handle"
    /\ UNCHANGED <<backlog, peer, outbox, procVars, timeVars, tmp_fds, active_fds,
                   handlerSize, handler, storeVars>>

\* End of file, or EAGAIN if the descriptor was not ready after all.  EINTR, which
\* a recv() that does not block hardly returns, would leave it for the next pass.
RecvFails ==
    /\ Serving(ConnFds)
    /\ inbox[Conn] = <<>>
    /\ CloseConnection
    /\ UNCHANGED outbox

Handled ==
    /\ mode = "handle" /\ work = <<>>
    /\ mode' = "pass"
    /\ tmp_fds' = tmp_fds \ {Fd}
    /\ UNCHANGED <<netVars, outbox, procVars, timeVars, active_fds, handlerSize, handler,
                   work, storeVars>>

-----------------------------------------------------------------------------
(* ConnectionHandler::doCommand().                                           *)

Command == Head(work)

Executing(op) ==
    /\ mode = "handle" /\ work /= <<>>
    /\ Conn \notin Foreign
    /\ Command.op = op

Reply(ok) == [to |-> Command.op, ok |-> ok, status |-> None]

\* The command is done and was answered; nothing but the store and the handler
\* is touched by the commands that use this.
Answered(ok) ==
    /\ outbox' = Posted(outbox, Conn, Reply(ok))
    /\ work' = Tail(work)
    /\ UNCHANGED <<netVars, procVars, timeVars, loopVars>>

SetHandler(h) == handler' = [handler EXCEPT ![Fd] = h] /\ UNCHANGED storeVars

Pass ==
    /\ Executing("PASS")
    /\ SetHandler([handler[Fd] EXCEPT !.pass = Command.pass, !.timeout = Command.timeout])
    /\ Answered(TRUE)

Host ==
    /\ Executing("HOST")
    /\ SetHandler([handler[Fd] EXCEPT !.host = Command.host])
    /\ Answered(TRUE)

Prio ==
    /\ Executing("PRIO")
    /\ SetHandler([handler[Fd] EXCEPT !.priority = Command.priority])
    /\ Answered(TRUE)

Schd ==
    /\ Executing("SCHD")
    /\ SetHandler([handler[Fd] EXCEPT !.scheduler = Command.scheduler])
    /\ Answered(TRUE)

\* makeKey(): namespace 0 holds passwords, 1 variables, 2 environments.
MakeKey(ns, s1, s2, s3) == <<ns, s1, s2, s3>>
VarKey(name) == MakeKey(1, name, Null, Null)

\* A raised priority or a realtime scheduler takes root's password.
AuthUser(h, user) ==
    IF h.scheduler /= SchedNormal \/ h.priority > 50 THEN Root ELSE user

PassKey == MakeKey(0, handler[Fd].host, AuthUser(handler[Fd], Command.user), Command.command)
EnvKey == MakeKey(2, handler[Fd].host, AuthUser(handler[Fd], Command.user), Command.command)

\* A missing environment entry equals an empty environment (both are Null).
CachedPassSlip ==      \* a missing environment entry is no obstacle
    IF Find(repo, EnvKey) \in {Command.env, Null} THEN Find(repo, PassKey) ELSE Null

CachedPass ==
    IF Find(repo, EnvKey) = Command.env THEN Find(repo, PassKey) ELSE Null

\* fork() fails, or the child runs SuProcess or SshProcess with the password;
\* m_hasExitCode and m_needExitCode stay as they are.
Launched(h, p) == [h EXCEPT !.pid = p, !.jobs = @ + 1]

Fork ==
    \/ /\ UNCHANGED <<kid, handler>>
       /\ outbox' = Posted(outbox, Conn, Reply(FALSE))
    \/ \E p \in {q \in Pids : kid[q].state = "none"} :
          LET h == Launched(handler[Fd], p)
          IN  /\ kid' = [kid EXCEPT ![p] = [state  |-> "running",
                                            status |-> <<Conn, h.jobs>>,
                                            holds  |-> Accepted]]
              /\ handler' = [handler EXCEPT ![Fd] = h]
              /\ outbox' = Posted(outbox, Conn, Reply(TRUE))

Exec ==
    /\ Executing("EXEC")
    /\ work' = Tail(work)
    /\ UNCHANGED <<netVars, sigchld, pipe, swept, loopVars>>

ExecRefused ==
    /\ Exec
    /\ CachedPass = Null /\ handler[Fd].pass = Null
    /\ outbox' = Posted(outbox, Conn, Reply(FALSE))
    /\ UNCHANGED <<kid, handler, clock, storeVars>>

ExecCached ==
    /\ Exec
    /\ CachedPass /= Null
    /\ Fork
    /\ UNCHANGED <<clock, storeVars>>

\* The environment, then the password, each with a time() of its own.
StoredPair(h, later) ==
    Added(Added(repo, EnvKey, Command.env, NoGroup, h.timeout, clock),
          PassKey, h.pass, NoGroup, h.timeout, later)

ExecStore ==
    /\ Exec
    /\ CachedPass = Null /\ handler[Fd].pass /= Null
    /\ clock' \in {t \in {clock, clock + 1} : t <= MaxTime}
    /\ repo' = StoredPair(handler[Fd], clock')
    /\ storedFor' = [storedFor EXCEPT ![PassKey] = Command.env]
    /\ Fork

\* The deletions and SET.
Deleting(op, found, new) ==
    /\ Executing(op)
    /\ repo' = new
    /\ Answered(found)
    /\ UNCHANGED <<handler, storedFor>>

DelKeySlip == MakeKey(2, handler[Fd].host, Command.user, Command.command)

DelKey == MakeKey(0, handler[Fd].host, Command.user, Command.command)

Del == Deleting("DEL", DelKey \in Stored(repo), Removed(repo, DelKey))

DelV == Deleting("DELV", VarKey(Command.name) \in Stored(repo),
                 Removed(repo, VarKey(Command.name)))

DelG == Deleting("DELG", InGroup(repo, Command.group) /= {},
                 WithoutGroup(repo, Command.group))

DelS == Deleting("DELS", MatchSpecial(repo, Command.special) /= {},
                 WithoutSpecial(repo, Command.special))

Set ==
    /\ Executing("SET")
    /\ repo' = Added(repo, VarKey(Command.name), Command.value, Command.group,
                     Command.timeout, clock)
    /\ Answered(TRUE)
    /\ UNCHANGED <<handler, storedFor>>

\* The queries.
Asking(op, found) ==
    /\ Executing(op)
    /\ Answered(found)
    /\ UNCHANGED <<handler, storeVars>>

Get == Asking("GET", Find(repo, VarKey(Command.name)) /= Null)
GetK == Asking("GETK", FindsKeys(repo, Command.group))
ChkG == Asking("CHKG", HasGroup(repo, Command.group))
Ping == Asking("PING", TRUE)

\* Answered at once if a child has ended, otherwise when one does.
AnsweredNowSlip(h) == FALSE

AnsweredNow(h) == h.hasExitCode

Exit ==
    /\ Executing("EXIT")
    /\ LET h == [handler[Fd] EXCEPT !.needExitCode = TRUE]
       IN  /\ handler' = [handler EXCEPT ![Fd] = h]
           /\ outbox' = IF AnsweredNow(h) THEN ExitPosted(outbox, h) ELSE outbox
    /\ work' = Tail(work)
    /\ UNCHANGED <<netVars, procVars, timeVars, loopVars, storeVars>>

Stop ==
    /\ Executing("STOP")
    /\ outbox' = Posted(outbox, Conn, Reply(TRUE))
    /\ Exits

\* A parse error closes without a word, an unknown command after a NO.
ParseError ==
    /\ Executing("BAD")
    /\ CloseConnection
    /\ UNCHANGED outbox

UnknownCommand ==
    /\ Executing("UNKNOWN")
    /\ outbox' = Posted(outbox, Conn, Reply(FALSE))
    /\ CloseConnection

PeerUidDiffers ==
    /\ mode = "handle" /\ work /= <<>>
    /\ Conn \in Foreign
    /\ CloseConnection
    /\ UNCHANGED outbox

DoCommand ==
    \/ Pass \/ Host \/ Prio \/ Schd
    \/ ExecRefused \/ ExecCached \/ ExecStore
    \/ Del \/ DelV \/ DelG \/ DelS \/ Set
    \/ Get \/ GetK \/ ChkG \/ Ping
    \/ Exit \/ Stop \/ ParseError \/ UnknownCommand \/ PeerUidDiffers

\* One step of the daemon's only thread.
Daemon ==
    \/ Select \/ EndPass
    \/ Accept \/ AcceptFails
    \/ ReadPipe \/ (\E p \in Pids : WaitpidOne(p)) \/ WaitpidNone
    \/ Recv \/ RecvFails \/ Handled
    \/ DoCommand

Kernel == Tick \/ SigChld \/ (\E p \in Pids : ChildExit(p))

-----------------------------------------------------------------------------
(* Properties of the daemon.                                                 *)

Handlers == {fd \in ConnFds : handler[fd] /= None}

\* The data structures stay what main() and ConnectionHandler declare.
TypeOK ==
    /\ mode \in {"select", "pass", "reap", "handle", "exited"}
    /\ tmp_fds \subseteq {SockFd, PipeFd} \cup ConnFds
    /\ active_fds \subseteq ConnFds
    /\ \A fd \in Handlers : /\ handler[fd].conn \in Conns
                             /\ handler[fd].pid \in Pids \cup {None}
                             /\ handler[fd].jobs \in Nat
    /\ \A p \in Pids : kid[p].state \in {"none", "running", "zombie"}
    /\ pipe \in Nat /\ clock \in 0 .. MaxTime /\ swept \in 0 .. clock
    /\ repo \in Repositories

\* A descriptor the loop goes on to serve is one it may serve: it indexes into
\* "handler" (the SIGCHLD branch falls through to handler[i], kdesud.cpp:474-
\* 529), and a connection still has a handler and something to read, so that
\* the non-blocking recv() of handler.cpp:64 cannot meet EAGAIN and close a
\* healthy connection.  select()'s answer must stay true while earlier
\* descriptors of the same pass are accepted, handled and closed.
ReadyWhenServed ==
    /\ active_fds = Handlers
    /\ PipeFd \in tmp_fds => handlerSize > PipeFd
    /\ \A fd \in tmp_fds \cap ConnFds :
          /\ fd \in Handlers /\ fd < handlerSize
          /\ \/ mode = "handle" /\ fd = Fd
             \/ inbox[handler[fd].conn] /= <<>>
             \/ peer[handler[fd].conn] = "closed"

\* A child that has ended is never forgotten: SIGCHLD is pending, or its byte
\* is in the pipe, or the loop is collecting children now.  Signals coalesce
\* and the pipe is drained before waitpid() (kdesud.cpp:475-492); the other
\* order would lose the child that ends in between.
NoLostChild ==
    (\E p \in Pids : kid[p].state = "zombie") => sigchld \/ pipe > 0 \/ mode = "reap"

\* m_pid is the last child this connection launched, as long as that child has
\* not been collected, and then m_exitCode is its status.  A process id that is
\* used again must not find a handler that still has it (kdesud.cpp:481-490).
LastOutcome ==
    \A fd \in Handlers :
        LET h    == handler[fd]
            last == <<h.conn, h.jobs>>
        IN  IF h.pid = None
            THEN IF h.jobs = 0
                 THEN ~h.hasExitCode
                 ELSE h.hasExitCode /\ h.exitCode = last
            ELSE kid[h.pid].state /= "none" /\ kid[h.pid].status = last

\* An exit code is only ever sent to the connection that launched the command.
ExitGoesToLauncher ==
    \A c \in Conns : \A reply \in ToSet(outbox[c]) :
        reply.to = "EXIT" => reply.status /= None /\ reply.status[1] = c

\* expire() runs before the commands of a pass (kdesud.cpp:468), so whatever a
\* handler finds in the store was not due when the pass began; entries added
\* during the pass, over a second boundary too, do not change that.
FreshStore == HeadIsBound(repo) /\ (mode /= "select" => NothingDue(repo, swept))

About(op) == mode = "handle" /\ work /= <<>> /\ Command.op = op

\* A password from the store goes to a command whose environment is the one it
\* was stored with (handler.cpp:277), if that command has any environment: the
\* guard is a second entry which can be replaced, deleted and expire apart from
\* the password.
EnvironmentChecked ==
    About("EXEC") /\ Command.env /= Null /\ CachedPass /= Null
        => Command.env = storedFor[PassKey]

\* The same for every command, as handler.cpp:277 has it: "We only use the
\* command if the environment is the same."
SameEnvironment ==
    About("EXEC") /\ CachedPass /= Null => Command.env = storedFor[PassKey]
===============================================================================
