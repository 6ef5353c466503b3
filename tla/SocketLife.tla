------------------------------ MODULE SocketLife ------------------------------
(***************************************************************************)
(* The life of the daemon's socket file: how kdesud looks for a running    *)
(* daemon, removes a stale socket, binds its own, goes to the background   *)
(* and at the end unlinks the file (create_socket, main and                *)
(* kdesud_cleanup in kdesud.cpp).                                          *)
(*                                                                         *)
(* Every element of Procs is one start of kdesud on the same display, for  *)
(* example by Client::startServer().  The steps of several starts and      *)
(* daemons interleave at their system calls.  The file is known by the     *)
(* process that bound it; unlink() works on the name and so takes away     *)
(* whatever is there.                                                      *)
(***************************************************************************)
EXTENDS FiniteSets

CONSTANTS
    Procs,         \* starts of kdesud
    NoFile,        \* nothing has the socket's name
    Link,          \* a symbolic link has it
    None,          \* no connection
    SystemErrors,  \* TRUE: system calls may fail, processes may be killed
    ChildSignals   \* TRUE: the process that runs a command may get SIGTERM

ASSUME SocketLifeAssumption ==
    /\ NoFile \notin Procs /\ Link \notin Procs /\ None \notin Procs
    /\ NoFile /= Link

VARIABLES
    pc,       \* pc[p]: the next step of start p, or how it ended
    path,     \* what has the socket's name: NoFile, Link or a process
    target,   \* target[p]: whose listening socket p's ping is connected to
    command,  \* command[p]: daemon p has forked a process that runs a command
    disturbed \* history: two starts overlapped, a command process unlinked the
              \* file, or a ping failed for want of a descriptor

vars == <<pc, path, target, command, disturbed>>

Starting == {"lstat", "unlinkLink", "access", "connect", "send", "recv",
             "unlink", "bind", "setsockopt", "listen", "fork"}
Running == {"init", "loop"}
Ended == {"refused", "failed", "stopped", "crashed"}

\* The process that runs a command has the listening socket too: fork() copies
\* descriptor 3 and only the exec() of su or ssh closes it.
Holds(p) == pc[p] \in {"fork", "leaving"} \cup Running \/ command[p]

Goto(p, there) == pc' = [pc EXCEPT ![p] = there]

\* kdesud_cleanup(): unlink() of the name.
Cleanup == path' = NoFile

Init ==
    /\ pc = [p \in Procs |-> "idle"]
    /\ path \in {NoFile, Link}
    /\ target = [p \in Procs |-> None]
    /\ command = [p \in Procs |-> FALSE]
    /\ disturbed = FALSE

\* Somebody runs kdesud, as startServer() does.
Start(p) ==
    /\ pc[p] = "idle"
    /\ Goto(p, "lstat")
    /\ disturbed' = (disturbed \/ \E q \in Procs : pc[q] \in Starting)
    /\ UNCHANGED <<path, target, command>>

\* No display, or no right to limit core dumps: the start fails before it looks
\* at the file.  lstat(): is the name a symbolic link?
Lstat(p) ==
    /\ pc[p] = "lstat"
    /\ \/ Goto(p, IF path = Link THEN "unlinkLink" ELSE "access")
       \/ SystemErrors /\ Goto(p, "failed")
    /\ UNCHANGED <<path, target, command, disturbed>>

\* unlink() fails when the name has gone.
UnlinkOrFail(p, from, next) ==
    /\ pc[p] = from
    /\ Goto(p, IF path = NoFile THEN "failed" ELSE next)
    /\ path' = NoFile
    /\ UNCHANGED <<target, command, disturbed>>

UnlinkLink(p) == UnlinkOrFail(p, "unlinkLink", "access")

\* A slip: a file that is there is taken for stale without a ping.
AccessSlip(p) ==
    /\ pc[p] = "access"
    /\ Goto(p, IF path = NoFile THEN "bind" ELSE "unlink")
    /\ UNCHANGED <<path, target, command, disturbed>>

\* access(): without a file there is nobody to ping.
Access(p) ==
    /\ pc[p] = "access"
    /\ Goto(p, IF path = NoFile THEN "bind" ELSE "connect")
    /\ UNCHANGED <<path, target, command, disturbed>>

\* The constructor of Client: access() and connect().  Without a connection
\* ping() returns -1 at once and the socket is taken for stale.
Connect(p) ==
    /\ pc[p] = "connect"
    /\ IF path \in Procs /\ Holds(path)
       THEN /\ target' = [target EXCEPT ![p] = path]
            /\ Goto(p, "send")
       ELSE /\ Goto(p, "unlink")
            /\ UNCHANGED target
    /\ UNCHANGED <<path, command, disturbed>>

\* Nor has it one when its socket() fails, and ping() returns -1 all the same.
ConnectFails(p) ==
    /\ SystemErrors /\ pc[p] = "connect"
    /\ Goto(p, "unlink")
    /\ disturbed' = TRUE
    /\ UNCHANGED <<path, target, command>>

\* send("PING\n"): SIGPIPE is not yet ignored, so that a peer that has gone
\* meanwhile ends this process.
SendPing(p) ==
    /\ pc[p] = "send"
    /\ IF Holds(target[p])
       THEN Goto(p, "recv") /\ UNCHANGED target
       ELSE Goto(p, "failed") /\ target' = [target EXCEPT ![p] = None]
    /\ UNCHANGED <<path, command, disturbed>>

\* The daemon accepts and answers: "kdesud is already running".
Pong(p) ==
    /\ pc[p] = "recv" /\ pc[target[p]] = "loop"
    /\ target' = [target EXCEPT ![p] = None]
    /\ Goto(p, "refused")
    /\ UNCHANGED <<path, command, disturbed>>

\* A slip: an end of file is read again.
PingAgainSlip(p) == pc[p] = "recv" /\ ~Holds(target[p]) /\ UNCHANGED vars

\* A slip: the connection is not closed.
PingLeakSlip(p) ==
    /\ pc[p] = "recv" /\ ~Holds(target[p])
    /\ Goto(p, "unlink")
    /\ UNCHANGED <<path, target, command, disturbed>>

\* The last process that held the other end has gone.
PingEof(p) ==
    /\ pc[p] = "recv" /\ ~Holds(target[p])
    /\ target' = [target EXCEPT ![p] = None]
    /\ Goto(p, "unlink")
    /\ UNCHANGED <<path, command, disturbed>>

UnlinkStale(p) == UnlinkOrFail(p, "unlink", "bind")

\* socket() may fail; bind() makes the file, and fails if there is one.
Bind(p) ==
    /\ pc[p] = "bind"
    /\ \/ path = NoFile /\ path' = p /\ Goto(p, "setsockopt")
       \/ (SystemErrors \/ path /= NoFile) /\ Goto(p, "failed") /\ UNCHANGED path
    /\ UNCHANGED <<target, command, disturbed>>

\* setsockopt() and chmod(); an error here returns without cleanup.
SetSockOpt(p) ==
    /\ pc[p] = "setsockopt"
    /\ \/ Goto(p, "listen")
       \/ SystemErrors /\ Goto(p, "failed")
    /\ UNCHANGED <<path, target, command, disturbed>>

\* listen(), and dup3(), closeExtraFds() and fork(): an error cleans up.
SucceedOrCleanup(p, from, next) ==
    /\ pc[p] = from
    /\ \/ Goto(p, next) /\ UNCHANGED path
       \/ SystemErrors /\ Goto(p, "failed") /\ Cleanup
    /\ UNCHANGED <<target, command, disturbed>>

Listen(p) == SucceedOrCleanup(p, "listen", "fork")

\* The parent's _exit(0) tells startServer() that the daemon is up.
Fork(p) == SucceedOrCleanup(p, "fork", "init")

\* Pipe and signal handlers are set up; the loop begins.
EnterLoop(p) ==
    /\ pc[p] = "init"
    /\ Goto(p, "loop")
    /\ UNCHANGED <<path, target, command, disturbed>>

\* A slip: the end of the loop without cleanup.
LeaveSlip(p) ==
    /\ pc[p] = "loop"
    /\ Goto(p, "leaving")
    /\ UNCHANGED <<path, target, command, disturbed>>

\* STOP, a signal or an X error: kdesud_cleanup() ...
Leave(p) ==
    /\ pc[p] = "loop"
    /\ Cleanup
    /\ Goto(p, "leaving")
    /\ UNCHANGED <<target, command, disturbed>>

\* ... and exit().
Exit(p) ==
    /\ pc[p] = "leaving"
    /\ Goto(p, "stopped")
    /\ UNCHANGED <<path, target, command, disturbed>>

\* A signal before the handlers are set, SIGKILL, or an error of select(),
\* after which main() exits without cleanup.
Crash(p) ==
    /\ SystemErrors
    /\ pc[p] \in Starting \cup Running
    /\ Goto(p, "crashed")
    /\ target' = [target EXCEPT ![p] = None]
    /\ UNCHANGED <<path, command, disturbed>>

\* EXEC forks a process that runs the command ...
RunCommand(p) ==
    /\ pc[p] = "loop" /\ ~command[p]
    /\ command' = [command EXCEPT ![p] = TRUE]
    /\ UNCHANGED <<pc, path, target, disturbed>>

\* ... and leaves by _exit(),
CommandEnds(p) ==
    /\ command[p]
    /\ command' = [command EXCEPT ![p] = FALSE]
    /\ UNCHANGED <<pc, path, target, disturbed>>

\* or by a signal, whose handler is still the daemon's signal_exit().
CommandSignalled(p) ==
    /\ ChildSignals /\ command[p]
    /\ command' = [command EXCEPT ![p] = FALSE]
    /\ Cleanup
    /\ disturbed' = TRUE
    /\ UNCHANGED <<pc, target>>

CreateSocket(p) ==
    \/ Lstat(p) \/ UnlinkLink(p) \/ Access(p)
    \/ Connect(p) \/ ConnectFails(p) \/ SendPing(p) \/ Pong(p) \/ PingEof(p)
    \/ UnlinkStale(p) \/ Bind(p) \/ SetSockOpt(p)

Main(p) == CreateSocket(p) \/ Listen(p) \/ Fork(p) \/ EnterLoop(p)

Next ==
    \E p \in Procs :
        \/ Start(p)
        \/ Main(p)
        \/ Leave(p)
        \/ Exit(p)
        \/ Crash(p)
        \/ RunCommand(p)
        \/ CommandEnds(p)
        \/ CommandSignalled(p)

\* Processes run, and a command ends.  Nobody has to start or to stop a daemon.
Fairness ==
    \A p \in Procs : WF_vars(Main(p)) /\ WF_vars(Exit(p)) /\ WF_vars(CommandEnds(p))

Spec == Init /\ [][Next]_vars /\ Fairness

-----------------------------------------------------------------------------
\* Types; and a start holds a connection exactly while it pings (client.cpp:70-158).
TypeOK ==
    /\ pc \in [Procs -> {"idle", "leaving"} \cup Starting \cup Running \cup Ended]
    /\ path \in Procs \cup {NoFile, Link}
    /\ target \in [Procs -> Procs \cup {None}]
    /\ \A p \in Procs : target[p] /= None <=> pc[p] \in {"send", "recv"}
    /\ command \in [Procs -> BOOLEAN]
    /\ disturbed \in BOOLEAN

\* startServer() connects as soon as the parent of the daemon has exited: from
\* then on, to its end, the daemon is the one its clients reach by the name.
\* Starts one after the other keep this whatever fails or is killed between
\* (kdesud.cpp:247-293, 398-407).
ServerReachable ==
    ~disturbed => \A p \in Procs : pc[p] \in Running => path = p

\* Only a crash or a failed start leaves a socket behind: after STOP or a
\* signal the next start finds no file, however starts overlap and whatever
\* was unlinked (kdesud.cpp:161-164, handler.cpp:516-524).
StaleOnlyAfterCrash ==
    \A p \in Procs : pc[p] \in {"idle", "refused", "leaving", "stopped"} => path /= p

\* A start does not wait for ever for the answer to its ping, although the
\* process at the other end may never have reached its loop, may have died, or
\* may have left the listening socket to a command it forked (kdesud.cpp:249).
StartEnds == \A p \in Procs : pc[p] \in Starting ~> pc[p] \notin Starting

\* A second start ends with "kdesud is already running" (kdesud.cpp:256).
OneDaemon ==
    \A p, q \in Procs : pc[p] = "loop" /\ pc[q] = "loop" => p = q
===============================================================================
