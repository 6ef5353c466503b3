----------------------------- MODULE KdesudProofs -----------------------------
(***************************************************************************)
(* Theorems about the daemon with its clients, for every number of         *)
(* connections, descriptors and process ids, and for every set of commands *)
(* the clients may send.  The last part is about what class Client reads:  *)
(* as long as a connection launches one command and its client waits for   *)
(* each reply, recv() returns the reply to what was sent, and an exit code *)
(* is that of the command.                                                 *)
(***************************************************************************)
EXTENDS KdesuSession, RepositoryOpsProofs, SequenceTheorems

-----------------------------------------------------------------------------
(* The inductive invariant.                                                  *)

KidStates ==
    [state : {"none", "running", "zombie"}, status : Results \cup {None},
     holds : SUBSET Conns]

NetType ==
    /\ backlog \in Seq(Conns)
    /\ peer \in [Conns -> {"idle", "open", "closed"}]
    /\ inbox \in [Conns -> Seq(Sent)]

ProcType == kid \in [Pids -> KidStates] /\ sigchld \in BOOLEAN /\ pipe \in Nat

PlaceType ==
    /\ mode \in {"select", "pass", "reap", "handle", "exited"}
    /\ tmp_fds \subseteq {SockFd, PipeFd} \cup ConnFds
    /\ active_fds \subseteq ConnFds
    /\ handlerSize \in Nat

HandlerType == handler \in [ConnFds -> HandlerStates \cup {None}]

WorkType == work \in Seq(Sent)

LoopType == NetType /\ ProcType /\ PlaceType /\ HandlerType /\ WorkType

StoreType ==
    /\ clock \in 0 .. MaxTime /\ swept \in 0 .. clock
    /\ repo \in Repositories
    /\ HeadIsBound(repo)

\* A connection is waiting once or has one handler.
OneHandlerEach ==
    /\ \A i, j \in DOMAIN backlog : backlog[i] = backlog[j] => i = j
    /\ \A i \in DOMAIN backlog : peer[backlog[i]] /= "idle"
    /\ \A fd \in Handlers : /\ peer[handler[fd].conn] /= "idle"
                            /\ \A i \in DOMAIN backlog : backlog[i] /= handler[fd].conn
    /\ \A fd, other \in Handlers : handler[fd].conn = handler[other].conn => fd = other

\* The list of handlers reaches past the pipe once there has been a connection,
\* and nothing is written to the pipe before.
ListLongEnough ==
    /\ \A fd \in Handlers : fd < handlerSize
    /\ (sigchld \/ pipe > 0 \/ \E p \in Pids : kid[p].state /= "none")
          => handlerSize > PipeFd

\* While a command is executed, its connection is the one being served;
\* a connection that waits is not taken away.
ServingOne ==
    /\ mode = "handle" => tmp_fds /= {} /\ Fd \in Handlers
    /\ SockFd \in tmp_fds => backlog /= <<>>
    /\ mode = "exited" => Handlers = {}

\* Every exit code a handler has is of a command of its own.
OwnExitCode ==
    \A fd \in Handlers :
        /\ handler[fd].hasExitCode => handler[fd].exitCode \in {handler[fd].conn} \X Nat
        /\ handler[fd].pid /= None => handler[fd].jobs > 0

LoopInv ==
    /\ LoopType
    /\ StoreType
    /\ OneHandlerEach
    /\ ListLongEnough
    /\ ServingOne
    /\ ReadyWhenServed
    /\ NoLostChild
    /\ LastOutcome
    /\ OwnExitCode

-----------------------------------------------------------------------------
(* The place in the loop.                                                    *)

LEMMA MaxOfOne ==
    ASSUME NEW n \in Nat
    PROVE  Max({n}) = n
BY DEF Max

LEMMA MaxOfTwo ==
    ASSUME NEW m \in Nat, NEW n \in Nat
    PROVE  /\ Max({m, n}) \in Nat
           /\ m <= Max({m, n}) /\ n <= Max({m, n})
<1>1. \E x \in {m, n} : \A y \in {m, n} : x >= y
  BY SMT
<1>. QED
  BY <1>1 DEF Max

LEMMA ServedFd ==
    ASSUME LoopType, tmp_fds /= {}
    PROVE  Fd \in tmp_fds /\ Fd \in Nat
<1>1. tmp_fds \in SUBSET Nat
  BY KdesudAssumption DEF LoopType, PlaceType, SockFd, PipeFd
<1>. QED
  BY <1>1, MinExists DEF Fd

\* The descriptor that is served and its handler.
LEMMA ServedHandler ==
    ASSUME LoopInv, mode = "handle"
    PROVE  /\ Fd \in ConnFds /\ Fd \in tmp_fds /\ Fd \in Handlers
           /\ handler[Fd] \in HandlerStates
           /\ Conn \in Conns
<1>1. tmp_fds /= {} /\ Fd \in Handlers
  BY DEF LoopInv, ServingOne
<1>2. Fd \in tmp_fds
  BY <1>1, ServedFd DEF LoopInv
<1>3. handler[Fd] \in HandlerStates
  BY <1>1 DEF LoopInv, LoopType, HandlerType, Handlers
<1>. QED
  BY <1>1, <1>2, <1>3 DEF Handlers, Conn, HandlerStates

\* A command that is executed is one a client sent.
LEMMA ExecutedCommand ==
    ASSUME LoopInv, NEW op, Executing(op)
    PROVE  /\ mode = "handle"
           /\ Command \in Asked(op)
           /\ Tail(work) \in Seq(Sent)
<1>1. work \in Seq(Sent) /\ work /= <<>>
  BY DEF LoopInv, LoopType, WorkType, Executing
<1>2. Head(work) \in Sent /\ Tail(work) \in Seq(Sent)
  BY <1>1
<1>. QED
  BY <1>2 DEF Executing, Command, Asked

-----------------------------------------------------------------------------
(* What a command does, as far as the loop is concerned.                     *)

SameOutcome(h, g) ==
    /\ g.conn = h.conn /\ g.pid = h.pid /\ g.jobs = h.jobs
    /\ g.exitCode = h.exitCode /\ g.hasExitCode = h.hasExitCode

\* The handler may change, but not what it knows of its children.
Settles ==
    /\ UNCHANGED <<netVars, procVars, loopVars, swept>>
    /\ work' \in Seq(Sent)
    /\ \E h \in HandlerStates : /\ SameOutcome(handler[Fd], h)
                                /\ handler' = [handler EXCEPT ![Fd] = h]

Launches(p) ==
    /\ kid[p].state = "none"
    /\ kid' = [kid EXCEPT ![p] = [state  |-> "running",
                                  status |-> <<Conn, handler[Fd].jobs + 1>>,
                                  holds  |-> Accepted]]
    /\ handler' = [handler EXCEPT ![Fd] = Launched(handler[Fd], p)]
    /\ UNCHANGED <<netVars, sigchld, pipe, loopVars, swept>>
    /\ work' \in Seq(Sent)

LEMMA SettlesUnchanged ==
    ASSUME LoopInv, mode = "handle", UNCHANGED handler,
           UNCHANGED <<netVars, procVars, loopVars, swept>>, work' \in Seq(Sent)
    PROVE  Settles
<1>1. handler = [handler EXCEPT ![Fd] = handler[Fd]]
  BY ServedHandler DEF LoopInv, LoopType, HandlerType
<1>2. handler[Fd] \in HandlerStates /\ SameOutcome(handler[Fd], handler[Fd])
  BY ServedHandler DEF SameOutcome
<1>. QED
  BY <1>1, <1>2 DEF Settles

LEMMA SettlesHandler ==
    ASSUME LoopInv, NEW op, Executing(op), NEW h \in HandlerStates,
           SameOutcome(handler[Fd], h), handler' = [handler EXCEPT ![Fd] = h],
           UNCHANGED <<netVars, procVars, loopVars, swept>>, work' = Tail(work)
    PROVE  Settles
BY ExecutedCommand DEF Settles

\* Commands that only set a field of the handler.
LEMMA SettingEffect ==
    ASSUME LoopInv, Pass \/ Host \/ Prio \/ Schd \/ Exit
    PROVE  Settles
<1>0. ASSUME NEW op, Executing(op)
      PROVE  handler[Fd] \in HandlerStates /\ Command \in Asked(op)
  BY <1>0, ServedHandler, ExecutedCommand
<1>. USE DEF Answered, SetHandler, SameOutcome, timeVars
<1>1. CASE Pass
  <2>. DEFINE h == [handler[Fd] EXCEPT !.pass = Command.pass, !.timeout = Command.timeout]
  <2>1. Executing("PASS") /\ Command \in Asked("PASS")
    BY <1>0, <1>1 DEF Pass
  <2>2. Command.pass \in Values /\ Command.timeout \in TimeoutsSent
    BY <2>1, RequestsAssumption DEF TimeoutsSent
  <2>3. h \in HandlerStates /\ SameOutcome(handler[Fd], h)
    BY <1>0, <2>1, <2>2 DEF HandlerStates
  <2>. QED
    BY <1>1, <2>1, <2>3, SettlesHandler DEF Pass
<1>2. CASE Host
  <2>. DEFINE h == [handler[Fd] EXCEPT !.host = Command.host]
  <2>1. Executing("HOST") /\ Command.host \in HostsSent
    BY <1>0, <1>2 DEF Host, HostsSent
  <2>2. h \in HandlerStates /\ SameOutcome(handler[Fd], h)
    BY <1>0, <2>1 DEF HandlerStates
  <2>. QED
    BY <1>2, <2>1, <2>2, SettlesHandler DEF Host
<1>3. CASE Prio
  <2>. DEFINE h == [handler[Fd] EXCEPT !.priority = Command.priority]
  <2>1. Executing("PRIO") /\ Command.priority \in PrioritiesSent
    BY <1>0, <1>3 DEF Prio, PrioritiesSent
  <2>2. h \in HandlerStates /\ SameOutcome(handler[Fd], h)
    BY <1>0, <2>1 DEF HandlerStates
  <2>. QED
    BY <1>3, <2>1, <2>2, SettlesHandler DEF Prio
<1>4. CASE Schd
  <2>. DEFINE h == [handler[Fd] EXCEPT !.scheduler = Command.scheduler]
  <2>1. Executing("SCHD") /\ Command.scheduler \in SchedulersSent
    BY <1>0, <1>4 DEF Schd, SchedulersSent
  <2>2. h \in HandlerStates /\ SameOutcome(handler[Fd], h)
    BY <1>0, <2>1 DEF HandlerStates
  <2>. QED
    BY <1>4, <2>1, <2>2, SettlesHandler DEF Schd
<1>5. CASE Exit
  <2>. DEFINE h == [handler[Fd] EXCEPT !.needExitCode = TRUE]
  <2>1. Executing("EXIT")
    BY <1>5 DEF Exit
  <2>2. h \in HandlerStates /\ SameOutcome(handler[Fd], h)
    BY <1>0, <2>1 DEF HandlerStates
  <2>. QED
    BY <1>5, <2>1, <2>2, SettlesHandler DEF Exit
<1>. QED
  BY <1>1, <1>2, <1>3, <1>4, <1>5

\* Commands that change or look at the store.
LEMMA StoreCommandEffect ==
    ASSUME LoopInv,
           Del \/ DelV \/ DelG \/ DelS \/ Set \/ Get \/ GetK \/ ChkG \/ Ping \/ ExecRefused
    PROVE  Settles
<1>1. ASSUME NEW op, Executing(op), work' = Tail(work)
      PROVE  mode = "handle" /\ work' \in Seq(Sent)
  BY <1>1, ExecutedCommand
<1>2. CASE Del \/ DelV \/ DelG \/ DelS \/ Set
  BY <1>1, <1>2, SettlesUnchanged, Zenon
     DEF Del, DelV, DelG, DelS, Set, Deleting, Answered, timeVars
<1>3. CASE Get \/ GetK \/ ChkG \/ Ping
  BY <1>1, <1>3, SettlesUnchanged, Zenon
     DEF Get, GetK, ChkG, Ping, Asking, Answered, timeVars
<1>4. CASE ExecRefused
  BY <1>1, <1>4, SettlesUnchanged DEF ExecRefused, Exec, procVars
<1>. QED
  BY <1>2, <1>3, <1>4

LEMMA ForkEffect ==
    ASSUME LoopInv, Exec, Fork
    PROVE  Settles \/ \E p \in Pids : Launches(p)
<1>1. mode = "handle" /\ work' \in Seq(Sent)
  BY ExecutedCommand DEF Exec
<1>2. CASE UNCHANGED <<kid, handler>>
  BY <1>1, <1>2, SettlesUnchanged DEF Exec, procVars
<1>3. ASSUME NEW p \in Pids, kid[p].state = "none",
             kid' = [kid EXCEPT ![p] = [state  |-> "running",
                                        status |-> <<Conn, Launched(handler[Fd], p).jobs>>,
                                        holds  |-> Accepted]],
             handler' = [handler EXCEPT ![Fd] = Launched(handler[Fd], p)]
      PROVE  Launches(p)
  <2>1. Launched(handler[Fd], p).jobs = handler[Fd].jobs + 1
    BY <1>1, ServedHandler DEF Launched, HandlerStates
  <2>. QED
    BY <1>1, <1>3, <2>1 DEF Launches, Exec
<1>. QED
  BY <1>2, <1>3 DEF Fork

LEMMA CommandEffect ==
    ASSUME LoopInv, DoCommand
    PROVE  /\ mode = "handle"
           /\ \/ Settles
              \/ \E p \in Pids : Launches(p)
              \/ CloseConnection
              \/ Exits
<1>1. CASE Pass \/ Host \/ Prio \/ Schd \/ Exit
  BY <1>1, SettingEffect DEF Pass, Host, Prio, Schd, Exit, Executing
<1>2. CASE Del \/ DelV \/ DelG \/ DelS \/ Set \/ Get \/ GetK \/ ChkG \/ Ping \/ ExecRefused
  BY <1>2, StoreCommandEffect
     DEF Del, DelV, DelG, DelS, Set, Deleting, Get, GetK, ChkG, Ping, Asking,
         ExecRefused, Exec, Executing
<1>3. CASE ExecCached \/ ExecStore
  BY <1>3, ForkEffect DEF ExecCached, ExecStore, Exec, Executing
<1>4. CASE Stop \/ ParseError \/ UnknownCommand \/ PeerUidDiffers
  BY <1>4 DEF Stop, ParseError, UnknownCommand, PeerUidDiffers, Executing
<1>. QED
  BY <1>1, <1>2, <1>3, <1>4 DEF DoCommand

-----------------------------------------------------------------------------
(* What a step does to the store.                                            *)

\* A new entry, or two that are stored one after the other, or fewer entries.
Stores(later) ==
    \E k1, k2 \in Keys, v1, v2 \in Values, g \in Groups, t \in TimeoutsSent :
        LET r == Added(repo, k1, v1, g, t, clock)
        IN  repo' \in {r, Added(r, k2, v2, g, t, later)}

Drops == \E ks : repo' = Without(repo, ks)

StoreUntouched == UNCHANGED <<repo, swept>>

LEMMA KeysOfExec ==
    ASSUME LoopInv, Exec
    PROVE  /\ PassKey \in Keys /\ EnvKey \in Keys
           /\ Command.env \in Values
<1>1. mode = "handle" /\ Command \in Asked("EXEC")
  BY ExecutedCommand DEF Exec
<1>2. handler[Fd].host \in HostsSent
  BY <1>1, ServedHandler DEF HandlerStates
<1>3. AuthUser(handler[Fd], Command.user) \in {Command.user, Root}
  BY DEF AuthUser
<1>. QED
  BY <1>1, <1>2, <1>3, RequestsAssumption DEF PassKey, EnvKey

LEMMA CommandStores ==
    ASSUME LoopInv, DoCommand
    PROVE  /\ UNCHANGED swept
           /\ clock' \in clock .. MaxTime
           /\ StoreUntouched \/ Drops \/ Stores(clock')
<1>0. clock \in 0 .. MaxTime /\ MaxTime \in Nat
  BY KdesudAssumption DEF LoopInv, StoreType
<1>u. ASSUME UNCHANGED <<timeVars, repo>>
      PROVE  clock' \in clock .. MaxTime /\ UNCHANGED swept /\ StoreUntouched
  BY <1>0, <1>u DEF timeVars, StoreUntouched
<1>t. ASSUME UNCHANGED timeVars
      PROVE  clock' \in clock .. MaxTime /\ UNCHANGED swept
  BY <1>0, <1>t DEF timeVars
<1>1. CASE Pass \/ Host \/ Prio \/ Schd
  BY <1>1, <1>u DEF Pass, Host, Prio, Schd, SetHandler, Answered, storeVars
<1>2. CASE Del \/ DelV \/ DelG \/ DelS
  BY <1>2, <1>t
     DEF Del, DelV, DelG, DelS, Deleting, Answered, Removed, WithoutGroup,
         WithoutSpecial, Drops
<1>3. CASE Set
  <2>1. Command \in Asked("SET")
    BY <1>3, ExecutedCommand DEF Set
  <2>2. /\ VarKey(Command.name) \in Keys /\ Command.value \in Values
        /\ Command.group \in Groups /\ Command.timeout \in TimeoutsSent
    BY <2>1, RequestsAssumption DEF TimeoutsSent
  <2>. QED
    BY <1>3, <1>t, <2>2 DEF Set, Answered, Stores
<1>4. CASE Get \/ GetK \/ ChkG \/ Ping
  BY <1>4, <1>u DEF Get, GetK, ChkG, Ping, Asking, Answered, storeVars
<1>5. CASE ExecRefused \/ ExecCached
  BY <1>5, <1>u DEF ExecRefused, ExecCached, Exec, timeVars, storeVars
<1>6. CASE ExecStore
  <2>1. Exec /\ mode = "handle"
    BY <1>6, ExecutedCommand DEF ExecStore, Exec
  <2>2. handler[Fd].pass \in Values /\ handler[Fd].timeout \in TimeoutsSent
    BY <1>6, <2>1, ServedHandler DEF ExecStore, HandlerStates
  <2>3. PassKey \in Keys /\ EnvKey \in Keys /\ Command.env \in Values
    BY <2>1, KeysOfExec
  <2>4. NoGroup \in Groups
    BY RepositoryAssumption
  <2>5. Stores(clock')
    BY <1>6, <2>2, <2>3, <2>4, Zenon DEF ExecStore, StoredPair, Stores
  <2>6. clock' \in clock .. MaxTime
    BY <1>0, <1>6 DEF ExecStore
  <2>. QED
    BY <2>1, <2>5, <2>6 DEF Exec
<1>7. CASE Exit \/ Stop \/ ParseError \/ UnknownCommand \/ PeerUidDiffers
  BY <1>7, <1>u
     DEF Exit, Stop, ParseError, UnknownCommand, PeerUidDiffers, Exits, CloseConnection,
         storeVars
<1>. QED
  BY <1>1, <1>2, <1>3, <1>4, <1>5, <1>6, <1>7 DEF DoCommand

LEMMA StepStores ==
    ASSUME LoopInv, [Next]_vars
    PROVE  /\ clock' \in clock .. MaxTime
           /\ \/ /\ UNCHANGED swept
                 /\ StoreUntouched \/ Drops \/ Stores(clock')
              \/ swept' = clock /\ repo' = Expired(repo, clock)
<1>0. clock \in 0 .. MaxTime /\ MaxTime \in Nat
  BY KdesudAssumption DEF LoopInv, StoreType
<1>1. CASE DoCommand
  BY <1>1, CommandStores
<1>2. CASE Select
  BY <1>0, <1>2 DEF Select
<1>3. CASE Tick
  BY <1>0, <1>3 DEF Tick, storeVars, StoreUntouched
<1>4. ASSUME UNCHANGED <<timeVars, repo>>
      PROVE  clock' \in clock .. MaxTime /\ UNCHANGED swept /\ StoreUntouched
  BY <1>0, <1>4 DEF timeVars, StoreUntouched
<1>. USE DEF storeVars
<1>5. CASE EndPass \/ Accept \/ AcceptFails \/ ReadPipe \/ WaitpidNone
  BY <1>4, <1>5 DEF EndPass, Accept, AcceptFails, ReadPipe, WaitpidNone
<1>6. CASE Recv \/ RecvFails \/ Handled \/ \E p \in Pids : WaitpidOne(p)
  BY <1>4, <1>6 DEF WaitpidOne, Recv, RecvFails, CloseConnection, Handled
<1>7. CASE SigChld \/ SignalExit \/ \E p \in Pids : ChildExit(p)
  BY <1>4, <1>7 DEF SigChld, SignalExit, Exits, ChildExit
<1>8. CASE \E c \in Conns : Client(c)
  BY <1>4, <1>8
     DEF Client, Connect, Calls, Send, Receive, ReceiveEof, Close, daemonVars
<1>9. CASE UNCHANGED vars
  BY <1>4, <1>9 DEF vars, daemonVars
<1>. QED
  BY <1>1, <1>2, <1>3, <1>5, <1>6, <1>7, <1>8, <1>9 DEF Next, Daemon, Kernel

\* Whatever the commands, the store keeps its type and head_time its bound.
LEMMA StoreStep ==
    ASSUME LoopInv, [Next]_vars
    PROVE  StoreType'
<1>0. /\ repo \in Repositories /\ HeadIsBound(repo)
      /\ clock \in Nat /\ clock' \in Nat /\ clock <= clock' /\ clock' <= MaxTime
      /\ swept \in 0 .. clock
  BY StepStores, KdesudAssumption DEF LoopInv, StoreType
<1>1. swept' \in 0 .. clock'
  BY <1>0, StepStores DEF StoreUntouched
<1>2. ASSUME Stores(clock')
      PROVE  repo' \in Repositories /\ HeadIsBound(repo')
  <2>1. PICK k1 \in Keys, k2 \in Keys, v1 \in Values, v2 \in Values, g \in Groups,
             t \in TimeoutsSent :
          LET r == Added(repo, k1, v1, g, t, clock)
          IN  repo' \in {r, Added(r, k2, v2, g, t, clock')}
    BY <1>2 DEF Stores
  <2>2. t \in Nat
    BY RequestsAssumption
  <2>3. /\ Added(repo, k1, v1, g, t, clock) \in Repositories
        /\ HeadIsBound(Added(repo, k1, v1, g, t, clock))
    BY <1>0, <2>2, AddedType, AddedBound
  <2>. QED
    BY <1>0, <2>1, <2>2, <2>3, AddedType, AddedBound
<1>3. ASSUME Drops
      PROVE  repo' \in Repositories /\ HeadIsBound(repo')
  BY <1>0, <1>3, WithoutType, WithoutBound DEF Drops
<1>4. repo' = Expired(repo, clock) => repo' \in Repositories /\ HeadIsBound(repo')
  BY <1>0, ExpiredType, ExpiredBound
<1>. QED
  BY <1>0, <1>1, <1>2, <1>3, <1>4, StepStores DEF StoreUntouched, StoreType

-----------------------------------------------------------------------------
(* Types.                                                                    *)

LEMMA FreeFd ==
    ASSUME FreeFds /= {}
    PROVE  Min(FreeFds) \in FreeFds /\ Min(FreeFds) \in ConnFds /\ Min(FreeFds) \in Nat
BY MinExists, KdesudAssumption DEF FreeFds

LEMMA NewHandlerType ==
    ASSUME NEW c \in Conns
    PROVE  NewHandler(c) \in HandlerStates
BY DEF NewHandler, HandlerStates, TimeoutsSent, HostsSent, PrioritiesSent, SchedulersSent

\* At most one handler remembers a child, and the child is its last.
LEMMA OneOwner ==
    ASSUME LoopInv, NEW fd \in Handlers, NEW other \in Handlers,
           handler[fd].pid /= None, handler[other].pid = handler[fd].pid
    PROVE  other = fd
<1>1. kid[handler[fd].pid].status = <<handler[fd].conn, handler[fd].jobs>>
  BY DEF LoopInv, LastOutcome
<1>2. kid[handler[fd].pid].status = <<handler[other].conn, handler[other].jobs>>
  BY DEF LoopInv, LastOutcome
<1>. QED
  BY <1>1, <1>2 DEF LoopInv, OneHandlerEach

LEMMA MaxOwner ==
    ASSUME LoopInv, NEW p \in Pids, NEW fd \in Handlers, handler[fd].pid = p
    PROVE  Max({f \in ConnFds : handler[f] /= None /\ handler[f].pid = p}) = fd
<1>1. p /= None
  BY NoneAssumption
<1>2. {f \in ConnFds : handler[f] /= None /\ handler[f].pid = p} = {fd}
  BY <1>1, OneOwner DEF Handlers
<1>. QED
  BY <1>2, MaxOfOne, KdesudAssumption DEF Handlers

\* waitpid() returns a child that no handler remembers, or one that one does.
LEMMA ReapEffect ==
    ASSUME LoopInv, NEW p \in Pids, WaitpidOne(p)
    PROVE  /\ mode = "reap" /\ mode' = "reap"
           /\ kid[p].state = "zombie" /\ kid' = [kid EXCEPT ![p] = NoProcess]
           /\ \/ /\ UNCHANGED handler
                 /\ \A fd \in Handlers : handler[fd].pid /= p
              \/ \E fd \in Handlers :
                    /\ handler[fd].pid = p
                    /\ handler' = [handler EXCEPT
                                     ![fd] = Reaped(handler[fd], kid[p].status)]
<1>. DEFINE owners == {f \in ConnFds : handler[f] /= None /\ handler[f].pid = p}
<1>1. CASE owners = {}
  BY <1>1 DEF WaitpidOne, AfterOne, Handlers
<1>2. CASE owners /= {}
  <2>1. PICK fd \in owners : TRUE
    BY <1>2
  <2>2. fd \in Handlers /\ handler[fd].pid = p
    BY <2>1 DEF Handlers
  <2>3. Max(owners) = fd
    BY <2>2, MaxOwner
  <2>. QED
    BY <1>2, <2>2, <2>3 DEF WaitpidOne, AfterOne
<1>. QED
  BY <1>1, <1>2

LEMMA ReapedType ==
    ASSUME NEW h \in HandlerStates, NEW status \in Results \cup {None}
    PROVE  Reaped(h, status) \in HandlerStates
BY DEF Reaped, HandlerStates

LEMMA LaunchedType ==
    ASSUME NEW h \in HandlerStates, NEW p \in Pids
    PROVE  Launched(h, p) \in HandlerStates
<1>1. h.jobs + 1 \in Nat /\ p \in Pids \cup {None}
  BY DEF HandlerStates
<1>2. Launched(h, p) = [h EXCEPT !.pid = p, !.jobs = h.jobs + 1]
  BY DEF Launched
<1>. HIDE DEF Launched
<1>. QED
  BY <1>1, <1>2 DEF HandlerStates

LEMMA LoopTypeStep ==
    ASSUME LoopInv, [Next]_vars
    PROVE  LoopType'
<1>0. NetType /\ ProcType /\ PlaceType /\ HandlerType /\ WorkType
  BY DEF LoopInv, LoopType
<1>n. UNCHANGED netVars => NetType'
  BY <1>0 DEF NetType, netVars
<1>p. UNCHANGED procVars => ProcType'
  BY <1>0 DEF ProcType, procVars
<1>l. UNCHANGED loopVars => PlaceType'
  BY <1>0 DEF PlaceType, loopVars
<1>h. UNCHANGED handler => HandlerType'
  BY <1>0 DEF HandlerType
<1>w. UNCHANGED work => WorkType'
  BY <1>0 DEF WorkType
<1>u. ASSUME UNCHANGED <<netVars, procVars, loopVars, handler, work>>
      PROVE  LoopType'
  BY <1>u, <1>n, <1>p, <1>l, <1>h, <1>w DEF LoopType
<1>m. ASSUME UNCHANGED <<netVars, procVars, handler, work, active_fds, handlerSize>>,
             mode' \in {"select", "pass", "reap", "handle"},
             tmp_fds' \subseteq {SockFd, PipeFd} \cup ConnFds
      PROVE  LoopType'
  <2>1. PlaceType'
    BY <1>0, <1>m DEF PlaceType
  <2>. QED
    BY <1>m, <2>1, <1>n, <1>p, <1>h, <1>w DEF LoopType
<1>1. CASE Select
  <2>1. Ready \subseteq {SockFd, PipeFd} \cup ConnFds
    BY <1>0 DEF Ready, PlaceType
  <2>. QED
    BY <1>1, <2>1, <1>m DEF Select
<1>2. CASE EndPass \/ AcceptFails \/ WaitpidNone \/ Handled
  <2>1. tmp_fds' \subseteq {SockFd, PipeFd} \cup ConnFds
    BY <1>0, <1>2 DEF EndPass, AcceptFails, WaitpidNone, Handled, PlaceType
  <2>. QED
    BY <1>2, <2>1, <1>m DEF EndPass, AcceptFails, WaitpidNone, Handled, Serving
<1>3. CASE Accept
  <2>. DEFINE fd == Min(FreeFds)
  <2>1. fd \in ConnFds /\ fd \in Nat
    BY <1>3, FreeFd DEF Accept
  <2>2. Max({handlerSize, fd + 1}) \in Nat
    BY <1>0, <2>1, MaxOfTwo DEF PlaceType
  <2>3. PlaceType'
    BY <1>0, <1>3, <2>1, <2>2 DEF Accept, PlaceType
  <2>4. backlog /= <<>>
    BY <1>3, ServedFd DEF Accept, Serving, LoopInv, ServingOne
  <2>5. NetType' /\ Head(backlog) \in Conns
    BY <1>0, <1>3, <2>4 DEF Accept, NetType
  <2>6. HandlerType'
    BY <1>0, <1>3, <2>1, <2>5, NewHandlerType DEF Accept, HandlerType
  <2>. QED
    BY <1>3, <2>3, <2>5, <2>6, <1>p, <1>w DEF Accept, LoopType
<1>4. CASE ReadPipe
  <2>1. /\ Min({pipe, PipeRead}) \in {pipe, PipeRead}
        /\ Min({pipe, PipeRead}) <= pipe
    BY <1>0, MinExists, KdesudAssumption DEF ProcType
  <2>2. pipe' \in Nat
    BY <1>0, <1>4, <2>1, KdesudAssumption DEF ReadPipe, ProcType
  <2>3. ProcType' /\ PlaceType'
    BY <1>0, <1>4, <2>2 DEF ReadPipe, ProcType, PlaceType
  <2>. QED
    BY <1>4, <2>3, <1>n, <1>h, <1>w DEF ReadPipe, LoopType
<1>5. ASSUME NEW p \in Pids, WaitpidOne(p)
      PROVE  LoopType'
  <2>1. ProcType'
    BY <1>0, <1>5 DEF WaitpidOne, ProcType, NoProcess, KidStates
  <2>2. PlaceType'
    BY <1>0, <1>5 DEF WaitpidOne, AfterOne, PlaceType
  <2>3. kid[p].status \in Results \cup {None}
    BY <1>0 DEF ProcType, KidStates
  <2>4. \A fd \in Handlers : handler[fd] \in HandlerStates
    BY <1>0 DEF HandlerType, Handlers
  <2>5. HandlerType'
    BY <1>0, <1>5, <2>3, <2>4, ReapEffect, ReapedType DEF HandlerType
  <2>. QED
    BY <1>5, <2>1, <2>2, <2>5, <1>n, <1>w DEF WaitpidOne, LoopType
<1>6. CASE Recv
  <2>1. Fd \in Handlers
    BY <1>6, ServedFd DEF Recv, Serving, LoopInv, ReadyWhenServed
  <2>2. Conn \in Conns
    BY <1>0, <2>1 DEF Conn, Handlers, HandlerType, HandlerStates
  <2>3. inbox[Conn] \in Seq(Sent)
    BY <1>0, <2>2 DEF NetType
  <2>4. ASSUME NEW n \in 1 .. Len(inbox[Conn])
        PROVE  /\ SubSeq(inbox[Conn], 1, n) \in Seq(Sent)
               /\ SubSeq(inbox[Conn], n + 1, Len(inbox[Conn])) \in Seq(Sent)
    BY <2>3, SubSeqProperties
  <2>5. WorkType' /\ NetType'
    BY <1>0, <1>6, <2>4 DEF Recv, WorkType, NetType
  <2>6. PlaceType'
    BY <1>0, <1>6 DEF Recv, PlaceType
  <2>. QED
    BY <1>6, <2>5, <2>6, <1>p, <1>h DEF Recv, LoopType
<1>7. CASE CloseConnection
  <2>1. PlaceType'
    BY <1>0, <1>7 DEF CloseConnection, Watched, PlaceType
  <2>2. HandlerType'
    BY <1>0, <1>7 DEF CloseConnection, HandlerType
  <2>3. WorkType'
    BY <1>7 DEF CloseConnection, WorkType
  <2>. QED
    BY <1>7, <2>1, <2>2, <2>3, <1>n, <1>p DEF CloseConnection, LoopType
<1>8. CASE Exits
  <2>1. PlaceType' /\ HandlerType' /\ WorkType'
    BY <1>0, <1>8 DEF Exits, PlaceType, HandlerType, WorkType
  <2>2. ProcType'
    BY <1>0, <1>8 DEF Exits, ProcType, NoProcess, KidStates
  <2>. QED
    BY <1>8, <2>1, <2>2, <1>n DEF Exits, LoopType
<1>9. CASE Settles
  <2>1. HandlerType' /\ WorkType'
    BY <1>0, <1>9 DEF Settles, HandlerType, WorkType
  <2>. QED
    BY <1>9, <2>1, <1>n, <1>p, <1>l DEF Settles, LoopType
<1>10. ASSUME NEW p \in Pids, mode = "handle", Launches(p)
       PROVE  LoopType'
  <2>1. handler[Fd] \in HandlerStates /\ Conn \in Conns
    BY <1>10, ServedHandler
  <2>2. Launched(handler[Fd], p) \in HandlerStates
    BY <2>1, LaunchedType
  <2>3. HandlerType' /\ WorkType'
    BY <1>0, <1>10, <2>2 DEF Launches, HandlerType, WorkType
  <2>4. <<Conn, handler[Fd].jobs + 1>> \in Results
    BY <2>1 DEF HandlerStates, Results
  <2>5. Accepted \subseteq Conns
    BY <1>0 DEF Accepted, HandlerType, HandlerStates
  <2>6. ProcType'
    BY <1>0, <1>10, <2>4, <2>5 DEF Launches, ProcType, KidStates
  <2>. QED
    BY <1>10, <2>3, <2>6, <1>n, <1>l DEF Launches, LoopType
<1>11. CASE Tick
  BY <1>11, <1>u DEF Tick
<1>12. CASE SigChld
  <2>1. ProcType'
    <3>1. pipe' \in Nat
      BY <1>0, <1>12 DEF SigChld, ProcType
    <3>2. sigchld' \in BOOLEAN /\ kid' = kid
      BY <1>12, Zenon DEF SigChld
    <3>. QED
      BY <1>0, <3>1, <3>2 DEF ProcType
  <2>. QED
    BY <1>12, <2>1, <1>n, <1>l, <1>h, <1>w DEF SigChld, LoopType
<1>13. ASSUME NEW p \in Pids, ChildExit(p)
       PROVE  LoopType'
  <2>1. ProcType'
    <3>1. kid' \in [Pids -> KidStates]
      BY <1>0, <1>13 DEF ChildExit, ProcType, NoProcess, KidStates
    <3>2. sigchld' \in BOOLEAN /\ pipe' = pipe
      BY <1>0, <1>13, Zenon DEF ChildExit, ProcType
    <3>. QED
      BY <1>0, <3>1, <3>2 DEF ProcType
  <2>. QED
    BY <1>13, <2>1, <1>n, <1>l, <1>h, <1>w DEF ChildExit, LoopType
<1>14. ASSUME NEW c \in Conns, Client(c)
       PROVE  LoopType'
  <2>1. CASE Connect(c)
    BY <1>0, <2>1, <1>p, <1>l, <1>h, <1>w DEF Connect, NetType, LoopType
  <2>2. ASSUME NEW r \in Requests[c], Send(c, r)
        PROVE  LoopType'
    <3>1. r \in Sent
      BY DEF Sent
    <3>2. Append(inbox[c], r) \in Seq(Sent)
      BY <1>0, <3>1 DEF NetType
    <3>3. NetType'
      BY <1>0, <2>2, <3>2 DEF Send, NetType
    <3>. QED
      BY <2>2, <3>3, <1>p, <1>l, <1>h, <1>w DEF Send, LoopType
  <2>3. CASE Receive(c) \/ ReceiveEof(c)
    BY <2>3, <1>u DEF Receive, ReceiveEof, daemonVars
  <2>4. CASE Close(c)
    BY <1>0, <2>4, <1>p, <1>l, <1>h, <1>w DEF Close, NetType, LoopType
  <2>. QED
    BY <1>14, <2>1, <2>2, <2>3, <2>4 DEF Client, Calls
<1>15. CASE UNCHANGED vars
  BY <1>15, <1>u DEF vars, daemonVars
<1>. QED
  BY <1>1, <1>2, <1>3, <1>4, <1>5, <1>6, <1>7, <1>8, <1>9, <1>10, <1>11, <1>12,
     <1>13, <1>14, <1>15, CommandEffect
     DEF Next, Daemon, Kernel, SignalExit, RecvFails

-----------------------------------------------------------------------------
(* What a step does to the handlers.                                         *)

\* Some handlers are gone, the others have their connections still.
HandlersKept ==
    /\ Handlers' \subseteq Handlers
    /\ \A fd \in Handlers' : handler'[fd].conn = handler[fd].conn

LEMMA HandlerReplaced ==
    ASSUME HandlerType, NEW f \in Handlers, NEW h \in HandlerStates,
           handler' = [handler EXCEPT ![f] = h]
    PROVE  /\ Handlers' = Handlers
           /\ handler'[f] = h
           /\ \A fd \in Handlers : fd /= f => handler'[fd] = handler[fd]
<1>1. h /= None /\ f \in ConnFds
  BY NoneAssumption DEF Handlers
<1>2. \A fd \in ConnFds : handler'[fd] = IF fd = f THEN h ELSE handler[fd]
  BY DEF HandlerType
<1>. QED
  BY <1>1, <1>2 DEF Handlers

LEMMA HandlerClosed ==
    ASSUME LoopInv, CloseConnection
    PROVE  /\ Handlers' = Handlers \ {Fd}
           /\ \A fd \in Handlers' : handler'[fd] = handler[fd]
<1>1. \A fd \in ConnFds : handler'[fd] = IF fd = Fd THEN None ELSE handler[fd]
  BY DEF LoopInv, LoopType, HandlerType, CloseConnection
<1>. QED
  BY <1>1 DEF Handlers

LEMMA HandlerSettled ==
    ASSUME LoopInv, mode = "handle", Settles
    PROVE  /\ Handlers' = Handlers
           /\ \A fd \in Handlers : SameOutcome(handler[fd], handler'[fd])
<1>1. PICK h \in HandlerStates : /\ SameOutcome(handler[Fd], h)
                                 /\ handler' = [handler EXCEPT ![Fd] = h]
  BY DEF Settles
<1>2. Fd \in Handlers /\ HandlerType
  BY ServedHandler DEF LoopInv, LoopType
<1>. QED
  BY <1>1, <1>2, HandlerReplaced DEF SameOutcome

LEMMA HandlerLaunched ==
    ASSUME LoopInv, mode = "handle", NEW p \in Pids, Launches(p)
    PROVE  /\ Handlers' = Handlers
           /\ handler'[Fd] = Launched(handler[Fd], p)
           /\ handler'[Fd].conn = handler[Fd].conn
           /\ handler'[Fd].pid = p
           /\ handler'[Fd].jobs = handler[Fd].jobs + 1
           /\ handler'[Fd].exitCode = handler[Fd].exitCode
           /\ handler'[Fd].hasExitCode = handler[Fd].hasExitCode
           /\ \A fd \in Handlers : fd /= Fd => handler'[fd] = handler[fd]
<1>1. Fd \in Handlers /\ HandlerType /\ handler[Fd] \in HandlerStates
  BY ServedHandler DEF LoopInv, LoopType
<1>2. Launched(handler[Fd], p) \in HandlerStates
  BY <1>1, LaunchedType
<1>3. /\ Handlers' = Handlers
      /\ handler'[Fd] = Launched(handler[Fd], p)
      /\ \A fd \in Handlers : fd /= Fd => handler'[fd] = handler[fd]
  BY <1>1, <1>2, HandlerReplaced DEF Launches
<1>. QED
  BY <1>1, <1>3 DEF Launched, HandlerStates

LEMMA HandlerReaped ==
    ASSUME LoopInv, NEW p \in Pids, WaitpidOne(p)
    PROVE  /\ Handlers' = Handlers
           /\ \A fd \in Handlers :
                 IF handler[fd].pid = p
                 THEN handler'[fd] = Reaped(handler[fd], kid[p].status)
                 ELSE handler'[fd] = handler[fd]
           /\ \A fd \in Handlers : handler'[fd].conn = handler[fd].conn
<1>1. HandlerType /\ kid[p].status \in Results \cup {None}
  BY DEF LoopInv, LoopType, ProcType, KidStates
<1>2. \A fd \in Handlers : handler[fd] \in HandlerStates
  BY <1>1 DEF HandlerType, Handlers
<1>3. CASE UNCHANGED handler /\ \A fd \in Handlers : handler[fd].pid /= p
  BY <1>3 DEF Handlers
<1>4. ASSUME NEW fd \in Handlers, handler[fd].pid = p,
             handler' = [handler EXCEPT ![fd] = Reaped(handler[fd], kid[p].status)]
      PROVE  /\ Handlers' = Handlers
             /\ handler'[fd] = Reaped(handler[fd], kid[p].status)
             /\ handler'[fd].conn = handler[fd].conn
             /\ \A f \in Handlers :
                   f /= fd => handler[f].pid /= p /\ handler'[f] = handler[f]
  <2>1. Reaped(handler[fd], kid[p].status) \in HandlerStates
    BY <1>1, <1>2, ReapedType
  <2>2. /\ Handlers' = Handlers
        /\ handler'[fd] = Reaped(handler[fd], kid[p].status)
        /\ \A f \in Handlers : f /= fd => handler'[f] = handler[f]
    BY <1>1, <1>4, <2>1, HandlerReplaced
  <2>3. handler'[fd].conn = handler[fd].conn
    BY <1>2, <2>2 DEF Reaped, HandlerStates
  <2>4. p /= None
    BY NoneAssumption
  <2>. QED
    BY <1>4, <2>2, <2>3, <2>4, OneOwner
<1>. QED
  BY <1>3, <1>4, ReapEffect

LEMMA HandlerAccepted ==
    ASSUME LoopInv, Accept
    PROVE  LET fd == Min(FreeFds)
           IN  /\ fd \in ConnFds /\ fd \in Nat /\ fd \notin Handlers
               /\ backlog \in Seq(Conns) /\ backlog /= <<>>
               /\ Handlers' = Handlers \cup {fd}
               /\ handler'[fd] = NewHandler(Head(backlog))
               /\ \A f \in Handlers : handler'[f] = handler[f]
<1>. DEFINE fd == Min(FreeFds)
<1>1. fd \in FreeFds /\ fd \in ConnFds /\ fd \in Nat
  BY FreeFd DEF Accept
<1>2. backlog \in Seq(Conns) /\ backlog /= <<>>
  BY ServedFd DEF Accept, Serving, LoopInv, ServingOne, LoopType, NetType
<1>3. NewHandler(Head(backlog)) /= None
  BY <1>2, NewHandlerType, NoneAssumption
<1>4. handler' = [handler EXCEPT ![fd] = NewHandler(Head(backlog))]
  BY DEF Accept
<1>5. \A f \in ConnFds : handler'[f] = IF f = fd THEN NewHandler(Head(backlog))
                                                  ELSE handler[f]
  BY <1>1, <1>4 DEF LoopInv, LoopType, HandlerType
<1>. QED
  BY <1>1, <1>2, <1>3, <1>5 DEF FreeFds, Handlers

\* CloseConnection is taken while a ready connection is being served.
CloseServed == CloseConnection /\ mode \in {"pass", "handle"} /\ Fd \in tmp_fds

Idle == UNCHANGED <<netVars, procVars, loopVars, handler>>

\* The kinds of steps there are.
LEMMA StepKinds ==
    ASSUME LoopInv, [Next]_vars
    PROVE  \/ Idle
           \/ Select \/ EndPass \/ Accept \/ AcceptFails \/ ReadPipe \/ WaitpidNone
           \/ \E p \in Pids : WaitpidOne(p)
           \/ Recv \/ Handled \/ CloseServed \/ Exits
           \/ mode = "handle" /\ Settles
           \/ mode = "handle" /\ \E p \in Pids : Launches(p)
           \/ SigChld \/ \E p \in Pids : ChildExit(p)
           \/ \E c \in Conns : Connect(c) \/ Calls(c) \/ Close(c)
<1>1. CASE DoCommand
  BY <1>1, CommandEffect, ServedHandler DEF CloseServed
<1>2. CASE RecvFails
  BY <1>2, ServedFd DEF RecvFails, Serving, CloseServed, LoopInv
<1>3. CASE Tick
  BY <1>3 DEF Tick, Idle
<1>4. ASSUME NEW c \in Conns, Client(c)
      PROVE  Connect(c) \/ Calls(c) \/ Close(c) \/ Idle
  BY <1>4 DEF Client, Receive, ReceiveEof, daemonVars, Idle
<1>5. CASE UNCHANGED vars
  BY <1>5 DEF vars, daemonVars, Idle
<1>. QED
  BY <1>1, <1>2, <1>3, <1>4, <1>5 DEF Next, Daemon, Kernel, SignalExit

-----------------------------------------------------------------------------
(* The parts of the invariant, one by one.                                   *)

LEMMA OneHandlerEachStep ==
    ASSUME LoopInv, [Next]_vars
    PROVE  OneHandlerEach'
<1>0. OneHandlerEach /\ NetType /\ HandlerType
  BY DEF LoopInv, LoopType
<1>k. ASSUME UNCHANGED <<backlog, peer>>, HandlersKept
      PROVE  OneHandlerEach'
  BY <1>0, <1>k DEF OneHandlerEach, HandlersKept
<1>u. ASSUME UNCHANGED <<backlog, peer, handler>>
      PROVE  OneHandlerEach'
  BY <1>k, <1>u DEF HandlersKept, Handlers
<1>1. CASE Idle \/ Select \/ EndPass \/ AcceptFails \/ ReadPipe
  BY <1>1, <1>u DEF Idle, Select, EndPass, AcceptFails, ReadPipe, netVars
<1>2. CASE WaitpidNone \/ Recv \/ Handled
  BY <1>2, <1>u DEF WaitpidNone, Recv, Handled, netVars
<1>3. CASE SigChld \/ \E p \in Pids : ChildExit(p)
  BY <1>3, <1>u DEF SigChld, ChildExit, netVars
<1>4. CASE Accept
  <2>. DEFINE fd == Min(FreeFds)
              c  == Head(backlog)
  <2>1. /\ fd \notin Handlers /\ backlog \in Seq(Conns) /\ backlog /= <<>>
        /\ Handlers' = Handlers \cup {fd}
        /\ handler'[fd] = NewHandler(c)
        /\ \A f \in Handlers : handler'[f] = handler[f]
    BY <1>4, HandlerAccepted
  <2>2. handler'[fd].conn = c
    BY <2>1 DEF NewHandler
  <2>3. backlog' = Tail(backlog) /\ peer' = peer
    BY <1>4 DEF Accept
  <2>4. /\ 1 \in DOMAIN backlog /\ c = backlog[1]
        /\ \A i \in DOMAIN backlog' :
              i \in Nat \ {0} /\ i + 1 \in DOMAIN backlog /\ backlog'[i] = backlog[i + 1]
    BY <2>1, <2>3
  <2>5. \A i \in DOMAIN backlog' : backlog'[i] /= c
    BY <1>0, <2>4 DEF OneHandlerEach
  <2>6. \A i, j \in DOMAIN backlog' : backlog'[i] = backlog'[j] => i = j
    BY <1>0, <2>4 DEF OneHandlerEach
  <2>7. \A f \in Handlers : handler[f].conn /= c
    BY <1>0, <2>4 DEF OneHandlerEach
  <2>. HIDE DEF fd, c
  <2>8. \A i \in DOMAIN backlog' : peer'[backlog'[i]] /= "idle"
    BY <1>0, <2>3, <2>4 DEF OneHandlerEach
  <2>9. \A f \in Handlers' :
           /\ peer'[handler'[f].conn] /= "idle"
           /\ \A i \in DOMAIN backlog' : backlog'[i] /= handler'[f].conn
    BY <1>0, <2>1, <2>2, <2>3, <2>4, <2>5 DEF OneHandlerEach
  <2>10. \A f, g \in Handlers' : handler'[f].conn = handler'[g].conn => f = g
    BY <1>0, <2>1, <2>2, <2>7 DEF OneHandlerEach
  <2>. QED
    BY <2>6, <2>8, <2>9, <2>10 DEF OneHandlerEach
<1>5. CASE \E p \in Pids : WaitpidOne(p)
  BY <1>5, <1>k, HandlerReaped DEF WaitpidOne, HandlersKept, netVars
<1>6. CASE CloseServed
  BY <1>6, <1>k, HandlerClosed DEF CloseServed, CloseConnection, HandlersKept, netVars
<1>7. CASE Exits
  <2>1. Handlers' = {}
    BY <1>7 DEF Exits, Handlers
  <2>. QED
    BY <1>7, <1>k, <2>1 DEF Exits, HandlersKept, netVars
<1>8. CASE mode = "handle" /\ Settles
  BY <1>8, <1>k, HandlerSettled DEF Settles, SameOutcome, HandlersKept, netVars
<1>9. CASE mode = "handle" /\ \E p \in Pids : Launches(p)
  <2>1. HandlersKept
    BY <1>9, HandlerLaunched, ServedHandler DEF HandlersKept
  <2>. QED
    BY <1>9, <2>1, <1>k DEF Launches, netVars
<1>10. ASSUME NEW c \in Conns, Connect(c)
       PROVE  OneHandlerEach'
  <2>1. /\ backlog \in Seq(Conns) /\ backlog' = Append(backlog, c)
        /\ peer[c] = "idle" /\ peer' = [peer EXCEPT ![c] = "open"]
        /\ UNCHANGED handler
    BY <1>0, <1>10 DEF Connect, NetType
  <2>2. \A d \in Conns : peer[d] /= "idle" => peer'[d] /= "idle"
    BY <1>0, <2>1 DEF NetType
  <2>3. peer'[c] /= "idle"
    BY <1>0, <2>1 DEF NetType
  <2>4. /\ DOMAIN backlog' = DOMAIN backlog \cup {Len(backlog) + 1}
        /\ Len(backlog) + 1 \notin DOMAIN backlog
        /\ backlog'[Len(backlog) + 1] = c
        /\ \A i \in DOMAIN backlog : backlog'[i] = backlog[i] /\ backlog[i] \in Conns
    BY <2>1
  <2>5. \A i \in DOMAIN backlog : backlog[i] /= c
    BY <1>0, <2>1 DEF OneHandlerEach
  <2>6. \A fd \in Handlers : handler[fd].conn /= c /\ handler[fd].conn \in Conns
    BY <1>0, <2>1 DEF OneHandlerEach, HandlerType, Handlers, HandlerStates
  <2>7. Handlers' = Handlers
    BY <2>1 DEF Handlers
  <2>8. \A i, j \in DOMAIN backlog' : backlog'[i] = backlog'[j] => i = j
    BY <1>0, <2>4, <2>5 DEF OneHandlerEach
  <2>9. \A i \in DOMAIN backlog' : peer'[backlog'[i]] /= "idle"
    BY <1>0, <2>2, <2>3, <2>4 DEF OneHandlerEach
  <2>10. \A fd \in Handlers' :
            /\ peer'[handler'[fd].conn] /= "idle"
            /\ \A i \in DOMAIN backlog' : backlog'[i] /= handler'[fd].conn
    BY <1>0, <2>1, <2>2, <2>4, <2>6, <2>7 DEF OneHandlerEach
  <2>11. \A fd, other \in Handlers' :
            handler'[fd].conn = handler'[other].conn => fd = other
    BY <1>0, <2>1, <2>7 DEF OneHandlerEach
  <2>. QED
    BY <2>8, <2>9, <2>10, <2>11 DEF OneHandlerEach
<1>11. CASE \E c \in Conns : Calls(c)
  BY <1>11, <1>u DEF Calls, Send
<1>12. ASSUME NEW c \in Conns, Close(c)
       PROVE  OneHandlerEach'
  <2>1. \A d \in Conns : peer[d] /= "idle" => peer'[d] /= "idle"
    BY <1>0, <1>12 DEF Close, NetType
  <2>2. UNCHANGED <<backlog, handler>> /\ Handlers' = Handlers
    BY <1>12 DEF Close, Handlers
  <2>3. \A fd \in Handlers : handler[fd].conn \in Conns
    BY <1>0 DEF HandlerType, Handlers, HandlerStates
  <2>4. \A i \in DOMAIN backlog : backlog[i] \in Conns
    BY <1>0 DEF NetType
  <2>. QED
    BY <1>0, <2>1, <2>2, <2>3, <2>4 DEF OneHandlerEach
<1>. QED
  BY <1>1, <1>2, <1>3, <1>4, <1>5, <1>6, <1>7, <1>8, <1>9, <1>10, <1>11, <1>12, StepKinds

LEMMA ListLongEnoughStep ==
    ASSUME LoopInv, [Next]_vars
    PROVE  ListLongEnough'
<1>. DEFINE used == sigchld \/ pipe > 0 \/ \E p \in Pids : kid[p].state /= "none"
<1>0. ListLongEnough /\ ProcType /\ PlaceType /\ HandlerType
  BY DEF LoopInv, LoopType
<1>k. ASSUME Handlers' \subseteq Handlers, handlerSize' = handlerSize, used' => used
      PROVE  ListLongEnough'
  BY <1>0, <1>k DEF ListLongEnough
<1>u. ASSUME UNCHANGED <<procVars, handlerSize>>, Handlers' \subseteq Handlers
      PROVE  ListLongEnough'
  BY <1>u, <1>k DEF procVars
<1>h. UNCHANGED handler => Handlers' = Handlers
  BY DEF Handlers
<1>1. CASE Idle \/ Select \/ EndPass \/ AcceptFails \/ WaitpidNone \/ Recv \/ Handled
  BY <1>1, <1>h, <1>u
     DEF Idle, Select, EndPass, AcceptFails, WaitpidNone, Recv, Handled, loopVars
<1>2. CASE Accept
  <2>. DEFINE fd == Min(FreeFds)
  <2>1. /\ fd \in ConnFds /\ fd \in Nat /\ Handlers' = Handlers \cup {fd}
    BY <1>2, HandlerAccepted
  <2>2. handlerSize' = Max({handlerSize, fd + 1}) /\ UNCHANGED procVars
    BY <1>2 DEF Accept
  <2>3. handlerSize' \in Nat /\ handlerSize <= handlerSize' /\ fd + 1 <= handlerSize'
    BY <1>0, <2>1, <2>2, MaxOfTwo DEF PlaceType
  <2>4. \A f \in Handlers : f \in Nat
    BY KdesudAssumption DEF Handlers
  <2>5. fd > PipeFd
    BY <2>1, KdesudAssumption
  <2>. HIDE DEF fd
  <2>6. \A f \in Handlers' : f < handlerSize'
    BY <1>0, <2>1, <2>3, <2>4 DEF ListLongEnough, PlaceType
  <2>7. handlerSize' > PipeFd
    BY <2>1, <2>3, <2>5 DEF PipeFd
  <2>. QED
    BY <2>6, <2>7 DEF ListLongEnough
<1>3. CASE ReadPipe
  <2>1. Min({pipe, PipeRead}) \in {pipe, PipeRead} /\ Min({pipe, PipeRead}) <= pipe
    BY <1>0, MinExists, KdesudAssumption DEF ProcType
  <2>2. pipe' > 0 => pipe > 0
    BY <1>0, <1>3, <2>1, KdesudAssumption DEF ReadPipe, ProcType
  <2>. QED
    BY <1>3, <2>2, <1>h, <1>k DEF ReadPipe
<1>4. ASSUME NEW p \in Pids, WaitpidOne(p)
      PROVE  ListLongEnough'
  <2>1. \A q \in Pids : kid'[q].state /= "none" => kid[q].state /= "none"
    BY <1>0, <1>4 DEF WaitpidOne, ProcType, NoProcess
  <2>2. UNCHANGED <<handlerSize, sigchld, pipe>> /\ Handlers' = Handlers
    BY <1>4, HandlerReaped DEF WaitpidOne
  <2>. QED
    BY <2>1, <2>2, <1>k
<1>5. CASE CloseServed
  BY <1>5, HandlerClosed, <1>u DEF CloseServed, CloseConnection
<1>6. CASE Exits
  <2>1. Handlers' = {}
    BY <1>6 DEF Exits, Handlers
  <2>2. \A p \in Pids : kid'[p].state /= "none" => kid[p].state /= "none"
    BY <1>0, <1>6 DEF Exits, ProcType, NoProcess, Running
  <2>3. ~sigchld' /\ pipe' = 0 /\ handlerSize' = handlerSize
    BY <1>6 DEF Exits
  <2>. QED
    BY <2>1, <2>2, <2>3, <1>k
<1>7. CASE mode = "handle" /\ Settles
  BY <1>7, HandlerSettled, <1>u DEF Settles, loopVars
<1>8. CASE mode = "handle" /\ \E p \in Pids : Launches(p)
  <2>1. Handlers' = Handlers /\ handlerSize' = handlerSize
    BY <1>8, HandlerLaunched DEF Launches, loopVars
  <2>2. Fd \in Handlers /\ Fd \in Nat /\ Fd > PipeFd
    BY <1>8, ServedHandler, KdesudAssumption
  <2>3. handlerSize > PipeFd
    BY <1>0, <2>2 DEF ListLongEnough, PlaceType, PipeFd
  <2>. QED
    BY <1>0, <2>1, <2>3 DEF ListLongEnough
<1>9. CASE SigChld
  <2>1. used
    BY <1>9 DEF SigChld
  <2>. QED
    BY <1>9, <2>1, <1>h, <1>k DEF SigChld, loopVars
<1>10. ASSUME NEW p \in Pids, ChildExit(p)
       PROVE  ListLongEnough'
  <2>1. used
    BY <1>10 DEF ChildExit, Running
  <2>. QED
    BY <1>10, <2>1, <1>h, <1>k DEF ChildExit, loopVars
<1>11. CASE \E c \in Conns : Connect(c) \/ Calls(c) \/ Close(c)
  BY <1>11, <1>h, <1>u DEF Connect, Calls, Send, Close, loopVars
<1>. QED
  BY <1>1, <1>2, <1>3, <1>4, <1>5, <1>6, <1>7, <1>8, <1>9, <1>10, <1>11, StepKinds

LEMMA ServingOneStep ==
    ASSUME LoopInv, [Next]_vars
    PROVE  ServingOne'
<1>0. ServingOne /\ NetType /\ PlaceType
  BY DEF LoopInv, LoopType
<1>u. ASSUME UNCHANGED <<mode, tmp_fds>>, Handlers' = Handlers,
             backlog /= <<>> => backlog' /= <<>>
      PROVE  ServingOne'
  BY <1>0, <1>u DEF ServingOne, Fd
<1>n. ASSUME mode' \in {"select", "pass", "reap"}, tmp_fds' \subseteq tmp_fds,
             UNCHANGED backlog
      PROVE  ServingOne'
  BY <1>0, <1>n DEF ServingOne
<1>h. UNCHANGED handler => Handlers' = Handlers
  BY DEF Handlers
<1>1. CASE Select
  <2>1. SockFd \notin active_fds /\ SockFd /= PipeFd
    BY <1>0, KdesudAssumption DEF PlaceType, SockFd, PipeFd
  <2>. QED
    BY <1>1, <2>1 DEF Select, Ready, ServingOne, netVars
<1>2. CASE EndPass \/ AcceptFails \/ ReadPipe \/ WaitpidNone \/ Handled \/ CloseServed
  BY <1>2, <1>n
     DEF EndPass, AcceptFails, ReadPipe, WaitpidNone, Handled, CloseServed,
         CloseConnection, Serving, netVars
<1>3. CASE Accept
  BY <1>3 DEF Accept, Serving, ServingOne
<1>4. CASE Exits
  BY <1>4 DEF Exits, ServingOne, Handlers
<1>5. CASE Recv
  <2>1. tmp_fds /= {} /\ Fd \in Handlers /\ mode' = "handle"
    BY <1>5, ServedFd DEF Recv, Serving, LoopInv, ReadyWhenServed
  <2>2. UNCHANGED <<backlog, tmp_fds>> /\ Handlers' = Handlers
    BY <1>5, <1>h DEF Recv
  <2>. QED
    BY <1>0, <2>1, <2>2 DEF ServingOne, Fd
<1>6. CASE \E p \in Pids : WaitpidOne(p)
  BY <1>6, <1>n, ReapEffect DEF WaitpidOne, netVars
<1>7. CASE Idle \/ SigChld \/ \E p \in Pids : ChildExit(p)
  BY <1>7, <1>h, <1>u DEF Idle, SigChld, ChildExit, loopVars, netVars
<1>8. CASE mode = "handle" /\ Settles
  BY <1>8, <1>u, HandlerSettled DEF Settles, loopVars, netVars
<1>9. CASE mode = "handle" /\ \E p \in Pids : Launches(p)
  BY <1>9, <1>u, HandlerLaunched DEF Launches, loopVars, netVars
<1>10. CASE \E c \in Conns : Connect(c)
  <2>1. backlog' /= <<>>
    BY <1>0, <1>10 DEF Connect, NetType
  <2>. QED
    BY <1>10, <2>1, <1>h, <1>u DEF Connect, loopVars
<1>11. CASE \E c \in Conns : Calls(c) \/ Close(c)
  BY <1>11, <1>h, <1>u DEF Calls, Send, Close, loopVars
<1>. QED
  BY <1>1, <1>2, <1>3, <1>4, <1>5, <1>6, <1>7, <1>8, <1>9, <1>10, <1>11, StepKinds

\* There is something to read from a connection, or its client has left.
Readable(fd) ==
    inbox[handler[fd].conn] /= <<>> \/ peer[handler[fd].conn] = "closed"

LEMMA ReadyWhenServedStep ==
    ASSUME LoopInv, [Next]_vars
    PROVE  ReadyWhenServed'
<1>0. /\ NetType /\ PlaceType /\ HandlerType
      /\ ReadyWhenServed /\ ListLongEnough /\ OneHandlerEach /\ ServingOne
  BY DEF LoopInv, LoopType
<1>a. \A fd \in ConnFds : fd \in Nat /\ fd > PipeFd /\ fd /= SockFd /\ fd /= PipeFd
  BY KdesudAssumption DEF SockFd, PipeFd
<1>c. \A fd \in Handlers : handler[fd].conn \in Conns
  BY <1>0 DEF Handlers, HandlerType, HandlerStates
<1>d. ListLongEnough'
  BY ListLongEnoughStep
<1>h. UNCHANGED handler => Handlers' = Handlers
  BY DEF Handlers
\* The descriptors are those of before, and nothing is read from one of them.
<1>u. ASSUME UNCHANGED <<mode, tmp_fds, active_fds, handlerSize>>, Handlers' = Handlers,
             \A fd \in Handlers : Readable(fd) => Readable(fd)'
      PROVE  ReadyWhenServed'
  BY <1>0, <1>u DEF ReadyWhenServed, Readable, Fd
\* The pass goes on with fewer descriptors.
<1>n. ASSUME UNCHANGED <<inbox, peer, handlerSize>>,
             tmp_fds' \subseteq tmp_fds, mode = "handle" => Fd \notin tmp_fds',
             active_fds' = Handlers',
             Handlers' \subseteq Handlers, Handlers \cap tmp_fds' \subseteq Handlers',
             \A fd \in Handlers' : handler'[fd].conn = handler[fd].conn
      PROVE  ReadyWhenServed'
  <2>1. ASSUME NEW fd \in tmp_fds' \cap ConnFds
        PROVE  /\ fd \in Handlers' /\ fd < handlerSize'
               /\ Readable(fd)'
    BY <1>0, <1>n, <2>1 DEF ReadyWhenServed, Readable
  <2>2. PipeFd \in tmp_fds' => handlerSize' > PipeFd
    BY <1>0, <1>n DEF ReadyWhenServed
  <2>. QED
    BY <1>n, <2>1, <2>2 DEF ReadyWhenServed, Readable
<1>s. ASSUME UNCHANGED <<inbox, peer>>,
             \A fd \in Handlers : handler'[fd].conn = handler[fd].conn
      PROVE  \A fd \in Handlers : Readable(fd) => Readable(fd)'
  BY <1>s DEF Readable
<1>1. CASE Select
  <2>1. Handlers' = Handlers /\ UNCHANGED <<handler, inbox, peer, active_fds, handlerSize>>
    BY <1>1, <1>h DEF Select, netVars
  <2>2. tmp_fds' = Ready
    BY <1>1 DEF Select
  <2>3. ASSUME NEW fd \in Ready \cap ConnFds
        PROVE  fd \in Handlers /\ fd < handlerSize /\ Readable(fd)
    BY <1>0, <1>a, <2>3 DEF Ready, ReadyWhenServed, ListLongEnough, Readable
  <2>4. ASSUME PipeFd \in Ready
        PROVE  handlerSize > PipeFd
    <3>1. pipe > 0
      BY <1>0, <1>a, <2>4 DEF Ready, PlaceType, SockFd, PipeFd
    <3>. QED
      BY <1>0, <3>1 DEF ListLongEnough
  <2>. QED
    BY <1>0, <2>1, <2>2, <2>3, <2>4 DEF ReadyWhenServed, Readable
<1>2. CASE EndPass \/ AcceptFails \/ WaitpidNone
  <2>1. /\ mode /= "handle" /\ tmp_fds' \subseteq tmp_fds
        /\ UNCHANGED <<inbox, peer, active_fds, handlerSize, handler>>
    BY <1>2 DEF EndPass, AcceptFails, WaitpidNone, Serving, netVars
  <2>. QED
    BY <1>0, <2>1, <1>h, <1>n DEF ReadyWhenServed
<1>3. CASE Handled
  <2>1. /\ tmp_fds' = tmp_fds \ {Fd}
        /\ UNCHANGED <<inbox, peer, active_fds, handlerSize, handler>>
    BY <1>3 DEF Handled, netVars
  <2>. QED
    BY <1>0, <2>1, <1>h, <1>n DEF ReadyWhenServed
<1>4. CASE CloseServed
  <2>1. /\ tmp_fds' = tmp_fds \ {Fd} /\ active_fds' = active_fds \ {Fd}
        /\ UNCHANGED <<inbox, peer, handlerSize>>
    BY <1>4 DEF CloseServed, CloseConnection, Watched, netVars
  <2>2. Handlers' = Handlers \ {Fd} /\ \A fd \in Handlers' : handler'[fd] = handler[fd]
    BY <1>4, HandlerClosed DEF CloseServed
  <2>. QED
    BY <1>0, <2>1, <2>2, <1>n DEF ReadyWhenServed
<1>5. CASE Exits
  <2>1. Handlers' = {} /\ tmp_fds' = {} /\ active_fds' = {}
    BY <1>5 DEF Exits, Handlers
  <2>. QED
    BY <2>1 DEF ReadyWhenServed
<1>6. CASE ReadPipe
  <2>1. /\ mode /= "handle"
        /\ UNCHANGED <<inbox, peer, tmp_fds, active_fds, handlerSize, handler>>
    BY <1>6 DEF ReadPipe, Serving, netVars
  <2>. QED
    BY <1>0, <2>1, <1>h, <1>n DEF ReadyWhenServed
<1>7. CASE \E p \in Pids : WaitpidOne(p)
  <2>1. /\ mode' = mode
        /\ UNCHANGED <<inbox, peer, tmp_fds, active_fds, handlerSize>>
    BY <1>7, ReapEffect DEF WaitpidOne, netVars
  <2>. QED
    BY <1>7, <2>1, <1>s, <1>u, HandlerReaped
<1>8. CASE Accept
  <2>. DEFINE new == Min(FreeFds)
  <2>1. /\ new \notin Handlers /\ new \in Nat
        /\ Handlers' = Handlers \cup {new}
        /\ \A f \in Handlers : handler'[f] = handler[f]
    BY <1>8, HandlerAccepted
  <2>2. /\ active_fds' = active_fds \cup {new} /\ tmp_fds' = tmp_fds \ {SockFd}
        /\ mode = "pass" /\ handlerSize' = Max({handlerSize, new + 1})
        /\ UNCHANGED <<inbox, peer>>
    BY <1>8 DEF Accept, Serving
  <2>3. handlerSize' \in Nat /\ handlerSize <= handlerSize'
    BY <1>0, <2>1, <2>2, MaxOfTwo DEF PlaceType
  <2>. HIDE DEF new
  <2>4. ASSUME NEW fd \in tmp_fds' \cap ConnFds
        PROVE  fd \in Handlers' /\ fd < handlerSize' /\ Readable(fd)'
    <3>1. fd \in Handlers /\ Readable(fd)
      BY <1>0, <2>2 DEF ReadyWhenServed, Readable
    <3>. QED
      BY <1>d, <2>1, <2>2, <3>1 DEF ListLongEnough, Readable
  <2>5. PipeFd \in tmp_fds' => handlerSize' > PipeFd
    BY <1>0, <2>2, <2>3 DEF ReadyWhenServed, PlaceType, PipeFd
  <2>. QED
    BY <1>0, <2>1, <2>2, <2>4, <2>5 DEF ReadyWhenServed, Readable
<1>9. CASE Recv
  <2>1. Fd \in Handlers /\ mode' = "handle" /\ mode = "pass"
    BY <1>9, ServedFd DEF Recv, Serving, LoopInv, ReadyWhenServed
  <2>2. UNCHANGED <<tmp_fds, active_fds, handlerSize, handler, peer>> /\ Fd' = Fd
    BY <1>9 DEF Recv, Fd
  <2>3. \A c \in Conns : c /= Conn => inbox'[c] = inbox[c]
    BY <1>0, <1>9 DEF Recv, NetType
  <2>4. ASSUME NEW fd \in tmp_fds \cap ConnFds, fd /= Fd
        PROVE  Readable(fd)'
    <3>1. fd \in Handlers /\ Readable(fd)
      BY <1>0, <2>1, <2>4 DEF ReadyWhenServed, Readable
    <3>2. handler[fd].conn /= Conn /\ handler[fd].conn \in Conns
      BY <1>0, <1>c, <2>1, <2>4, <3>1 DEF OneHandlerEach, Conn
    <3>. QED
      BY <2>2, <2>3, <3>1, <3>2 DEF Readable
  <2>. QED
    BY <1>0, <1>h, <2>1, <2>2, <2>4 DEF ReadyWhenServed, Readable
<1>10. CASE Idle \/ SigChld \/ \E p \in Pids : ChildExit(p)
  BY <1>10, <1>h, <1>s, <1>u DEF Idle, SigChld, ChildExit, loopVars, netVars
<1>11. CASE mode = "handle" /\ Settles
  <2>1. \A fd \in Handlers : handler'[fd].conn = handler[fd].conn
    BY <1>11, HandlerSettled DEF SameOutcome
  <2>. QED
    BY <1>11, <2>1, <1>s, <1>u, HandlerSettled DEF Settles, loopVars, netVars
<1>12. CASE mode = "handle" /\ \E p \in Pids : Launches(p)
  <2>1. Handlers' = Handlers /\ \A fd \in Handlers : handler'[fd].conn = handler[fd].conn
    BY <1>12, HandlerLaunched
  <2>. QED
    BY <1>12, <2>1, <1>s, <1>u DEF Launches, loopVars, netVars
<1>13. ASSUME NEW c \in Conns, Connect(c) \/ Calls(c) \/ Close(c)
       PROVE  ReadyWhenServed'
  <2>1. UNCHANGED <<loopVars, handler>>
    BY <1>13 DEF Connect, Calls, Send, Close
  <2>2. ASSUME NEW fd \in Handlers, Readable(fd)
        PROVE  Readable(fd)'
    <3>. DEFINE d == handler[fd].conn
    <3>1. d \in Conns /\ peer[d] /= "idle"
      BY <1>0, <1>c DEF OneHandlerEach
    <3>2. CASE Connect(c)
      BY <1>0, <2>2, <3>1, <3>2 DEF Connect, Readable, NetType
    <3>3. ASSUME NEW r \in Requests[c], Send(c, r)
          PROVE  Readable(fd)'
      <4>1. inbox' = [inbox EXCEPT ![c] = Append(@, r)] /\ UNCHANGED <<peer, handler>>
        BY <3>3 DEF Send
      <4>2. inbox[c] \in Seq(Sent) /\ r \in Sent
        BY <1>0 DEF NetType, Sent
      <4>3. Append(inbox[c], r) /= <<>>
        BY <4>2
      <4>. QED
        BY <1>0, <2>2, <3>1, <4>1, <4>3 DEF Readable, NetType
    <3>4. CASE Close(c)
      BY <1>0, <2>2, <3>1, <3>4 DEF Close, Readable, NetType
    <3>. QED
      BY <1>13, <3>2, <3>3, <3>4 DEF Calls
  <2>. QED
    BY <2>1, <2>2, <1>h, <1>u DEF loopVars
<1>. QED
  BY <1>1, <1>2, <1>3, <1>4, <1>5, <1>6, <1>7, <1>8, <1>9, <1>10, <1>11, <1>12,
     <1>13, StepKinds

\* A zombie is announced by the signal, the pipe or the loop's place.
LEMMA NoLostChildStep ==
    ASSUME LoopInv, [Next]_vars
    PROVE  NoLostChild'
<1>0. NoLostChild /\ ProcType
  BY DEF LoopInv, LoopType
<1>u. ASSUME UNCHANGED procVars, mode = "reap" => mode' = "reap"
      PROVE  NoLostChild'
  BY <1>0, <1>u DEF NoLostChild, procVars
<1>1. CASE Idle \/ Select \/ EndPass \/ Accept \/ AcceptFails \/ Recv \/ Handled
  BY <1>1, <1>u
     DEF Idle, Select, EndPass, Accept, AcceptFails, Recv, Handled, Serving, loopVars
<1>2. CASE CloseServed
  BY <1>2, <1>u DEF CloseServed, CloseConnection
<1>3. CASE mode = "handle" /\ Settles
  BY <1>3, <1>u DEF Settles
<1>4. CASE \E c \in Conns : Connect(c) \/ Calls(c) \/ Close(c)
  BY <1>4, <1>u DEF Connect, Calls, Send, Close, loopVars
<1>5. CASE ReadPipe
  BY <1>5 DEF ReadPipe, NoLostChild
<1>6. CASE \E p \in Pids : WaitpidOne(p)
  BY <1>6, ReapEffect DEF NoLostChild
<1>7. CASE WaitpidNone
  BY <1>7 DEF WaitpidNone, NoLostChild, procVars
<1>8. CASE Exits
  <2>1. \A p \in Pids : kid'[p].state /= "zombie"
    BY <1>0, <1>8 DEF Exits, Running, NoProcess, ProcType
  <2>. QED
    BY <2>1 DEF NoLostChild
<1>9. CASE mode = "handle" /\ \E p \in Pids : Launches(p)
  <2>1. \A q \in Pids : kid'[q].state = "zombie" => kid[q].state = "zombie"
    BY <1>0, <1>9 DEF Launches, ProcType
  <2>2. UNCHANGED <<sigchld, pipe, mode>>
    BY <1>9 DEF Launches, loopVars
  <2>. QED
    BY <1>0, <2>1, <2>2 DEF NoLostChild
<1>10. CASE SigChld
  <2>1. pipe' > 0
    BY <1>0, <1>10 DEF SigChld, ProcType
  <2>. QED
    BY <2>1 DEF NoLostChild
<1>11. ASSUME NEW p \in Pids, ChildExit(p)
       PROVE  NoLostChild'
  <2>1. CASE mode = "exited"
    <3>1. \A q \in Pids : kid'[q].state = "zombie" => kid[q].state = "zombie"
      BY <1>0, <1>11, <2>1 DEF ChildExit, NoProcess, ProcType
    <3>2. UNCHANGED <<sigchld, pipe, mode>>
      BY <1>11, <2>1 DEF ChildExit, loopVars
    <3>. QED
      BY <1>0, <3>1, <3>2 DEF NoLostChild
  <2>2. CASE mode /= "exited"
    BY <1>11, <2>2 DEF ChildExit, NoLostChild
  <2>. QED
    BY <2>1, <2>2
<1>. QED
  BY <1>1, <1>2, <1>3, <1>4, <1>5, <1>6, <1>7, <1>8, <1>9, <1>10, <1>11, StepKinds

\* What a handler knows of its last child.
OutcomeOf(h) ==
    IF h.pid = None
    THEN IF h.jobs = 0
         THEN ~h.hasExitCode
         ELSE h.hasExitCode /\ h.exitCode = <<h.conn, h.jobs>>
    ELSE kid[h.pid].state /= "none" /\ kid[h.pid].status = <<h.conn, h.jobs>>

LEMMA LastOutcomeStep ==
    ASSUME LoopInv, [Next]_vars
    PROVE  LastOutcome' /\ OwnExitCode'
<1>0. /\ ProcType /\ HandlerType /\ ServingOne
      /\ LastOutcome /\ OwnExitCode
  BY DEF LoopInv, LoopType
<1>a. LastOutcome <=> \A fd \in Handlers : OutcomeOf(handler[fd])
  BY DEF LastOutcome, OutcomeOf
<1>b. LastOutcome' <=> \A fd \in Handlers' : OutcomeOf(handler[fd])'
  BY DEF LastOutcome, OutcomeOf
<1>c. \A fd \in Handlers : handler[fd] \in HandlerStates
  BY <1>0 DEF Handlers, HandlerType
<1>d. \A fd \in Handlers : handler[fd].pid \in Pids \cup {None}
  BY <1>c DEF HandlerStates
\* A handler which knows what it knew, of a process that is still there.
<1>s. ASSUME NEW fd \in Handlers, SameOutcome(handler[fd], handler'[fd]),
             handler[fd].pid \in Pids /\ kid[handler[fd].pid].state /= "none" =>
                   /\ kid'[handler[fd].pid].state /= "none"
                   /\ kid'[handler[fd].pid].status = kid[handler[fd].pid].status
      PROVE  /\ OutcomeOf(handler[fd])'
             /\ handler'[fd].hasExitCode =>
                   handler'[fd].exitCode \in {handler'[fd].conn} \X Nat
             /\ handler'[fd].pid /= None => handler'[fd].jobs > 0
  BY <1>0, <1>a, <1>d, <1>s DEF OutcomeOf, SameOutcome, OwnExitCode
<1>k. ASSUME Handlers' \subseteq Handlers,
             \A fd \in Handlers' : SameOutcome(handler[fd], handler'[fd]),
             \A p \in Pids : kid[p].state /= "none" =>
                 kid'[p].state /= "none" /\ kid'[p].status = kid[p].status
      PROVE  LastOutcome' /\ OwnExitCode'
  BY <1>b, <1>k, <1>s DEF OwnExitCode
<1>u. ASSUME UNCHANGED <<kid, handler>>
      PROVE  LastOutcome' /\ OwnExitCode'
  BY <1>u, <1>k DEF SameOutcome, Handlers
<1>e. ASSUME Handlers' = {}
      PROVE  LastOutcome' /\ OwnExitCode'
  BY <1>b, <1>e DEF OwnExitCode
<1>1. CASE Idle \/ Select \/ EndPass \/ AcceptFails \/ ReadPipe
  BY <1>1, <1>u DEF Idle, Select, EndPass, AcceptFails, ReadPipe, procVars
<1>2. CASE WaitpidNone \/ Recv \/ Handled \/ SigChld
  BY <1>2, <1>u DEF WaitpidNone, Recv, Handled, SigChld, procVars
<1>3. CASE \E c \in Conns : Connect(c) \/ Calls(c) \/ Close(c)
  BY <1>3, <1>u DEF Connect, Calls, Send, Close, procVars
<1>4. CASE Accept
  <2>1. PICK new \in ConnFds :
          /\ Handlers' = Handlers \cup {new}
          /\ handler'[new] = NewHandler(Head(backlog))
          /\ \A f \in Handlers : handler'[f] = handler[f]
    BY <1>4, HandlerAccepted
  <2>2. UNCHANGED kid
    BY <1>4 DEF Accept, procVars
  <2>3. /\ handler'[new].pid = None /\ handler'[new].jobs = 0
        /\ ~handler'[new].hasExitCode
    BY <2>1 DEF NewHandler
  <2>4. ASSUME NEW fd \in Handlers
        PROVE  /\ OutcomeOf(handler[fd])'
               /\ handler'[fd].hasExitCode =>
                     handler'[fd].exitCode \in {handler'[fd].conn} \X Nat
               /\ handler'[fd].pid /= None => handler'[fd].jobs > 0
    BY <2>1, <2>2, <1>s DEF SameOutcome
  <2>. QED
    BY <1>b, <2>1, <2>3, <2>4 DEF OwnExitCode, OutcomeOf
<1>5. CASE CloseServed
  BY <1>5, <1>k, HandlerClosed DEF CloseServed, CloseConnection, SameOutcome, procVars
<1>6. CASE Exits
  BY <1>6, <1>e DEF Exits, Handlers
<1>7. CASE mode = "handle" /\ Settles
  BY <1>7, <1>k, HandlerSettled DEF Settles, procVars
<1>8. ASSUME mode = "handle", NEW p \in Pids, Launches(p)
      PROVE  LastOutcome' /\ OwnExitCode'
  <2>1. /\ Fd \in Handlers /\ Handlers' = Handlers
        /\ \A fd \in Handlers : fd /= Fd => handler'[fd] = handler[fd]
    BY <1>8, ServedHandler, HandlerLaunched
  <2>2. /\ handler'[Fd].conn = handler[Fd].conn /\ handler'[Fd].pid = p
        /\ handler'[Fd].jobs = handler[Fd].jobs + 1
        /\ handler'[Fd].exitCode = handler[Fd].exitCode
        /\ handler'[Fd].hasExitCode = handler[Fd].hasExitCode
    BY <1>8, HandlerLaunched
  <2>3. /\ kid'[p].state = "running"
        /\ kid'[p].status = <<Conn, handler[Fd].jobs + 1>>
        /\ \A q \in Pids : q /= p => kid'[q] = kid[q]
    BY <1>0, <1>8 DEF Launches, ProcType
  <2>4. p /= None /\ kid[p].state = "none"
    BY <1>8, NoneAssumption DEF Launches
  <2>5. OutcomeOf(handler[Fd])' /\ Fd' = Fd
    BY <1>8, <2>2, <2>3, <2>4 DEF OutcomeOf, Conn, Launches, loopVars, Fd
  <2>6. /\ handler'[Fd].hasExitCode =>
             handler'[Fd].exitCode \in {handler'[Fd].conn} \X Nat
        /\ handler'[Fd].jobs > 0
    BY <1>0, <1>c, <2>1, <2>2 DEF OwnExitCode, HandlerStates
  <2>7. ASSUME NEW fd \in Handlers, fd /= Fd
        PROVE  /\ OutcomeOf(handler[fd])'
               /\ handler'[fd].hasExitCode =>
                     handler'[fd].exitCode \in {handler'[fd].conn} \X Nat
               /\ handler'[fd].pid /= None => handler'[fd].jobs > 0
    BY <2>1, <2>3, <2>4, <2>7, <1>s DEF SameOutcome
  <2>. QED
    BY <1>b, <2>1, <2>5, <2>6, <2>7 DEF OwnExitCode
<1>9. ASSUME NEW p \in Pids, WaitpidOne(p)
      PROVE  LastOutcome' /\ OwnExitCode'
  <2>1. /\ Handlers' = Handlers
        /\ \A fd \in Handlers : IF handler[fd].pid = p
                                THEN handler'[fd] = Reaped(handler[fd], kid[p].status)
                                ELSE handler'[fd] = handler[fd]
    BY <1>9, HandlerReaped
  <2>2. p /= None /\ \A q \in Pids : q /= p => kid'[q] = kid[q]
    BY <1>0, <1>9, NoneAssumption DEF WaitpidOne, ProcType
  <2>3. ASSUME NEW fd \in Handlers, handler[fd].pid = p
        PROVE  /\ OutcomeOf(handler[fd])'
               /\ handler'[fd].exitCode \in {handler'[fd].conn} \X Nat
               /\ handler'[fd].pid = None
    <3>1. kid[p].status = <<handler[fd].conn, handler[fd].jobs>> /\ handler[fd].jobs > 0
      BY <1>0, <1>a, <2>2, <2>3 DEF OutcomeOf, OwnExitCode
    <3>2. /\ handler'[fd].pid = None /\ handler'[fd].hasExitCode
          /\ handler'[fd].exitCode = kid[p].status
          /\ handler'[fd].conn = handler[fd].conn /\ handler'[fd].jobs = handler[fd].jobs
      BY <1>c, <2>1, <2>3 DEF Reaped, HandlerStates
    <3>3. handler[fd].jobs \in Nat
      BY <1>c DEF HandlerStates
    <3>. QED
      BY <3>1, <3>2, <3>3 DEF OutcomeOf
  <2>4. ASSUME NEW fd \in Handlers, handler[fd].pid /= p
        PROVE  /\ OutcomeOf(handler[fd])'
               /\ handler'[fd].hasExitCode =>
                     handler'[fd].exitCode \in {handler'[fd].conn} \X Nat
               /\ handler'[fd].pid /= None => handler'[fd].jobs > 0
    BY <2>1, <2>2, <2>4, <1>s DEF SameOutcome
  <2>. QED
    BY <1>b, <2>1, <2>3, <2>4 DEF OwnExitCode
<1>10. ASSUME NEW p \in Pids, ChildExit(p)
       PROVE  LastOutcome' /\ OwnExitCode'
  <2>1. UNCHANGED handler /\ Handlers' = Handlers
    BY <1>10 DEF ChildExit, Handlers
  <2>2. CASE mode = "exited"
    BY <1>0, <1>e, <2>1, <2>2 DEF ServingOne
  <2>3. CASE mode /= "exited"
    <3>1. \A q \in Pids : /\ kid[q].state /= "none" => kid'[q].state /= "none"
                          /\ kid'[q].status = kid[q].status
      BY <1>0, <1>10, <2>3 DEF ChildExit, ProcType, KidStates
    <3>. QED
      BY <1>k, <2>1, <3>1 DEF SameOutcome
  <2>. QED
    BY <2>2, <2>3
<1>. QED
  BY <1>1, <1>2, <1>3, <1>4, <1>5, <1>6, <1>7, <1>8, <1>9, <1>10, StepKinds

-----------------------------------------------------------------------------
(* The theorems about the loop.                                              *)

LEMMA LoopInvInit == SessionInit => LoopInv
<1>. SUFFICES ASSUME SessionInit PROVE LoopInv
  OBVIOUS
<1>1. Handlers = {}
  BY DEF SessionInit, Init, Handlers
<1>2. NetType /\ WorkType
  BY DEF SessionInit, Init, NetType, WorkType
<1>3. ProcType
  BY DEF SessionInit, Init, ProcType, NoProcess, KidStates
<1>4. PlaceType /\ HandlerType
  BY DEF SessionInit, Init, PlaceType, HandlerType
<1>5. StoreType
  <2>1. HeadIsBound(EmptyRepository)
    BY DEF HeadIsBound, EmptyRepository, Stored
  <2>. QED
    BY <2>1, EmptyRepositoryType, KdesudAssumption DEF SessionInit, Init, StoreType
<1>6. OneHandlerEach /\ LastOutcome /\ OwnExitCode
  BY <1>1 DEF SessionInit, Init, OneHandlerEach, LastOutcome, OwnExitCode
<1>7. ListLongEnough /\ NoLostChild
  BY <1>1 DEF SessionInit, Init, ListLongEnough, NoLostChild, NoProcess
<1>8. ServingOne /\ ReadyWhenServed
  BY <1>1 DEF SessionInit, Init, ServingOne, ReadyWhenServed
<1>. QED
  BY <1>2, <1>3, <1>4, <1>5, <1>6, <1>7, <1>8 DEF LoopInv, LoopType

LEMMA LoopInvStep == LoopInv /\ [Next]_vars => LoopInv'
BY LoopTypeStep, StoreStep, OneHandlerEachStep, ListLongEnoughStep, ServingOneStep,
   ReadyWhenServedStep, NoLostChildStep, LastOutcomeStep DEF LoopInv

\* The invariant of main() and of the handlers, whatever the clients send and
\* whenever children end (kdesud.cpp:453-535, handler.cpp).
THEOREM LoopInvariant == Safe => []LoopInv
BY LoopInvInit, LoopInvStep, PTL DEF Safe

\* The daemon keeps its types: every handler, child, clock and entry is one the
\* declarations in kdesud.cpp, handler.h and repo.h allow.
THEOREM DaemonTypeCorrect == Safe => []TypeOK
<1>1. LoopInv => TypeOK
  BY DEF LoopInv, LoopType, ProcType, PlaceType, HandlerType, StoreType, TypeOK,
         Handlers, HandlerStates, KidStates
<1>. QED
  BY <1>1, LoopInvariant, PTL

\* main() only serves connections that exist and are ready, so that recv() never
\* meets EAGAIN on a healthy one (kdesud.cpp:469-532, handler.cpp:64).
THEOREM ReadyWhenServedHolds == Safe => []ReadyWhenServed
<1>1. LoopInv => ReadyWhenServed
  BY DEF LoopInv
<1>. QED
  BY <1>1, LoopInvariant, PTL

\* No child that has ended is forgotten, however signals coalesce
\* (kdesud.cpp:475-492).
THEOREM NoLostChildHolds == Safe => []NoLostChild
<1>1. LoopInv => NoLostChild
  BY DEF LoopInv
<1>. QED
  BY <1>1, LoopInvariant, PTL

\* m_pid and m_exitCode are those of the last command of the connection, although
\* process ids and descriptors are used again (kdesud.cpp:481-490).
THEOREM LastOutcomeHolds == Safe => []LastOutcome
<1>1. LoopInv => LastOutcome
  BY DEF LoopInv
<1>. QED
  BY <1>1, LoopInvariant, PTL

-----------------------------------------------------------------------------
(* What commands find in the store.                                          *)

\* No deadline of the run leaves the range of unsigned int.
NoWrapSent == MaxTime < Never /\ \A t \in TimeoutsSent : MaxTime + t < Never

Swept == NothingDue(repo, swept)

LEMMA AddedNothingDue ==
    ASSUME NEW r \in Repositories, NEW time \in Nat, NothingDue(r, time),
           NEW key \in Keys, NEW value \in Values, NEW group \in Groups,
           NEW timeout \in Nat, NEW now \in Nat, time <= now,
           now < Never, now + timeout < Never
    PROVE  NothingDue(Added(r, key, value, group, timeout, now), time)
<1>. DEFINE new == Added(r, key, value, group, timeout, now)
<1>0. Never \in Nat
  BY RepositoryAssumption DEF Never
<1>1. Deadline(timeout, now) \in Nat
  <2>1. Deadline(timeout, now) \in Times
    BY DeadlineRange
  <2>. QED
    BY <2>1 DEF Times
<1>2. Deadline(timeout, now) > now
  BY <1>0, DeadlineValue
<1>3. Deadline(timeout, now) > time
  BY <1>1, <1>2
<1>4. ASSUME NEW k \in Stored(new)
      PROVE  new.entries[k].timeout > time
  BY <1>3, StoredAfterAdd DEF NothingDue
<1>. QED
  BY <1>4 DEF NothingDue

LEMMA SweptStep ==
    ASSUME NoWrapSent, LoopInv, Swept, [Next]_vars
    PROVE  Swept'
<1>0. /\ repo \in Repositories /\ HeadIsBound(repo)
      /\ clock \in Nat /\ swept \in Nat /\ swept <= clock
      /\ clock' \in Nat /\ clock <= clock' /\ clock' <= MaxTime
      /\ MaxTime \in Nat /\ Never \in Nat
  BY StepStores, KdesudAssumption, RepositoryAssumption DEF LoopInv, StoreType, Never
<1>1. CASE repo' = Expired(repo, clock) /\ swept' = clock
  <2>1. clock < Never
    BY <1>0 DEF NoWrapSent
  <2>. QED
    BY <1>0, <1>1, <2>1, NothingDueAfterExpire DEF Swept
<1>2. CASE Drops /\ UNCHANGED swept
  BY <1>0, <1>2, WithoutStored DEF Drops, Swept, NothingDue
<1>3. CASE Stores(clock') /\ UNCHANGED swept
  <2>1. PICK k1 \in Keys, k2 \in Keys, v1 \in Values, v2 \in Values, g \in Groups,
             t \in TimeoutsSent :
          LET r == Added(repo, k1, v1, g, t, clock)
          IN  repo' \in {r, Added(r, k2, v2, g, t, clock')}
    BY <1>3 DEF Stores
  <2>. DEFINE r == Added(repo, k1, v1, g, t, clock)
  <2>2. t \in Nat /\ MaxTime + t < Never /\ MaxTime < Never
    BY RequestsAssumption DEF NoWrapSent
  <2>3. /\ clock + t < Never /\ clock' + t < Never /\ swept <= clock'
        /\ clock < Never /\ clock' < Never
    <3>1. ASSUME NEW n \in Nat, n <= MaxTime
          PROVE  n < Never /\ n + t < Never
      BY <1>0, <2>2, <3>1
    <3>2. clock <= MaxTime /\ swept <= clock'
      BY <1>0
    <3>. QED
      BY <1>0, <3>1, <3>2
  <2>4. r \in Repositories /\ NothingDue(r, swept)
    BY <1>0, <2>2, <2>3, AddedType, AddedNothingDue DEF Swept
  <2>. HIDE DEF r
  <2>5. NothingDue(Added(r, k2, v2, g, t, clock'), swept)
    BY <1>0, <2>2, <2>3, <2>4, AddedNothingDue
  <2>6. repo' \in {r, Added(r, k2, v2, g, t, clock')}
    BY <2>1 DEF r
  <2>. QED
    BY <1>3, <2>4, <2>5, <2>6 DEF Swept
<1>4. CASE StoreUntouched
  BY <1>4 DEF StoreUntouched, Swept
<1>. QED
  BY <1>1, <1>2, <1>3, <1>4, StepStores DEF StoreUntouched

\* What a handler finds in the store was not due when the pass of the main loop
\* began, as long as no deadline wraps (kdesud.cpp:468, handler.cpp:278-295).
THEOREM FreshStoreHolds ==
    ASSUME NoWrapSent
    PROVE  Safe => []FreshStore
<1>1. SessionInit => Swept
  BY DEF SessionInit, Init, Swept, NothingDue, EmptyRepository, Stored
<1>2. LoopInv /\ Swept /\ [Next]_vars => Swept'
  BY SweptStep
<1>3. LoopInv /\ Swept => FreshStore
  BY DEF LoopInv, StoreType, Swept, FreshStore
<1>. QED
  BY <1>1, <1>2, <1>3, LoopInvariant, PTL DEF Safe

-----------------------------------------------------------------------------
(* The environment of a stored password.                                     *)

\* The value of an environment entry is the environment that the password of the
\* same host, user and command was last stored with.
EnvStored ==
    /\ DOMAIN storedFor = Keys
    /\ \A h, u, c : MakeKey(2, h, u, c) \in Stored(repo)
          => repo.entries[MakeKey(2, h, u, c)].value = storedFor[MakeKey(0, h, u, c)]

\* Nothing is stored that was not there, and what stays is as it was.
Thins == \A k \in Stored(repo') : k \in Stored(repo) /\ repo'.entries[k] = repo.entries[k]

\* expire() and the deletions only take entries away.
LEMMA ExpiredThins ==
    ASSUME repo \in Repositories, repo' = Expired(repo, clock)
    PROVE  Thins
<1>. DEFINE due  == Due(repo, Unsigned(clock))
            rest == Without(repo, due)
<1>1. CASE Unsigned(clock) < repo.head_time
  BY <1>1 DEF Expired, Thins
<1>2. CASE ~(Unsigned(clock) < repo.head_time)
  <2>1. repo' = [rest EXCEPT !.head_time = HeadTimeOf(repo, Stored(repo) \ due)]
    BY <1>2 DEF Expired
  <2>2. rest \in Repositories
    BY WithoutType
  <2>3. repo'.entries = rest.entries
    BY <2>1, <2>2 DEF Repositories
  <2>4. Stored(repo') = Stored(rest)
    BY <2>3 DEF Stored
  <2>. QED
    BY <2>3, <2>4, WithoutStored DEF Thins
<1>. QED
  BY <1>1, <1>2

\* EXEC with a new password and SET add to the store; no other step does, and
\* only the former changes storedFor.
LEMMA CommandThins ==
    ASSUME LoopInv, DoCommand
    PROVE  ExecStore \/ Set \/ (UNCHANGED storedFor /\ Thins)
<1>0. repo \in Repositories
  BY DEF LoopInv, StoreType
<1>u. ASSUME UNCHANGED storeVars
      PROVE  UNCHANGED storedFor /\ Thins
  BY <1>u DEF storeVars, Thins
<1>1. CASE Pass \/ Host \/ Prio \/ Schd
  BY <1>1, <1>u DEF Pass, Host, Prio, Schd, SetHandler
<1>2. CASE Del \/ DelV \/ DelG \/ DelS
  <2>1. UNCHANGED storedFor /\ Drops
    BY <1>2
       DEF Del, DelV, DelG, DelS, Deleting, Removed, WithoutGroup, WithoutSpecial, Drops
  <2>. QED
    BY <1>0, <2>1, WithoutStored DEF Drops, Thins
<1>3. CASE Get \/ GetK \/ ChkG \/ Ping \/ ExecRefused \/ ExecCached
  BY <1>3, <1>u DEF Get, GetK, ChkG, Ping, Asking, ExecRefused, ExecCached
<1>4. CASE Exit \/ Stop \/ ParseError \/ UnknownCommand \/ PeerUidDiffers
  BY <1>4, <1>u
     DEF Exit, Stop, ParseError, UnknownCommand, PeerUidDiffers, Exits, CloseConnection
<1>. QED
  BY <1>1, <1>2, <1>3, <1>4 DEF DoCommand

LEMMA StepThins ==
    ASSUME LoopInv, [Next]_vars
    PROVE  (DoCommand /\ (ExecStore \/ Set)) \/ (UNCHANGED storedFor /\ Thins)
<1>u. ASSUME UNCHANGED storeVars
      PROVE  UNCHANGED storedFor /\ Thins
  BY <1>u DEF storeVars, Thins
<1>1. CASE DoCommand
  BY <1>1, CommandThins
<1>2. CASE Select
  BY <1>2, ExpiredThins DEF Select, LoopInv, StoreType
<1>3. CASE EndPass \/ Accept \/ AcceptFails \/ ReadPipe \/ WaitpidNone
  BY <1>3, <1>u DEF EndPass, Accept, AcceptFails, ReadPipe, WaitpidNone
<1>4. CASE Recv \/ RecvFails \/ Handled \/ \E p \in Pids : WaitpidOne(p)
  BY <1>4, <1>u DEF WaitpidOne, Recv, RecvFails, CloseConnection, Handled
<1>5. CASE Tick \/ SigChld \/ SignalExit \/ \E p \in Pids : ChildExit(p)
  BY <1>5, <1>u DEF Tick, SigChld, SignalExit, Exits, ChildExit
<1>6. CASE \E c \in Conns : Client(c)
  BY <1>6, <1>u DEF Client, Connect, Calls, Send, Receive, ReceiveEof, Close, daemonVars
<1>7. CASE UNCHANGED vars
  BY <1>7, <1>u DEF vars, daemonVars
<1>. QED
  BY <1>1, <1>2, <1>3, <1>4, <1>5, <1>6, <1>7 DEF Next, Daemon, Kernel

\* The value of a new entry; StoredAfterAdd says what becomes of the others.
LEMMA ValueAfterAdd ==
    ASSUME NEW r \in Repositories, NEW key \in Keys, NEW value, NEW group,
           NEW timeout, NEW now
    PROVE  Added(r, key, value, group, timeout, now).entries[key].value = value
BY DEF Added, Repositories

LEMMA EnvStoredStep ==
    ASSUME LoopInv, EnvStored, [Next]_vars
    PROVE  EnvStored'
<1>0. /\ repo \in Repositories /\ DOMAIN storedFor = Keys
      /\ clock \in Nat /\ clock' \in Nat
  BY StepStores, KdesudAssumption DEF LoopInv, StoreType, EnvStored
<1>1. CASE UNCHANGED storedFor /\ Thins
  BY <1>1 DEF EnvStored, Thins
<1>2. CASE Set
  <2>1. Command \in Asked("SET")
    BY <1>2, ExecutedCommand DEF Set
  <2>2. /\ VarKey(Command.name) \in Keys /\ Command.value \in Values
        /\ Command.group \in Groups /\ Command.timeout \in Nat
    BY <2>1, RequestsAssumption DEF TimeoutsSent
  <2>3. \A k \in Stored(repo') : k /= VarKey(Command.name)
           => k \in Stored(repo) /\ repo'.entries[k] = repo.entries[k]
    BY <1>0, <1>2, <2>2, StoredAfterAdd DEF Set
  <2>4. \A h, u, c : MakeKey(2, h, u, c) /= VarKey(Command.name)
    BY DEF MakeKey, VarKey
  <2>. QED
    BY <1>0, <1>2, <2>3, <2>4 DEF Set, EnvStored
<1>3. CASE ExecStore
  <2>1. Exec /\ mode = "handle"
    BY <1>3, ExecutedCommand DEF ExecStore, Exec
  <2>2. handler[Fd].pass \in Values /\ handler[Fd].timeout \in Nat
    BY <1>3, <2>1, ServedHandler, RequestsAssumption DEF ExecStore, HandlerStates
  <2>3. PassKey \in Keys /\ EnvKey \in Keys /\ Command.env \in Values
    BY <2>1, KeysOfExec
  <2>4. NoGroup \in Groups
    BY RepositoryAssumption
  <2>. DEFINE r == Added(repo, EnvKey, Command.env, NoGroup, handler[Fd].timeout, clock)
  <2>5. /\ r \in Repositories
        /\ r.entries[EnvKey].value = Command.env
        /\ \A k \in Stored(r) : k /= EnvKey
              => k \in Stored(repo) /\ r.entries[k] = repo.entries[k]
    <3>1. r \in Repositories
      BY <1>0, <2>2, <2>3, <2>4, AddedType
    <3>2. r.entries[EnvKey].value = Command.env
      BY <1>0, <2>3, ValueAfterAdd
    <3>3. \A k \in Stored(r) : k /= EnvKey
             => k \in Stored(repo) /\ r.entries[k] = repo.entries[k]
      BY <1>0, <2>2, <2>3, <2>4, StoredAfterAdd
    <3>. QED
      BY <3>1, <3>2, <3>3
  <2>6. repo' = Added(r, PassKey, handler[Fd].pass, NoGroup, handler[Fd].timeout, clock')
    BY <1>3 DEF ExecStore, StoredPair
  <2>. HIDE DEF r
  <2>7. \A k \in Stored(repo') : k /= PassKey
           => k \in Stored(r) /\ repo'.entries[k] = r.entries[k]
    BY <1>0, <2>2, <2>3, <2>4, <2>5, <2>6, StoredAfterAdd
  <2>8. storedFor' = [storedFor EXCEPT ![PassKey] = Command.env]
    BY <1>3 DEF ExecStore
  <2>9. ASSUME NEW h, NEW u, NEW c, MakeKey(2, h, u, c) \in Stored(repo')
        PROVE  repo'.entries[MakeKey(2, h, u, c)].value = storedFor'[MakeKey(0, h, u, c)]
    <3>1. MakeKey(2, h, u, c) /= PassKey
      BY DEF MakeKey, PassKey
    <3>2. CASE MakeKey(2, h, u, c) = EnvKey
      <4>1. MakeKey(0, h, u, c) = PassKey
        BY <3>2 DEF MakeKey, PassKey, EnvKey
      <4>. QED
        BY <1>0, <2>3, <2>5, <2>7, <2>8, <2>9, <3>1, <3>2, <4>1
    <3>3. CASE MakeKey(2, h, u, c) /= EnvKey
      <4>1. MakeKey(0, h, u, c) /= PassKey
        BY <3>3 DEF MakeKey, PassKey, EnvKey
      <4>2. /\ MakeKey(2, h, u, c) \in Stored(repo)
            /\ repo'.entries[MakeKey(2, h, u, c)] = repo.entries[MakeKey(2, h, u, c)]
        BY <2>5, <2>7, <2>9, <3>1, <3>3
      <4>. QED
        BY <1>0, <2>8, <4>1, <4>2 DEF EnvStored
    <3>. QED
      BY <3>2, <3>3
  <2>. QED
    BY <1>0, <2>8, <2>9 DEF EnvStored
<1>. QED
  BY <1>1, <1>2, <1>3, StepThins

\* A command with an environment gets a password from the store only when its
\* environment is the one the password was stored with (handler.cpp:277-284):
\* the entry that guards a password may be gone, but it is never of another one.
THEOREM EnvironmentCheckedHolds == Safe => []EnvironmentChecked
<1>1. SessionInit => EnvStored
  BY DEF SessionInit, Init, EnvStored, EmptyRepository, Stored
<1>2. LoopInv /\ EnvStored /\ [Next]_vars => EnvStored'
  BY EnvStoredStep
<1>3. EnvStored => EnvironmentChecked
  <2>. SUFFICES ASSUME EnvStored, Command.env /= Null, CachedPass /= Null
                PROVE  Command.env = storedFor[PassKey]
    BY DEF EnvironmentChecked
  <2>1. Find(repo, EnvKey) = Command.env
    BY DEF CachedPass
  <2>2. EnvKey \in Stored(repo) /\ repo.entries[EnvKey].value = Command.env
    BY <2>1 DEF Find
  <2>. QED
    BY <2>2 DEF EnvStored, EnvKey, PassKey
<1>. QED
  BY <1>1, <1>2, <1>3, LoopInvariant, PTL DEF Safe

-----------------------------------------------------------------------------
(* Where replies go.                                                         *)

OtherReplies == [to : {r.op : r \in Sent} \ {"EXIT"}, ok : BOOLEAN, status : {None}]
ExitReplies(c) == [to : {"EXIT"}, ok : {TRUE}, status : {c} \X Nat]
Replies(c) == OtherReplies \cup ExitReplies(c)

RepliesOfOwn ==
    /\ DOMAIN outbox = Conns
    /\ \A c \in Conns : outbox[c] \in Seq(Replies(c))

\* Nothing is sent, or one reply, to the connection of one handler.
Sends == \E c \in Conns : \E reply \in Replies(c) : outbox' = Posted(outbox, c, reply)

LEMMA CommandSends ==
    ASSUME LoopInv, DoCommand
    PROVE  UNCHANGED outbox \/ Sends
<1>1. ASSUME NEW op, op /= "EXIT", Executing(op), NEW ok \in BOOLEAN,
             outbox' = Posted(outbox, Conn, Reply(ok))
      PROVE  Sends
  <2>1. Conn \in Conns /\ Command \in Sent /\ Command.op = op
    BY <1>1, ServedHandler, ExecutedCommand DEF Executing, Asked
  <2>2. Reply(ok) \in Replies(Conn)
    BY <1>1, <2>1 DEF Reply, Replies, OtherReplies
  <2>. QED
    BY <1>1, <2>1, <2>2 DEF Sends
<1>2. ASSUME NEW op, op /= "EXIT", Executing(op), NEW found, Answered(found),
             found \in BOOLEAN
      PROVE  Sends
  BY <1>1, <1>2 DEF Answered
<1>3. CASE Pass \/ Host \/ Prio \/ Schd
  BY <1>2, <1>3 DEF Pass, Host, Prio, Schd
<1>4. CASE Del \/ DelV \/ DelG \/ DelS \/ Set
  <2>1. ASSUME NEW op, op /= "EXIT", NEW found \in BOOLEAN, NEW new,
               Deleting(op, found, new)
        PROVE  Sends
    BY <1>2, <2>1 DEF Deleting
  <2>2. Set => Sends
    BY <1>2 DEF Set
  <2>3. Del => Sends
    <3>. DEFINE found == DelKey \in Stored(repo)
    <3>1. found \in BOOLEAN
      OBVIOUS
    <3>2. ASSUME Del
          PROVE  Deleting("DEL", found, Removed(repo, DelKey))
      BY <3>2 DEF Del
    <3>. HIDE DEF found
    <3>. QED
      BY <2>1, <3>1, <3>2
  <2>4. DelV => Sends
    <3>. DEFINE found == VarKey(Command.name) \in Stored(repo)
    <3>1. found \in BOOLEAN
      OBVIOUS
    <3>2. ASSUME DelV
          PROVE  Deleting("DELV", found, Removed(repo, VarKey(Command.name)))
      BY <3>2 DEF DelV
    <3>. HIDE DEF found
    <3>. QED
      BY <2>1, <3>1, <3>2
  <2>5. DelG => Sends
    BY <2>1, Zenon DEF DelG
  <2>6. DelS => Sends
    BY <2>1, Zenon DEF DelS
  <2>. QED
    BY <1>4, <2>2, <2>3, <2>4, <2>5, <2>6
<1>5. CASE Get \/ GetK \/ ChkG \/ Ping
  <2>1. ASSUME NEW op, op /= "EXIT", NEW found \in BOOLEAN, Asking(op, found)
        PROVE  Sends
    BY <1>2, <2>1 DEF Asking
  <2>. QED
    BY <1>5, <2>1 DEF Get, GetK, ChkG, Ping, FindsKeys, HasGroup
<1>6. CASE ExecRefused \/ ExecCached \/ ExecStore
  BY <1>1, <1>6 DEF ExecRefused, ExecCached, ExecStore, Exec, Fork
<1>7. CASE Exit
  <2>. DEFINE h == [handler[Fd] EXCEPT !.needExitCode = TRUE]
  <2>1. /\ mode = "handle" /\ Fd \in Handlers /\ handler[Fd] \in HandlerStates
        /\ Conn \in Conns
    BY <1>7, ServedHandler DEF Exit, Executing
  <2>2. CASE h.hasExitCode
    <3>1. h.conn = Conn /\ h.exitCode = handler[Fd].exitCode /\ handler[Fd].hasExitCode
      BY <2>1, <2>2 DEF HandlerStates, Conn
    <3>2. ExitReply(h) \in Replies(Conn)
      BY <2>1, <3>1 DEF LoopInv, OwnExitCode, ExitReply, Replies, ExitReplies, Conn
    <3>3. h.needExitCode
      BY <2>1 DEF HandlerStates
    <3>. QED
      BY <1>7, <2>1, <2>2, <3>1, <3>2, <3>3 DEF Exit, AnsweredNow, ExitPosted, Sends
  <2>3. CASE ~h.hasExitCode
    BY <1>7, <2>3 DEF Exit, AnsweredNow
  <2>. QED
    BY <2>2, <2>3
<1>8. CASE Stop \/ UnknownCommand
  BY <1>1, <1>8 DEF Stop, UnknownCommand
<1>9. CASE ParseError \/ PeerUidDiffers
  BY <1>9 DEF ParseError, PeerUidDiffers
<1>. QED
  BY <1>3, <1>4, <1>5, <1>6, <1>7, <1>8, <1>9 DEF DoCommand

\* The status a collected child reports goes to the handler that launched it.
LEMMA ReapSends ==
    ASSUME LoopInv, NEW p \in Pids, WaitpidOne(p)
    PROVE  UNCHANGED outbox \/ Sends
<1>. DEFINE owners == {f \in ConnFds : handler[f] /= None /\ handler[f].pid = p}
<1>1. CASE owners = {}
  BY <1>1 DEF WaitpidOne
<1>2. CASE owners /= {}
  <2>1. PICK fd \in owners : TRUE
    BY <1>2
  <2>. DEFINE h == Reaped(handler[fd], kid[p].status)
  <2>2. fd \in Handlers /\ handler[fd].pid = p /\ handler[fd] \in HandlerStates
    BY <2>1 DEF Handlers, LoopInv, LoopType, HandlerType
  <2>3. outbox' = ExitPosted(outbox, h)
    BY <1>2, <2>2, MaxOwner DEF WaitpidOne
  <2>4. kid[p].status = <<handler[fd].conn, handler[fd].jobs>>
    BY <2>2, NoneAssumption DEF LoopInv, LastOutcome
  <2>5. h.conn \in Conns /\ h.exitCode \in {h.conn} \X Nat
    BY <2>2, <2>4 DEF Reaped, HandlerStates
  <2>. HIDE DEF h
  <2>6. ExitReply(h) \in Replies(h.conn)
    BY <2>5 DEF ExitReply, Replies, ExitReplies
  <2>. QED
    BY <2>3, <2>5, <2>6 DEF ExitPosted, Sends
<1>. QED
  BY <1>1, <1>2

LEMMA StepSends ==
    ASSUME LoopInv, [Next]_vars
    PROVE  \/ UNCHANGED outbox
           \/ Sends
           \/ \E c \in Conns : outbox' = [outbox EXCEPT ![c] = <<>>]
<1>1. CASE DoCommand
  BY <1>1, CommandSends
<1>2. CASE \E p \in Pids : WaitpidOne(p)
  BY <1>2, ReapSends
<1>3. CASE Select \/ EndPass \/ Accept \/ AcceptFails \/ ReadPipe \/ WaitpidNone
  BY <1>3 DEF Select, EndPass, Accept, AcceptFails, ReadPipe, WaitpidNone
<1>4. CASE Recv \/ RecvFails \/ Handled
  BY <1>4 DEF Recv, RecvFails, Handled
<1>5. CASE Tick \/ SigChld \/ SignalExit \/ \E p \in Pids : ChildExit(p)
  BY <1>5 DEF Tick, SigChld, SignalExit, ChildExit
<1>6. CASE \E c \in Conns : Client(c)
  BY <1>6 DEF Client, Connect, Calls, Send, Receive, ReceiveEof, Close, daemonVars
<1>7. CASE UNCHANGED vars
  BY <1>7 DEF vars, daemonVars
<1>. QED
  BY <1>1, <1>2, <1>3, <1>4, <1>5, <1>6, <1>7 DEF Next, Daemon, Kernel

LEMMA RepliesOfOwnStep ==
    ASSUME LoopInv, RepliesOfOwn, [Next]_vars
    PROVE  RepliesOfOwn'
<1>1. CASE Sends
  <2>0. PICK c \in Conns : \E reply \in Replies(c) : outbox' = Posted(outbox, c, reply)
    BY <1>1 DEF Sends
  <2>1. PICK reply \in Replies(c) : outbox' = Posted(outbox, c, reply)
    BY <2>0
  <2>2. Append(outbox[c], reply) \in Seq(Replies(c))
    BY DEF RepliesOfOwn
  <2>. QED
    BY <2>1, <2>2 DEF Posted, RepliesOfOwn
<1>2. CASE \E c \in Conns : outbox' = [outbox EXCEPT ![c] = <<>>]
  BY <1>2 DEF RepliesOfOwn
<1>3. CASE UNCHANGED outbox
  BY <1>3 DEF RepliesOfOwn
<1>. QED
  BY <1>1, <1>2, <1>3, StepSends

\* An exit code reaches the connection that launched the command and no other
\* (kdesud.cpp:481-490, handler.cpp:113-124, 505-513).
THEOREM ExitGoesToLauncherHolds == Safe => []ExitGoesToLauncher
<1>1. SessionInit => RepliesOfOwn
  BY DEF SessionInit, Init, RepliesOfOwn
<1>2. LoopInv /\ RepliesOfOwn /\ [Next]_vars => RepliesOfOwn'
  BY RepliesOfOwnStep
<1>3. RepliesOfOwn => ExitGoesToLauncher
  <2>. SUFFICES ASSUME RepliesOfOwn, NEW c \in Conns, NEW reply \in ToSet(outbox[c]),
                       reply.to = "EXIT"
                PROVE  reply.status /= None /\ reply.status[1] = c
    BY DEF ExitGoesToLauncher
  <2>1. reply \in Replies(c)
    BY DEF RepliesOfOwn, ToSet
  <2>2. reply.status \in {c} \X Nat
    BY <2>1 DEF Replies, OtherReplies, ExitReplies
  <2>. QED
    BY <2>2, NoneAssumption DEF Results
<1>. QED
  BY <1>1, <1>2, <1>3, LoopInvariant, PTL DEF Safe

\* The key that DEL takes away is the one EXEC would look for, when both are of the
\* same user; nothing else is left under it.
LEMMA DelForgetsStep ==
    ASSUME LoopInv, Del, AuthUser(handler[Fd], Command.user) = Command.user
    PROVE  PassKey \notin Stored(repo')
<1>1. repo' = Without(repo, {DelKey})
  BY DEF Del, Deleting, Removed
<1>2. PassKey = DelKey
  BY DEF PassKey, DelKey
<1>3. Stored(repo') = Stored(repo) \ {DelKey}
  BY <1>1, WithoutStored DEF LoopInv, StoreType
<1>. QED
  BY <1>2, <1>3

\* After DEL the password that EXEC of the same command for the same user would
\* take is gone (handler.cpp:339-361).
THEOREM DelForgetsOwnHolds == Safe => DelForgetsOwn
<1>1. LoopInv /\ [Next]_vars
        => [Del /\ AuthUser(handler[Fd], Command.user) = Command.user
              => PassKey \notin Stored(repo')]_vars
  BY DelForgetsStep
<1>. QED
  BY <1>1, LoopInvariant, PTL DEF Safe, DelForgetsOwn

-----------------------------------------------------------------------------
(* What class Client reads: where the command is whose reply is awaited.     *)

\* EXIT has been asked for and the command has not ended.
Owes(h) == h.needExitCode /\ ~h.hasExitCode

\* The commands of a connection that are being executed.
WorkOf(fd) == IF mode = "handle" /\ fd = Fd THEN work ELSE <<>>

\* One command, which its client awaits the reply to.
OneCommand(c, commands) ==
    \E r \in Sent : /\ commands = <<r>> /\ r.op = waiting[c]
                    /\ r.op = "EXEC" => sent[c].launched = 0

\* Either no reply is awaited, or the command is in one place: on its way, being
\* executed, an EXIT that the handler keeps in mind, or answered.
Turn(c, commands, owes) ==
    \/ /\ waiting[c] = None
       /\ commands = <<>> /\ inbox[c] = <<>> /\ outbox[c] = <<>> /\ ~owes
    \/ OneCommand(c, inbox[c]) /\ commands = <<>> /\ outbox[c] = <<>> /\ ~owes
    \/ OneCommand(c, commands) /\ inbox[c] = <<>> /\ outbox[c] = <<>> /\ ~owes
    \/ /\ waiting[c] = "EXIT" /\ owes
       /\ commands = <<>> /\ inbox[c] = <<>> /\ outbox[c] = <<>>
    \/ outbox[c] /= <<>> /\ commands = <<>> /\ inbox[c] = <<>> /\ ~owes

\* What has been answered is what was asked, with the status of the one command.
GoodAnswer(c) ==
    outbox[c] /= <<>> =>
        /\ Len(outbox[c]) = 1 /\ waiting[c] /= None
        /\ outbox[c][1].to = waiting[c]
        /\ waiting[c] = "EXIT" => outbox[c][1].status = <<c, sent[c].launched>>

\* The client has not read yet that its command was launched.
LaunchUnread(c) == outbox[c] /= <<>> /\ waiting[c] = "EXEC" /\ outbox[c][1].ok

\* A handler has launched what its client knows of, or will read of, at most one.
OneLaunch(c, h) ==
    /\ IF LaunchUnread(c) THEN h.jobs = 1 /\ sent[c].launched = 0
                          ELSE h.jobs = sent[c].launched
    /\ h.jobs <= 1
    /\ h.pid /= None => ~h.hasExitCode

\* The daemon has not seen the connection yet.
Unheard(c) ==
    /\ outbox[c] = <<>> /\ sent[c].launched = 0
    /\ (waiting[c] = None /\ inbox[c] = <<>>) \/ OneCommand(c, inbox[c])

Waits(c) == mode /= "exited" /\ \E i \in DOMAIN backlog : backlog[i] = c

Conversing(c) ==
    /\ peer[c] = "idle" => Unheard(c) /\ waiting[c] = None
    /\ peer[c] = "open" =>
          /\ GoodAnswer(c)
          /\ Waits(c) => Unheard(c)
          /\ \A fd \in Handlers : handler[fd].conn = c =>
                Turn(c, WorkOf(fd), Owes(handler[fd])) /\ OneLaunch(c, handler[fd])

Conversation == \A c \in Conns \ Pipelining : Conversing(c)

\* Nothing reaches, and nothing is awaited by, a client without a connection.
Silent(c) == peer[c] /= "open" => outbox[c] = <<>> /\ waiting[c] = None

TalkType ==
    /\ RepliesOfOwn
    /\ \A c \in Conns : Silent(c)
    /\ DOMAIN waiting = Conns
    /\ sent \in [Conns -> [count : Nat, launched : Nat]]

-----------------------------------------------------------------------------
(* Steps that do not touch a connection.                                     *)

Untouched(c) ==
    /\ peer'[c] = peer[c] /\ inbox'[c] = inbox[c] /\ outbox'[c] = outbox[c]
    /\ waiting'[c] = waiting[c] /\ sent'[c] = sent[c]

\* What a handler h has become owes its client what h does.
SameTalk(h, g) ==
    /\ g.jobs = h.jobs
    /\ Owes(g) <=> Owes(h)
    /\ g.pid /= None => ~g.hasExitCode

LEMMA Frame ==
    ASSUME NEW c \in Conns, Conversing(c), Untouched(c), Waits(c)' => Waits(c),
           \A fd \in Handlers' : handler'[fd].conn = c =>
              /\ fd \in Handlers /\ handler[fd].conn = c
              /\ WorkOf(fd)' = WorkOf(fd)
              /\ peer[c] = "open" => SameTalk(handler[fd], handler'[fd])
    PROVE  Conversing(c)'
<1>. USE DEF Untouched
<1>1. CASE peer[c] = "open"
  <2>1. GoodAnswer(c)'
    BY <1>1 DEF Conversing, GoodAnswer
  <2>2. Waits(c)' => Unheard(c)'
    BY <1>1 DEF Conversing, Unheard, OneCommand
  <2>3. ASSUME NEW fd \in Handlers', handler'[fd].conn = c
        PROVE  Turn(c, WorkOf(fd), Owes(handler[fd]))' /\ OneLaunch(c, handler[fd])'
    <3>1. /\ Turn(c, WorkOf(fd), Owes(handler[fd])) /\ OneLaunch(c, handler[fd])
          /\ WorkOf(fd)' = WorkOf(fd) /\ SameTalk(handler[fd], handler'[fd])
      BY <1>1, <2>3 DEF Conversing
    <3>2. Turn(c, WorkOf(fd), Owes(handler[fd]))'
      BY <3>1 DEF Turn, OneCommand, SameTalk
    <3>3. OneLaunch(c, handler[fd])'
      BY <3>1 DEF OneLaunch, LaunchUnread, SameTalk
    <3>. QED
      BY <3>2, <3>3
  <2>. QED
    BY <1>1, <2>1, <2>2, <2>3 DEF Conversing
<1>2. CASE peer[c] /= "open"
  BY <1>2 DEF Conversing, Unheard, OneCommand
<1>. QED
  BY <1>1, <1>2

\* The commonest case: no handler changes and the same commands are executed.
LEMMA FrameAll ==
    ASSUME NEW c \in Conns, LoopInv, Conversing(c), UNCHANGED <<handler, backlog, tmp_fds>>,
           Untouched(c), mode = "exited" => mode' = "exited",
           \/ UNCHANGED <<mode, work>>
           \/ (mode /= "handle" \/ work = <<>>) /\ mode' /= "handle"
    PROVE  Conversing(c)'
<1>1. Waits(c)' => Waits(c)
  BY DEF Waits
<1>2. \A fd : WorkOf(fd)' = WorkOf(fd)
  BY DEF WorkOf, Fd
<1>3. Handlers' = Handlers
  BY DEF Handlers
<1>4. ASSUME NEW fd \in Handlers, handler[fd].conn = c, peer[c] = "open"
      PROVE  SameTalk(handler[fd], handler'[fd])
  BY <1>4 DEF Conversing, OneLaunch, SameTalk
<1>. QED
  BY <1>1, <1>2, <1>3, <1>4, Frame

-----------------------------------------------------------------------------
(* The steps of the loop.                                                    *)

LEMMA QuietStep ==
    ASSUME LoopInv, NEW c \in Conns, Conversing(c), UNCHANGED clientVars,
           \/ Tick \/ SigChld \/ (\E p \in Pids : ChildExit(p))
           \/ Select \/ EndPass \/ AcceptFails \/ ReadPipe \/ WaitpidNone \/ Handled
    PROVE  Conversing(c)'
<1>. USE DEF netVars, loopVars, Untouched, clientVars
<1>1. CASE Tick \/ SigChld \/ \E p \in Pids : ChildExit(p)
  BY <1>1, FrameAll DEF Tick, SigChld, ChildExit
<1>2. CASE Handled
  <2>1. \A fd : WorkOf(fd)' = WorkOf(fd)
    BY <1>2 DEF Handled, WorkOf
  <2>2. Handlers' = Handlers /\ (Waits(c)' => Waits(c))
    BY <1>2 DEF Handled, Handlers, Waits
  <2>3. ASSUME NEW fd \in Handlers, handler[fd].conn = c, peer[c] = "open"
        PROVE  SameTalk(handler[fd], handler'[fd])
    BY <1>2, <2>3 DEF Handled, Conversing, OneLaunch, SameTalk
  <2>. QED
    BY <1>2, <2>1, <2>2, <2>3, Frame DEF Handled
<1>3. CASE Select \/ EndPass \/ AcceptFails \/ ReadPipe \/ WaitpidNone
  <2>1. /\ UNCHANGED <<handler, backlog, peer, inbox, outbox, work>>
        /\ mode \notin {"handle", "exited"} /\ mode' \notin {"handle", "exited"}
    BY <1>3 DEF Select, EndPass, AcceptFails, ReadPipe, WaitpidNone, Serving
  <2>2. \A fd : WorkOf(fd)' = WorkOf(fd)
    BY <2>1 DEF WorkOf
  <2>3. Handlers' = Handlers /\ (Waits(c)' => Waits(c))
    BY <2>1 DEF Handlers, Waits
  <2>4. ASSUME NEW fd \in Handlers, handler[fd].conn = c, peer[c] = "open"
        PROVE  SameTalk(handler[fd], handler'[fd])
    BY <2>1, <2>4 DEF Conversing, OneLaunch, SameTalk
  <2>. QED
    BY <2>1, <2>2, <2>3, <2>4, Frame
<1>. QED
  BY <1>1, <1>2, <1>3

\* accept() makes the handler of a connection whose commands nobody has read.
LEMMA AcceptStep ==
    ASSUME LoopInv, TalkType, NEW c \in Conns, Conversing(c), UNCHANGED clientVars, Accept
    PROVE  Conversing(c)'
<1>0. /\ Untouched(c) /\ mode = "pass" /\ mode' = "pass"
      /\ backlog' = Tail(backlog) /\ Head(backlog) \in Conns
      /\ backlog \in Seq(Conns) /\ backlog /= <<>>
  BY HandlerAccepted DEF Accept, Serving, Untouched, clientVars
<1>1. PICK new \in ConnFds :
         /\ Handlers' = Handlers \cup {new} /\ new \notin Handlers
         /\ handler'[new] = NewHandler(Head(backlog))
         /\ \A f \in Handlers : handler'[f] = handler[f]
  BY HandlerAccepted
<1>2. \A fd : WorkOf(fd)' = <<>> /\ WorkOf(fd) = <<>>
  BY <1>0 DEF WorkOf
<1>3. Waits(c)' => Waits(c)
  BY <1>0 DEF Waits
<1>4. CASE c /= Head(backlog)
  <2>1. handler'[new].conn /= c
    BY <1>1, <1>4 DEF NewHandler
  <2>2. ASSUME NEW fd \in Handlers, handler[fd].conn = c, peer[c] = "open"
        PROVE  SameTalk(handler[fd], handler'[fd])
    BY <1>1, <2>2 DEF Conversing, OneLaunch, SameTalk
  <2>. QED
    BY <1>0, <1>1, <1>2, <1>3, <2>1, <2>2, Frame
<1>5. CASE c = Head(backlog)
  <2>1. Waits(c)
    BY <1>0, <1>5 DEF Waits
  <2>2. peer[c] /= "idle" /\ \A fd \in Handlers : handler[fd].conn /= c
    BY <1>0, <1>5 DEF LoopInv, OneHandlerEach
  <2>3. CASE peer[c] = "open"
    <3>1. Unheard(c) /\ GoodAnswer(c)
      BY <2>1, <2>3 DEF Conversing
    <3>2. Unheard(c)' /\ GoodAnswer(c)'
      BY <1>0, <3>1 DEF Unheard, GoodAnswer, OneCommand, Untouched
    <3>3. ~Owes(handler'[new]) /\ handler'[new].jobs = 0 /\ handler'[new].pid = None
      BY <1>1 DEF NewHandler, Owes
    <3>4. Turn(c, WorkOf(new), Owes(handler[new]))'
      BY <1>2, <3>2, <3>3 DEF Turn, Unheard
    <3>5. OneLaunch(c, handler[new])'
      BY <3>2, <3>3 DEF OneLaunch, Unheard, LaunchUnread
    <3>. QED
      BY <1>0, <1>1, <2>2, <2>3, <3>2, <3>4, <3>5 DEF Conversing, Untouched
  <2>. QED
    BY <1>0, <2>2, <2>3 DEF Conversing, Untouched
<1>. QED
  BY <1>4, <1>5

\* recv() takes the one command that waits.
LEMMA RecvStep ==
    ASSUME LoopInv, TalkType, NEW c \in Conns, Conversing(c), UNCHANGED clientVars, Recv
    PROVE  Conversing(c)'
<1>0. /\ UNCHANGED <<handler, peer, outbox, waiting, sent, backlog, tmp_fds>>
      /\ Handlers' = Handlers /\ Fd' = Fd /\ mode = "pass" /\ mode' = "handle"
      /\ Fd \in Handlers /\ Conn \in Conns
  BY ServedFd
     DEF Recv, Serving, clientVars, Handlers, Fd, LoopInv, ReadyWhenServed, LoopType,
         HandlerType, HandlerStates, Conn
<1>1. PICK n \in 1 .. Len(inbox[Conn]) :
         /\ work' = SubSeq(inbox[Conn], 1, n)
         /\ inbox' = [inbox EXCEPT ![Conn] = SubSeq(@, n + 1, Len(@))]
  BY DEF Recv
<1>2. \A fd : WorkOf(fd) = <<>> /\ WorkOf(fd)' = IF fd = Fd THEN work' ELSE <<>>
  BY <1>0 DEF WorkOf
<1>3. Waits(c)' => Waits(c)
  BY <1>0 DEF Waits
<1>4. CASE c /= Conn
  <2>1. inbox'[c] = inbox[c]
    BY <1>1, <1>4 DEF LoopInv, LoopType, NetType
  <2>2. ASSUME NEW fd \in Handlers, handler[fd].conn = c
        PROVE  fd /= Fd /\ (peer[c] = "open" => SameTalk(handler[fd], handler'[fd]))
    BY <1>0, <1>4, <2>2 DEF Conversing, OneLaunch, SameTalk, Conn
  <2>. QED
    BY <1>0, <1>2, <1>3, <2>1, <2>2, Frame DEF Untouched
<1>5. CASE c = Conn /\ peer[c] = "open"
  <2>1. /\ Turn(c, <<>>, Owes(handler[Fd])) /\ OneLaunch(c, handler[Fd]) /\ GoodAnswer(c)
    BY <1>0, <1>2, <1>5 DEF Conversing, Conn
  <2>2. inbox[c] /= <<>>
    BY <1>1, <1>5
  <2>3. ~Owes(handler[Fd]) /\ outbox[c] = <<>> /\ OneCommand(c, inbox[c])
    BY <2>1, <2>2 DEF Turn, OneCommand
  <2>4. PICK r \in Sent : inbox[c] = <<r>> /\ r.op = waiting[c]
                          /\ (r.op = "EXEC" => sent[c].launched = 0)
    BY <2>3 DEF OneCommand
  <2>5. n = 1 /\ work' = <<r>> /\ inbox'[c] = <<>>
    <3>1. Len(inbox[c]) = 1 /\ n = 1
      BY <1>5, <2>4
    <3>2. SubSeq(<<r>>, 1, 1) = <<r>>
      <4>1. <<r>> \in Seq(Sent) /\ Len(<<r>>) = 1
        OBVIOUS
      <4>. QED
        BY <4>1, SubSeqFull, Zenon
    <3>3. SubSeq(<<r>>, 2, 1) = <<>>
      BY SubSeqEmpty
    <3>4. inbox'[c] = SubSeq(inbox[c], n + 1, Len(inbox[c]))
      BY <1>1, <1>5 DEF LoopInv, LoopType, NetType
    <3>. QED
      BY <1>1, <1>5, <2>4, <3>1, <3>2, <3>3, <3>4
  <2>6. OneCommand(c, work)'
    BY <1>0, <2>4, <2>5 DEF OneCommand
  <2>7. Turn(c, WorkOf(Fd), Owes(handler[Fd]))'
    BY <1>0, <1>2, <2>3, <2>5, <2>6 DEF Turn
  <2>8. OneLaunch(c, handler[Fd])' /\ GoodAnswer(c)'
    BY <1>0, <2>1 DEF OneLaunch, LaunchUnread, GoodAnswer
  <2>9. \A fd \in Handlers : handler[fd].conn = c => fd = Fd
    BY <1>0, <1>5 DEF LoopInv, OneHandlerEach, Conn
  <2>10. ~Waits(c)
    BY <1>0, <1>5 DEF LoopInv, OneHandlerEach, Conn, Waits
  <2>. QED
    BY <1>0, <1>3, <1>5, <2>7, <2>8, <2>9, <2>10 DEF Conversing
<1>6. CASE c = Conn /\ peer[c] /= "open"
  <2>1. peer[c] /= "idle"
    BY <1>0, <1>6 DEF LoopInv, OneHandlerEach, Conn
  <2>. QED
    BY <1>0, <1>6, <2>1 DEF Conversing
<1>. QED
  BY <1>4, <1>5, <1>6

-----------------------------------------------------------------------------
(* The ends of connections and of the daemon.                                *)

LEMMA PostedTo ==
    ASSUME DOMAIN outbox = Conns, NEW c \in Conns, NEW d \in Conns, NEW reply
    PROVE  Posted(outbox, d, reply)[c] =
               IF c = d /\ peer[c] = "open" THEN Append(outbox[c], reply) ELSE outbox[c]
BY DEF Posted

\* The connection whose commands are executed was accepted, and has no other
\* handler than the one that executes them.
LEMMA ServedConn ==
    ASSUME LoopInv, mode = "handle"
    PROVE  /\ Fd \in Handlers /\ Conn \in Conns /\ handler[Fd] \in HandlerStates
           /\ peer[Conn] /= "idle" /\ ~Waits(Conn)
           /\ \A fd \in Handlers : handler[fd].conn = Conn <=> fd = Fd
BY ServedHandler DEF LoopInv, OneHandlerEach, Waits, Conn

\* The command that is executed is the one its client awaits the reply to.
LEMMA ServedTurn ==
    ASSUME LoopInv, mode = "handle", work /= <<>>, Conversing(Conn), peer[Conn] = "open"
    PROVE  /\ Tail(work) = <<>> /\ Command \in Sent /\ Command.op = waiting[Conn]
           /\ Command.op /= None
           /\ inbox[Conn] = <<>> /\ outbox[Conn] = <<>> /\ ~Owes(handler[Fd])
           /\ handler[Fd].jobs = sent[Conn].launched /\ handler[Fd].jobs <= 1
           /\ Command.op = "EXEC" => handler[Fd].jobs = 0
           /\ handler[Fd].pid /= None => ~handler[Fd].hasExitCode
<1>1. Fd \in Handlers /\ handler[Fd].conn = Conn
  BY ServedConn DEF Conn
<1>2. Turn(Conn, work, Owes(handler[Fd])) /\ OneLaunch(Conn, handler[Fd])
  BY <1>1 DEF Conversing, WorkOf
<1>3. OneCommand(Conn, work) /\ inbox[Conn] = <<>> /\ outbox[Conn] = <<>> /\ ~Owes(handler[Fd])
  BY <1>2 DEF Turn
<1>4. PICK r \in Sent : /\ work = <<r>> /\ r.op = waiting[Conn]
                        /\ r.op = "EXEC" => sent[Conn].launched = 0
  BY <1>3 DEF OneCommand
<1>5. Command = r /\ Tail(work) = <<>>
  <2>1. Len(work) = 1 /\ work[1] = r /\ work \in Seq(Sent)
    BY <1>4
  <2>2. Head(work) = r
    BY <2>1
  <2>3. Tail(work) = SubSeq(work, 2, 1)
    BY <2>1, TailIsSubSeq
  <2>. QED
    BY <2>2, <2>3, SubSeqEmpty DEF Command
<1>6. r.op /= None
  <2>1. r.op \in {q.op : q \in Sent}
    OBVIOUS
  <2>. QED
    BY <2>1, NoneAssumption
<1>. QED
  BY <1>2, <1>3, <1>4, <1>5, <1>6 DEF OneLaunch, LaunchUnread

\* An answer to the command that is executed is a good one.
LEMMA AnsweredGood ==
    ASSUME LoopInv, TalkType, mode = "handle", work /= <<>>, Conversing(Conn),
           peer[Conn] = "open", NEW reply, outbox' = Posted(outbox, Conn, reply),
           reply.to = Command.op, UNCHANGED clientVars,
           reply.to = "EXIT" => reply.status = <<Conn, sent[Conn].launched>>
    PROVE  outbox'[Conn] = <<reply>> /\ \A c : c = Conn => GoodAnswer(c)'
<1>1. Conn \in Conns /\ outbox[Conn] = <<>>
  BY ServedConn, ServedTurn
<1>2. outbox'[Conn] = <<reply>>
  <2>1. Append(<<>>, reply) = <<reply>>
    OBVIOUS
  <2>2. DOMAIN outbox = Conns
    BY DEF TalkType, RepliesOfOwn
  <2>. QED
    BY <1>1, <2>1, <2>2, Zenon DEF Posted
<1>3. Command.op = waiting[Conn] /\ Command.op /= None
  BY ServedTurn
<1>4. Len(<<reply>>) = 1 /\ <<reply>>[1] = reply
  OBVIOUS
<1>. QED
  BY <1>2, <1>3, <1>4 DEF GoodAnswer, clientVars

\* Whatever becomes of the handler that is served, the others are not affected.
LEMMA OthersStep ==
    ASSUME LoopInv, mode = "handle", NEW c \in Conns, c /= Conn, Conversing(c),
           UNCHANGED netVars, UNCHANGED clientVars, outbox'[c] = outbox[c],
           Handlers' \subseteq Handlers,
           \A fd \in Handlers' : fd /= Fd => handler'[fd] = handler[fd],
           \A fd \in Handlers' : handler'[fd].conn = handler[fd].conn,
           Handlers' = {} \/ mode' /= "handle" \/ Fd' = Fd
    PROVE  Conversing(c)'
<1>1. Untouched(c)
  BY DEF Untouched, netVars, clientVars
<1>2. Waits(c)' => Waits(c)
  BY DEF Waits, netVars
<1>3. ASSUME NEW fd \in Handlers', handler'[fd].conn = c
      PROVE  /\ fd \in Handlers /\ handler[fd].conn = c
             /\ WorkOf(fd)' = WorkOf(fd)
             /\ peer[c] = "open" => SameTalk(handler[fd], handler'[fd])
  <2>1. fd \in Handlers /\ handler[fd].conn = c /\ fd /= Fd
    BY <1>3, ServedConn
  <2>2. WorkOf(fd)' = <<>> /\ WorkOf(fd) = <<>>
    BY <1>3, <2>1 DEF WorkOf
  <2>3. handler'[fd] = handler[fd]
    BY <2>1
  <2>4. peer[c] = "open" => SameTalk(handler[fd], handler'[fd])
    BY <2>1, <2>3 DEF Conversing, OneLaunch, SameTalk
  <2>. QED
    BY <2>1, <2>2, <2>4
<1>. QED
  BY <1>1, <1>2, <1>3, Frame

\* A connection that has lost its handler only keeps what was sent last.
LEMMA LastAnswer ==
    ASSUME LoopInv, mode = "handle", NEW c \in Conns, c = Conn,
           UNCHANGED netVars, UNCHANGED clientVars,
           \A fd \in Handlers' : handler'[fd].conn /= c,
           peer[c] = "open" => GoodAnswer(c)'
    PROVE  Conversing(c)'
<1>1. peer'[c] /= "idle" /\ ~Waits(c)'
  BY ServedConn DEF Waits, netVars
<1>. QED
  BY <1>1 DEF Conversing, netVars

\* End of file, a parse error or a peer of another user: nothing is sent.
LEMMA CloseStep ==
    ASSUME LoopInv, TalkType, NEW c \in Conns, Conversing(c), UNCHANGED clientVars,
           CloseServed, UNCHANGED outbox
    PROVE  Conversing(c)'
<1>1. /\ Handlers' = Handlers \ {Fd}
      /\ \A fd \in Handlers' : handler'[fd] = handler[fd]
      /\ Untouched(c) /\ UNCHANGED backlog
      /\ mode \in {"pass", "handle"} /\ mode' = "pass"
  BY HandlerClosed DEF CloseServed, CloseConnection, netVars, clientVars, Untouched
<1>2. Waits(c)' => Waits(c)
  BY <1>1 DEF Waits
<1>3. ASSUME NEW fd \in Handlers', handler'[fd].conn = c
      PROVE  /\ fd \in Handlers /\ handler[fd].conn = c
             /\ WorkOf(fd)' = WorkOf(fd)
             /\ peer[c] = "open" => SameTalk(handler[fd], handler'[fd])
  <2>1. fd \in Handlers /\ handler'[fd] = handler[fd] /\ fd /= Fd
    BY <1>1
  <2>2. WorkOf(fd)' = <<>> /\ WorkOf(fd) = <<>>
    BY <1>1, <2>1 DEF WorkOf
  <2>3. peer[c] = "open" => SameTalk(handler[fd], handler'[fd])
    BY <1>3, <2>1 DEF Conversing, OneLaunch, SameTalk
  <2>. QED
    BY <1>3, <2>1, <2>2, <2>3
<1>. QED
  BY <1>1, <1>2, <1>3, Frame

LEMMA EndingCommands ==
    ASSUME LoopInv, TalkType, NEW c \in Conns, Conversing(c), UNCHANGED clientVars,
           ParseError \/ UnknownCommand \/ PeerUidDiffers \/ Stop
    PROVE  Conversing(c)'
<1>1. mode = "handle" /\ work /= <<>> /\ UNCHANGED netVars
  BY DEF ParseError, UnknownCommand, PeerUidDiffers, Stop, Executing, CloseConnection, Exits
<1>2. Conn \in Conns /\ Fd \in Handlers /\ Fd \in tmp_fds
  BY <1>1, ServedHandler
<1>3. CASE ParseError \/ PeerUidDiffers
  BY <1>1, <1>2, <1>3, CloseStep DEF ParseError, PeerUidDiffers, CloseServed
<1>4. CASE UnknownCommand \/ Stop
  <2>1. PICK ok \in BOOLEAN : outbox' = Posted(outbox, Conn, Reply(ok))
    BY <1>4 DEF UnknownCommand, Stop
  <2>2. Handlers' = {} \/ (Handlers' = Handlers \ {Fd} /\ mode' = "pass")
    BY <1>4, HandlerClosed DEF UnknownCommand, Stop, Exits, CloseConnection, Handlers
  <2>3. /\ Handlers' \subseteq Handlers \ {Fd}
        /\ \A fd \in Handlers' : handler'[fd] = handler[fd]
    BY <1>4, <2>2, HandlerClosed DEF UnknownCommand, Stop, Exits, Handlers
  <2>4. CASE c /= Conn
    <3>1. outbox'[c] = outbox[c]
      BY <1>2, <2>1, <2>4, PostedTo DEF TalkType, RepliesOfOwn
    <3>. QED
      BY <1>1, <2>2, <2>3, <2>4, <3>1, OthersStep
  <2>5. CASE c = Conn
    <3>1. \A fd \in Handlers' : handler'[fd].conn /= c
      BY <1>1, <2>3, <2>5, ServedConn
    <3>2. Reply(ok).to = Command.op /\ Command.op /= "EXIT"
      BY <1>4 DEF UnknownCommand, Stop, Executing, Reply
    <3>3. peer[c] = "open" => GoodAnswer(c)'
      BY <1>1, <2>1, <2>5, <3>2, AnsweredGood
    <3>. QED
      BY <1>1, <2>5, <3>1, <3>3, LastAnswer
  <2>. QED
    BY <2>4, <2>5
<1>. QED
  BY <1>3, <1>4

\* A signal ends the daemon.
LEMMA SignalExitStep ==
    ASSUME LoopInv, NEW c \in Conns, Conversing(c), UNCHANGED clientVars, SignalExit
    PROVE  Conversing(c)'
<1>1. Untouched(c) /\ Handlers' = {} /\ ~Waits(c)'
  BY DEF SignalExit, Exits, Handlers, Waits, Untouched, clientVars, netVars
<1>. QED
  BY <1>1, Frame

-----------------------------------------------------------------------------
(* Commands that are answered at once.                                       *)

\* The command is answered, and what the handler owes its client is what it did.
Answers(ok) ==
    /\ mode = "handle" /\ work /= <<>>
    /\ work' = Tail(work)
    /\ UNCHANGED <<netVars, loopVars>>
    /\ outbox' = Posted(outbox, Conn, Reply(ok))
    /\ Command.op /= "EXIT"
    /\ Command.op = "EXEC" => ~ok
    /\ Handlers' = Handlers
    /\ \A fd \in Handlers : fd /= Fd => handler'[fd] = handler[fd]
    /\ LET h == handler[Fd]
           g == handler'[Fd]
       IN  /\ g.conn = h.conn /\ g.jobs = h.jobs /\ g.pid = h.pid
           /\ g.hasExitCode = h.hasExitCode /\ g.needExitCode = h.needExitCode

LEMMA AnswersStep ==
    ASSUME LoopInv, TalkType, NEW c \in Conns, Conversing(c), UNCHANGED clientVars,
           NEW ok, Answers(ok)
    PROVE  Conversing(c)'
<1>1. Conn \in Conns /\ Fd \in Handlers /\ Fd' = Fd /\ mode' = "handle"
  BY ServedConn DEF Answers, loopVars, Fd
<1>2. \A fd \in Handlers : handler'[fd].conn = handler[fd].conn
  BY DEF Answers
<1>3. CASE c /= Conn
  <2>1. outbox'[c] = outbox[c]
    BY <1>1, <1>3, PostedTo DEF Answers, TalkType, RepliesOfOwn
  <2>. QED
    BY <1>1, <1>2, <1>3, <2>1, OthersStep DEF Answers
<1>4. CASE c = Conn /\ peer[c] = "open"
  <2>1. Reply(ok).to = Command.op /\ Reply(ok).ok = ok
    BY DEF Reply
  <2>2. outbox'[c] = <<Reply(ok)>> /\ GoodAnswer(c)'
    BY <1>4, <2>1, AnsweredGood DEF Answers
  <2>3. /\ Tail(work) = <<>> /\ Command.op = waiting[c]
        /\ inbox[c] = <<>> /\ ~Owes(handler[Fd])
        /\ handler[Fd].jobs = sent[c].launched /\ handler[Fd].jobs <= 1
        /\ handler[Fd].pid /= None => ~handler[Fd].hasExitCode
    BY <1>4, ServedTurn DEF Answers
  <2>4. \A fd : WorkOf(fd)' = <<>>
    BY <2>3 DEF Answers, WorkOf
  <2>5. Turn(c, WorkOf(Fd), Owes(handler[Fd]))'
    BY <1>1, <2>2, <2>3, <2>4 DEF Answers, Turn, Owes, netVars
  <2>6. outbox'[c][1].ok = ok
    BY <2>1, <2>2
  <2>7. ~LaunchUnread(c)'
    BY <2>3, <2>6 DEF LaunchUnread, Answers, clientVars
  <2>8. OneLaunch(c, handler[Fd])'
    BY <1>1, <2>3, <2>7 DEF Answers, OneLaunch, clientVars
  <2>9. \A fd \in Handlers' : handler'[fd].conn = c => fd = Fd
    BY <1>2, <1>4, ServedConn DEF Answers
  <2>10. ~Waits(c)' /\ peer'[c] = "open"
    BY <1>4, ServedConn DEF Answers, Waits, netVars, loopVars
  <2>. QED
    BY <1>1, <2>2, <2>5, <2>8, <2>9, <2>10 DEF Conversing
<1>5. CASE c = Conn /\ peer[c] /= "open"
  BY <1>5, ServedConn DEF Answers, Conversing, netVars
<1>. QED
  BY <1>3, <1>4, <1>5

\* exec() of Client: the child is the connection's first.
LEMMA LaunchStep ==
    ASSUME LoopInv, TalkType, NEW c \in Conns, Conversing(c), UNCHANGED clientVars,
           Executing("EXEC"), work' = Tail(work), NEW p \in Pids, Launches(p),
           NEW reply, reply.to = "EXEC", reply.ok, outbox' = Posted(outbox, Conn, reply)
    PROVE  Conversing(c)'
<1>0. /\ mode = "handle" /\ work /= <<>> /\ Command.op = "EXEC"
      /\ UNCHANGED <<netVars, loopVars>>
  BY DEF Executing, Launches
<1>1. /\ Conn \in Conns /\ Fd \in Handlers /\ Fd' = Fd /\ mode' = "handle"
      /\ handler[Fd] \in HandlerStates
  BY <1>0, ServedConn DEF loopVars, Fd
<1>2. /\ Handlers' = Handlers
      /\ handler'[Fd] = Launched(handler[Fd], p) /\ handler'[Fd].conn = handler[Fd].conn
      /\ \A fd \in Handlers : fd /= Fd => handler'[fd] = handler[fd]
      /\ handler'[Fd].pid = p /\ handler'[Fd].jobs = handler[Fd].jobs + 1
  BY <1>0, HandlerLaunched
<1>e. handler'[Fd].hasExitCode = handler[Fd].hasExitCode
  BY <1>0, HandlerLaunched
<1>n. handler'[Fd].needExitCode = handler[Fd].needExitCode
  BY <1>1, <1>2 DEF Launched, HandlerStates
<1>3. CASE c /= Conn
  <2>1. outbox'[c] = outbox[c]
    BY <1>1, <1>3, PostedTo DEF TalkType, RepliesOfOwn
  <2>. QED
    BY <1>0, <1>1, <1>2, <1>3, <2>1, OthersStep
<1>4. CASE c = Conn /\ peer[c] = "open"
  <2>1. outbox'[c] = <<reply>> /\ GoodAnswer(c)'
    BY <1>0, <1>4, AnsweredGood
  <2>2. /\ Tail(work) = <<>> /\ waiting[c] = "EXEC"
        /\ inbox[c] = <<>> /\ ~Owes(handler[Fd])
        /\ handler[Fd].jobs = 0 /\ sent[c].launched = 0
    BY <1>0, <1>4, ServedTurn
  <2>3. ~handler[Fd].hasExitCode
    BY <1>1, <2>2 DEF LoopInv, LastOutcome, OwnExitCode
  <2>4. ~handler'[Fd].hasExitCode
    BY <1>e, <2>3, Zenon
  <2>5. \A fd : WorkOf(fd)' = <<>>
    BY <2>2 DEF WorkOf
  <2>6. Turn(c, WorkOf(Fd), Owes(handler[Fd]))'
    <3>1. outbox'[c] /= <<>> /\ inbox'[c] = <<>>
      BY <1>0, <2>1, <2>2 DEF netVars
    <3>2. ~Owes(handler'[Fd])
      BY <1>e, <1>n, <2>2, Zenon DEF Owes
    <3>3. ~Owes(handler[Fd])'
      BY <1>1, <3>2
    <3>. QED
      BY <2>5, <3>1, <3>3 DEF Turn
  <2>7. LaunchUnread(c)'
    <3>1. outbox'[c] /= <<>> /\ outbox'[c][1] = reply
      BY <2>1
    <3>2. outbox'[c][1].ok
      BY <3>1, Zenon
    <3>. QED
      BY <2>2, <3>1, <3>2 DEF LaunchUnread, clientVars
  <2>8. OneLaunch(c, handler[Fd])'
    BY <1>1, <1>2, <2>2, <2>4, <2>7 DEF OneLaunch, clientVars
  <2>9. \A fd \in Handlers' : handler'[fd].conn = c => fd = Fd
    BY <1>0, <1>2, <1>4, ServedConn
  <2>10. ~Waits(c)' /\ peer'[c] = "open"
    BY <1>0, <1>4, ServedConn DEF Waits, netVars, loopVars
  <2>. QED
    BY <1>1, <2>1, <2>6, <2>8, <2>9, <2>10 DEF Conversing
<1>5. CASE c = Conn /\ peer[c] /= "open"
  BY <1>0, <1>5, ServedConn DEF Conversing, netVars
<1>. QED
  BY <1>3, <1>4, <1>5

\* EXIT is answered with the code of the command, or kept in mind.
LEMMA ExitStep ==
    ASSUME LoopInv, TalkType, NEW c \in Conns, Conversing(c), UNCHANGED clientVars, Exit
    PROVE  Conversing(c)'
<1>. DEFINE h == [handler[Fd] EXCEPT !.needExitCode = TRUE]
<1>0. /\ mode = "handle" /\ work /= <<>> /\ Command.op = "EXIT" /\ work' = Tail(work)
      /\ UNCHANGED <<netVars, loopVars>> /\ handler' = [handler EXCEPT ![Fd] = h]
      /\ outbox' = IF AnsweredNow(h) THEN ExitPosted(outbox, h) ELSE outbox
  BY DEF Exit, Executing
<1>1. /\ Conn \in Conns /\ Fd \in Handlers /\ Fd' = Fd /\ mode' = "handle"
      /\ handler[Fd] \in HandlerStates /\ HandlerType
  BY <1>0, ServedConn DEF loopVars, Fd, LoopInv, LoopType
<1>2. /\ h \in HandlerStates /\ h.needExitCode /\ h.conn = Conn
      /\ h.exitCode = handler[Fd].exitCode /\ h.jobs = handler[Fd].jobs
      /\ h.pid = handler[Fd].pid /\ (h.hasExitCode <=> handler[Fd].hasExitCode)
  BY <1>1 DEF HandlerStates, Conn
<1>. HIDE DEF h
<1>3. /\ Handlers' = Handlers /\ handler'[Fd] = h
      /\ \A fd \in Handlers : fd /= Fd => handler'[fd] = handler[fd]
  BY <1>0, <1>1, <1>2, HandlerReplaced
<1>4. handler'[Fd].conn = handler[Fd].conn
  BY <1>2, <1>3 DEF Conn
<1>5. outbox' = IF h.hasExitCode THEN Posted(outbox, Conn, ExitReply(h)) ELSE outbox
  BY <1>0, <1>2 DEF AnsweredNow, ExitPosted
<1>6. CASE c /= Conn
  <2>1. outbox'[c] = outbox[c]
    BY <1>1, <1>5, <1>6, PostedTo DEF TalkType, RepliesOfOwn
  <2>. QED
    BY <1>0, <1>1, <1>3, <1>4, <1>6, <2>1, OthersStep
<1>7. CASE c = Conn /\ peer[c] = "open"
  <2>1. /\ Tail(work) = <<>> /\ waiting[c] = "EXIT" /\ waiting'[c] = "EXIT"
        /\ inbox'[c] = <<>> /\ outbox[c] = <<>>
        /\ h.jobs = sent[c].launched /\ h.jobs <= 1 /\ sent' = sent
        /\ h.pid /= None => ~h.hasExitCode
    BY <1>0, <1>2, <1>7, ServedTurn DEF netVars, clientVars
  <2>2. \A fd : WorkOf(fd)' = <<>>
    BY <1>0, <2>1 DEF WorkOf
  <2>3. ~LaunchUnread(c)'
    BY <2>1 DEF LaunchUnread
  <2>4. OneLaunch(c, handler[Fd])'
    BY <1>1, <1>3, <2>1, <2>3 DEF OneLaunch
  <2>5. Turn(c, WorkOf(Fd), Owes(handler[Fd]))' /\ GoodAnswer(c)'
    <3>1. CASE h.hasExitCode
      <4>1. h.pid = None /\ handler[Fd].pid = None /\ handler[Fd].hasExitCode
        BY <1>2, <2>1, <3>1
      <4>2. h.exitCode = <<Conn, h.jobs>>
        BY <1>1, <1>2, <4>1 DEF LoopInv, LastOutcome, Conn
      <4>3. ExitReply(h).to = "EXIT" /\ ExitReply(h).status = <<Conn, sent[Conn].launched>>
        BY <1>7, <2>1, <4>2 DEF ExitReply
      <4>4. outbox' = Posted(outbox, Conn, ExitReply(h))
        BY <1>5, <3>1
      <4>5. outbox'[c] = <<ExitReply(h)>> /\ GoodAnswer(c)'
        BY <1>0, <1>7, <4>3, <4>4, AnsweredGood
      <4>6. ~Owes(handler[Fd])'
        BY <1>1, <1>3, <3>1 DEF Owes
      <4>7. outbox'[c] /= <<>>
        BY <4>5
      <4>. QED
        BY <2>1, <2>2, <4>5, <4>6, <4>7 DEF Turn
    <3>2. CASE ~h.hasExitCode
      <4>1. outbox'[c] = <<>>
        BY <1>5, <2>1, <3>2
      <4>2. Owes(handler[Fd])'
        BY <1>1, <1>2, <1>3, <3>2 DEF Owes
      <4>. QED
        BY <2>1, <2>2, <4>1, <4>2 DEF Turn, GoodAnswer
    <3>. QED
      BY <3>1, <3>2
  <2>6. \A fd \in Handlers' : handler'[fd].conn = c => fd = Fd
    BY <1>0, <1>3, <1>4, <1>7, ServedConn
  <2>7. ~Waits(c)' /\ peer'[c] = "open"
    BY <1>0, <1>7, ServedConn DEF Waits, netVars, loopVars
  <2>. QED
    BY <1>1, <2>4, <2>5, <2>6, <2>7 DEF Conversing
<1>8. CASE c = Conn /\ peer[c] /= "open"
  BY <1>0, <1>8, ServedConn DEF Conversing, netVars
<1>. QED
  BY <1>6, <1>7, <1>8

\* Commands that leave the handler alone ...
LEMMA AnsweredAnswers ==
    ASSUME LoopInv, NEW op, op \notin {"EXIT", "EXEC"}, Executing(op), NEW ok, Answered(ok),
           UNCHANGED handler
    PROVE  Answers(ok)
<1>1. mode = "handle" /\ work /= <<>> /\ Command.op = op
  BY DEF Executing
<1>2. Handlers' = Handlers /\ Fd \in Handlers
  BY <1>1, ServedConn DEF Handlers
<1>. QED
  BY <1>1, <1>2 DEF Answers, Answered

\* ... and those that set one of its fields.
LEMMA SettingAnswers ==
    ASSUME LoopInv, NEW op, op \notin {"EXIT", "EXEC"}, Executing(op), Answered(TRUE),
           NEW h \in HandlerStates, handler' = [handler EXCEPT ![Fd] = h],
           SameOutcome(handler[Fd], h), h.needExitCode = handler[Fd].needExitCode
    PROVE  Answers(TRUE)
<1>1. mode = "handle" /\ work /= <<>> /\ Command.op = op
  BY DEF Executing
<1>2. HandlerType /\ Fd \in Handlers
  BY <1>1, ServedConn DEF LoopInv, LoopType
<1>3. /\ Handlers' = Handlers /\ handler'[Fd] = h
      /\ \A fd \in Handlers : fd /= Fd => handler'[fd] = handler[fd]
  BY <1>2, HandlerReplaced
<1>. QED
  BY <1>1, <1>3 DEF Answers, Answered, SameOutcome

LEMMA SettingStep ==
    ASSUME LoopInv, Pass \/ Host \/ Prio \/ Schd
    PROVE  Answers(TRUE)
<1>0. ASSUME NEW op, Executing(op)
      PROVE  handler[Fd] \in HandlerStates /\ Command \in Asked(op)
  BY <1>0, ServedHandler, ExecutedCommand
<1>. USE DEF SetHandler, SameOutcome
<1>1. CASE Pass
  <2>. DEFINE h == [handler[Fd] EXCEPT !.pass = Command.pass, !.timeout = Command.timeout]
  <2>1. Executing("PASS") /\ Command \in Asked("PASS") /\ handler[Fd] \in HandlerStates
    BY <1>0, <1>1 DEF Pass
  <2>2. Command.pass \in Values /\ Command.timeout \in TimeoutsSent
    BY <2>1, RequestsAssumption DEF TimeoutsSent
  <2>3. /\ h \in HandlerStates /\ SameOutcome(handler[Fd], h)
        /\ h.needExitCode = handler[Fd].needExitCode
    BY <2>1, <2>2 DEF HandlerStates
  <2>. QED
    BY <1>1, <2>1, <2>3, SettingAnswers DEF Pass
<1>2. CASE Host
  <2>. DEFINE h == [handler[Fd] EXCEPT !.host = Command.host]
  <2>1. Executing("HOST") /\ Command.host \in HostsSent /\ handler[Fd] \in HandlerStates
    BY <1>0, <1>2 DEF Host, HostsSent
  <2>2. /\ h \in HandlerStates /\ SameOutcome(handler[Fd], h)
        /\ h.needExitCode = handler[Fd].needExitCode
    BY <2>1 DEF HandlerStates
  <2>. QED
    BY <1>2, <2>1, <2>2, SettingAnswers DEF Host
<1>3. CASE Prio
  <2>. DEFINE h == [handler[Fd] EXCEPT !.priority = Command.priority]
  <2>1. /\ Executing("PRIO") /\ Command.priority \in PrioritiesSent
        /\ handler[Fd] \in HandlerStates
    BY <1>0, <1>3 DEF Prio, PrioritiesSent
  <2>2. /\ h \in HandlerStates /\ SameOutcome(handler[Fd], h)
        /\ h.needExitCode = handler[Fd].needExitCode
    BY <2>1 DEF HandlerStates
  <2>. QED
    BY <1>3, <2>1, <2>2, SettingAnswers DEF Prio
<1>4. CASE Schd
  <2>. DEFINE h == [handler[Fd] EXCEPT !.scheduler = Command.scheduler]
  <2>1. /\ Executing("SCHD") /\ Command.scheduler \in SchedulersSent
        /\ handler[Fd] \in HandlerStates
    BY <1>0, <1>4 DEF Schd, SchedulersSent
  <2>2. /\ h \in HandlerStates /\ SameOutcome(handler[Fd], h)
        /\ h.needExitCode = handler[Fd].needExitCode
    BY <2>1 DEF HandlerStates
  <2>. QED
    BY <1>4, <2>1, <2>2, SettingAnswers DEF Schd
<1>. QED
  BY <1>1, <1>2, <1>3, <1>4

LEMMA StoreCommandStep ==
    ASSUME LoopInv, Del \/ DelV \/ DelG \/ DelS \/ Set \/ Get \/ GetK \/ ChkG \/ Ping
    PROVE  \E ok : Answers(ok)
<1>1. ASSUME NEW op, op \notin {"EXIT", "EXEC"}, NEW ok,
             Asking(op, ok) \/ \E new : Deleting(op, ok, new)
      PROVE  Answers(ok)
  BY <1>1, AnsweredAnswers DEF Asking, Deleting
<1>2. ASSUME NEW op, op \notin {"EXIT", "EXEC"}, NEW ok, NEW new, Deleting(op, ok, new)
      PROVE  \E found : Answers(found)
  BY <1>1, <1>2
<1>3. CASE Set
  BY <1>3, AnsweredAnswers DEF Set
<1>4. CASE Del
  BY <1>2, <1>4 DEF Del
<1>5. CASE DelV
  BY <1>2, <1>5 DEF DelV
<1>6. CASE DelG \/ DelS
  BY <1>2, <1>6, Zenon DEF DelG, DelS
<1>7. CASE Get \/ GetK \/ ChkG \/ Ping
  BY <1>1, <1>7 DEF Get, GetK, ChkG, Ping
<1>. QED
  BY <1>3, <1>4, <1>5, <1>6, <1>7

\* EXEC is refused, or fork() fails, or there is a child.
LEMMA ExecStep ==
    ASSUME LoopInv, TalkType, NEW c \in Conns, Conversing(c), UNCHANGED clientVars,
           ExecRefused \/ ExecCached \/ ExecStore
    PROVE  Conversing(c)'
<1>1. /\ Executing("EXEC") /\ work' = Tail(work) /\ mode = "handle" /\ work /= <<>>
      /\ Command.op = "EXEC" /\ UNCHANGED <<netVars, loopVars, sigchld, pipe, swept>>
  BY DEF ExecRefused, ExecCached, ExecStore, Exec, Executing
<1>2. CASE UNCHANGED handler /\ outbox' = Posted(outbox, Conn, Reply(FALSE))
  <2>1. Handlers' = Handlers /\ Fd \in Handlers
    BY <1>1, <1>2, ServedConn DEF Handlers
  <2>2. Answers(FALSE)
    BY <1>1, <1>2, <2>1 DEF Answers
  <2>. QED
    BY <2>2, AnswersStep
<1>3. ASSUME NEW p \in Pids, kid[p].state = "none",
             kid' = [kid EXCEPT ![p] = [state  |-> "running",
                                        status |-> <<Conn, Launched(handler[Fd], p).jobs>>,
                                        holds  |-> Accepted]],
             handler' = [handler EXCEPT ![Fd] = Launched(handler[Fd], p)],
             outbox' = Posted(outbox, Conn, Reply(TRUE))
      PROVE  Conversing(c)'
  <2>1. Launched(handler[Fd], p).jobs = handler[Fd].jobs + 1
    BY <1>1, ServedHandler DEF Launched, HandlerStates
  <2>2. work' \in Seq(Sent)
    BY <1>1, ExecutedCommand
  <2>3. Launches(p)
    BY <1>1, <1>3, <2>1, <2>2 DEF Launches
  <2>4. PICK reply : reply = Reply(TRUE)
    OBVIOUS
  <2>5. reply.to = "EXEC" /\ reply.ok
    BY <1>1, <2>4 DEF Reply
  <2>. QED
    BY <1>1, <1>3, <2>3, <2>4, <2>5, LaunchStep
<1>. QED
  BY <1>2, <1>3 DEF ExecRefused, ExecCached, ExecStore, Fork

LEMMA CommandStep ==
    ASSUME LoopInv, TalkType, NEW c \in Conns, Conversing(c), UNCHANGED clientVars, DoCommand
    PROVE  Conversing(c)'
<1>1. CASE Pass \/ Host \/ Prio \/ Schd
  BY <1>1, SettingStep, AnswersStep
<1>2. CASE Del \/ DelV \/ DelG \/ DelS \/ Set \/ Get \/ GetK \/ ChkG \/ Ping
  BY <1>2, StoreCommandStep, AnswersStep
<1>3. CASE ExecRefused \/ ExecCached \/ ExecStore
  BY <1>3, ExecStep
<1>4. CASE Exit
  BY <1>4, ExitStep
<1>5. CASE ParseError \/ UnknownCommand \/ PeerUidDiffers \/ Stop
  BY <1>5, EndingCommands
<1>. QED
  BY <1>1, <1>2, <1>3, <1>4, <1>5 DEF DoCommand

-----------------------------------------------------------------------------
(* The end of a command.                                                     *)

\* What waitpid() returned goes to the handler that remembers the child, if any.
LEMMA ReapedAndSent ==
    ASSUME LoopInv, NEW p \in Pids, WaitpidOne(p)
    PROVE  \/ UNCHANGED <<handler, outbox>>
           \/ \E fd \in Handlers :
                 /\ handler[fd].pid = p
                 /\ handler' = [handler EXCEPT ![fd] = Reaped(handler[fd], kid[p].status)]
                 /\ outbox' = ExitPosted(outbox, Reaped(handler[fd], kid[p].status))
<1>. DEFINE owners == {f \in ConnFds : handler[f] /= None /\ handler[f].pid = p}
<1>1. CASE owners = {}
  BY <1>1 DEF WaitpidOne
<1>2. CASE owners /= {}
  <2>1. PICK fd \in owners : TRUE
    BY <1>2
  <2>2. fd \in Handlers /\ handler[fd].pid = p
    BY <2>1 DEF Handlers
  <2>3. Max(owners) = fd
    BY <2>2, MaxOwner
  <2>. QED
    BY <1>2, <2>2, <2>3 DEF WaitpidOne
<1>. QED
  BY <1>1, <1>2

LEMMA ReapStep ==
    ASSUME LoopInv, TalkType, NEW c \in Conns, Conversing(c), UNCHANGED clientVars,
           NEW p \in Pids, WaitpidOne(p)
    PROVE  Conversing(c)'
<1>0. /\ UNCHANGED <<backlog, peer, inbox, waiting, sent>>
      /\ mode = "reap" /\ mode' = "reap" /\ HandlerType /\ p /= None
  BY NoneAssumption DEF WaitpidOne, AfterOne, netVars, clientVars, LoopInv, LoopType
<1>1. \A fd : WorkOf(fd) = <<>> /\ WorkOf(fd)' = <<>>
  BY <1>0 DEF WorkOf
<1>2. Waits(c)' => Waits(c)
  BY <1>0 DEF Waits
<1>3. CASE UNCHANGED <<handler, outbox>>
  <2>1. Handlers' = Handlers /\ Untouched(c)
    BY <1>0, <1>3 DEF Handlers, Untouched
  <2>2. ASSUME NEW fd \in Handlers, handler[fd].conn = c, peer[c] = "open"
        PROVE  SameTalk(handler[fd], handler'[fd])
    BY <1>3, <2>2 DEF Conversing, OneLaunch, SameTalk
  <2>. QED
    BY <1>1, <1>2, <1>3, <2>1, <2>2, Frame
<1>4. ASSUME NEW fd \in Handlers, handler[fd].pid = p,
             handler' = [handler EXCEPT ![fd] = Reaped(handler[fd], kid[p].status)],
             outbox' = ExitPosted(outbox, Reaped(handler[fd], kid[p].status))
      PROVE  Conversing(c)'
  <2>. DEFINE h == Reaped(handler[fd], kid[p].status)
  <2>1. /\ handler[fd] \in HandlerStates
        /\ kid[p].status \in Results \cup {None}
        /\ kid[p].status = <<handler[fd].conn, handler[fd].jobs>>
        /\ handler[fd].jobs > 0
    BY <1>0, <1>4
       DEF HandlerType, Handlers, LoopInv, LoopType, ProcType, KidStates, LastOutcome,
           OwnExitCode
  <2>2. /\ h \in HandlerStates
        /\ h.conn = handler[fd].conn /\ h.jobs = handler[fd].jobs
        /\ h.pid = None /\ h.hasExitCode
        /\ h.exitCode = <<handler[fd].conn, handler[fd].jobs>>
        /\ (h.needExitCode <=> handler[fd].needExitCode)
    BY <2>1, ReapedType DEF Reaped, HandlerStates
  <2>. HIDE DEF h
  <2>3. handler' = [handler EXCEPT ![fd] = h] /\ outbox' = ExitPosted(outbox, h)
    BY <1>4 DEF h
  <2>4. /\ Handlers' = Handlers /\ handler'[fd] = h
        /\ \A f \in Handlers : f /= fd => handler'[f] = handler[f]
    BY <1>0, <2>2, <2>3, HandlerReplaced
  <2>5. h.conn \in Conns /\ DOMAIN outbox = Conns /\ ~Owes(h)
    BY <2>2 DEF HandlerStates, TalkType, RepliesOfOwn, Owes
  <2>6. \A f \in Handlers : handler'[f].conn = handler[f].conn
    BY <2>2, <2>4
  <2>7. CASE outbox'[c] = outbox[c] /\ ~(c = h.conn /\ peer[c] = "open" /\ h.needExitCode)
    <3>1. Untouched(c)
      BY <1>0, <2>7 DEF Untouched
    <3>2. ASSUME NEW f \in Handlers, handler[f].conn = c, peer[c] = "open"
          PROVE  SameTalk(handler[f], handler'[f])
      <4>1. CASE f /= fd
        BY <2>4, <3>2, <4>1 DEF Conversing, OneLaunch, SameTalk
      <4>2. CASE f = fd
        <5>1. ~handler[fd].needExitCode
          BY <2>2, <2>7, <3>2, <4>2
        <5>2. ~Owes(handler[fd])
          BY <5>1 DEF Owes
        <5>. QED
          BY <2>2, <2>4, <2>5, <4>2, <5>2 DEF SameTalk
      <4>. QED
        BY <4>1, <4>2
    <3>. QED
      BY <1>1, <1>2, <2>4, <2>6, <3>1, <3>2, Frame
  <2>8. CASE c = h.conn /\ peer[c] = "open" /\ h.needExitCode
    <3>1. handler[fd].conn = c /\ handler[fd].needExitCode
      BY <2>2, <2>8
    <3>2. /\ Turn(c, <<>>, Owes(handler[fd])) /\ OneLaunch(c, handler[fd])
      BY <1>1, <2>8, <3>1 DEF Conversing
    <3>3. handler[fd].pid /= None /\ ~handler[fd].hasExitCode
      BY <1>0, <1>4, <3>2 DEF OneLaunch
    <3>4. Owes(handler[fd])
      BY <3>1, <3>3 DEF Owes
    <3>5. waiting[c] = "EXIT" /\ inbox[c] = <<>> /\ outbox[c] = <<>>
      BY <3>2, <3>4 DEF Turn, OneCommand
    <3>6. h.jobs = sent[c].launched /\ h.jobs <= 1
      BY <2>2, <3>2, <3>5 DEF OneLaunch, LaunchUnread
    <3>7. outbox'[c] = <<ExitReply(h)>>
      <4>1. outbox'[c] = Append(<<>>, ExitReply(h))
        BY <2>3, <2>5, <2>8, <3>5, Zenon DEF ExitPosted, Posted
      <4>. QED
        BY <4>1
    <3>8. ExitReply(h).to = "EXIT" /\ ExitReply(h).status = <<c, sent[c].launched>>
      BY <2>2, <3>1, <3>6 DEF ExitReply
    <3>9. GoodAnswer(c)'
      <4>1. "EXIT" /= None
        BY NoneAssumption
      <4>2. Len(outbox'[c]) = 1 /\ outbox'[c][1] = ExitReply(h)
        BY <3>7
      <4>. QED
        BY <1>0, <3>5, <3>8, <4>1, <4>2 DEF GoodAnswer
    <3>10. Turn(c, WorkOf(fd), Owes(handler[fd]))'
      <4>1. outbox'[c] /= <<>>
        BY <3>7
      <4>. QED
        BY <1>0, <1>1, <2>4, <2>5, <3>5, <4>1 DEF Turn
    <3>11. OneLaunch(c, handler[fd])'
      BY <1>0, <2>2, <2>4, <3>5, <3>6 DEF OneLaunch, LaunchUnread
    <3>12. \A f \in Handlers' : handler'[f].conn = c => f = fd
      BY <2>4, <2>6, <3>1 DEF LoopInv, OneHandlerEach
    <3>13. ~Waits(c)' /\ peer'[c] = "open"
      BY <1>0, <2>8, <3>1 DEF Waits, LoopInv, OneHandlerEach
    <3>. QED
      BY <3>9, <3>10, <3>11, <3>12, <3>13 DEF Conversing
  <2>9. outbox'[c] = outbox[c] \/ (c = h.conn /\ peer[c] = "open" /\ h.needExitCode)
    BY <2>3, <2>5, PostedTo DEF ExitPosted
  <2>. QED
    BY <2>7, <2>8, <2>9
<1>. QED
  BY <1>3, <1>4, ReapedAndSent

-----------------------------------------------------------------------------
(* The steps of clients.                                                     *)

LEMMA ConnectStep ==
    ASSUME LoopInv, TalkType, NEW c \in Conns, Conversing(c), NEW d \in Conns, Connect(d)
    PROVE  Conversing(c)'
<1>1. /\ peer \in [Conns -> {"idle", "open", "closed"}] /\ backlog \in Seq(Conns)
      /\ peer[d] = "idle" /\ peer' = [peer EXCEPT ![d] = "open"]
      /\ backlog' = Append(backlog, d)
      /\ UNCHANGED <<inbox, outbox, waiting, sent, handler, work, mode, tmp_fds>>
  BY DEF Connect, LoopInv, LoopType, NetType, clientVars, loopVars
<1>2. Handlers' = Handlers /\ \A fd : WorkOf(fd)' = WorkOf(fd)
  BY <1>1 DEF Handlers, WorkOf, Fd
<1>3. CASE c /= d
  <2>1. Untouched(c)
    BY <1>1, <1>3 DEF Untouched
  <2>2. Waits(c)' => Waits(c)
    BY <1>1, <1>3 DEF Waits
  <2>3. ASSUME NEW fd \in Handlers, handler[fd].conn = c, peer[c] = "open"
        PROVE  SameTalk(handler[fd], handler'[fd])
    BY <1>1, <2>3 DEF Conversing, OneLaunch, SameTalk
  <2>. QED
    BY <1>1, <1>2, <2>1, <2>2, <2>3, Frame
<1>4. CASE c = d
  <2>1. Unheard(c) /\ waiting[c] = None
    BY <1>1, <1>4 DEF Conversing
  <2>2. Unheard(c)' /\ GoodAnswer(c)'
    BY <1>1, <2>1 DEF Unheard, OneCommand, GoodAnswer
  <2>3. \A fd \in Handlers' : handler'[fd].conn /= c
    BY <1>1, <1>2, <1>4 DEF LoopInv, OneHandlerEach
  <2>. QED
    BY <1>1, <1>4, <2>2, <2>3 DEF Conversing
<1>. QED
  BY <1>3, <1>4

\* A client sends a command when it awaits no reply.
LEMMA SendStep ==
    ASSUME OneJob, LoopInv, TalkType, NEW c \in Conns \ Pipelining, Conversing(c),
           NEW d \in Conns, NEW r \in Requests[d], Send(d, r)
    PROVE  Conversing(c)'
<1>1. /\ inbox \in [Conns -> Seq(Sent)] /\ DOMAIN waiting = Conns
      /\ sent \in [Conns -> [count : Nat, launched : Nat]]
      /\ peer[d] = "open" /\ (waiting[d] = None \/ d \in Pipelining)
      /\ sent[d].launched > 0 => r.op /= "EXEC"
      /\ inbox' = [inbox EXCEPT ![d] = Append(@, r)]
      /\ waiting' = [waiting EXCEPT ![d] = r.op]
      /\ sent' = [sent EXCEPT ![d].count = @ + 1]
      /\ UNCHANGED <<backlog, peer, outbox, loopVars, handler, work>>
  BY DEF Send, LoopInv, LoopType, NetType, TalkType
<1>2. CASE c /= d
  <2>1. Untouched(c)
    BY <1>1, <1>2 DEF Untouched
  <2>. QED
    BY <1>1, <2>1, FrameAll DEF loopVars
<1>3. CASE c = d
  <2>1. GoodAnswer(c) /\ waiting[c] = None /\ outbox[c] = <<>>
    BY <1>1, <1>3 DEF Conversing, GoodAnswer
  <2>2. /\ inbox'[c] = Append(inbox[c], r) /\ waiting'[c] = r.op /\ outbox'[c] = <<>>
        /\ sent'[c].launched = sent[c].launched /\ sent[c].launched \in Nat
    BY <1>1, <1>3, <2>1
  <2>3. r \in Sent
    BY DEF Sent
  <2>4. r.op /= None
    <3>1. r.op \in {q.op : q \in Sent}
      BY <2>3
    <3>. QED
      BY <3>1, NoneAssumption
  <2>5. ASSUME inbox[c] = <<>>
        PROVE  OneCommand(c, inbox[c])'
    <3>1. inbox'[c] = <<r>>
      BY <2>2, <2>5
    <3>2. r.op = "EXEC" => sent'[c].launched = 0
      BY <1>1, <1>3, <2>2
    <3>. QED
      BY <2>2, <2>3, <3>1, <3>2 DEF OneCommand
  <2>6. GoodAnswer(c)'
    BY <2>2 DEF GoodAnswer
  <2>7. Waits(c)' => Unheard(c)'
    <3>1. Waits(c)' => Waits(c)
      BY <1>1 DEF Waits, loopVars
    <3>2. Unheard(c) => inbox[c] = <<>> /\ sent[c].launched = 0
      <4>1. OneCommand(c, inbox[c]) => \E q \in Sent : q.op = None
        BY <2>1 DEF OneCommand
      <4>2. \A q \in Sent : q.op \in {p.op : p \in Sent}
        OBVIOUS
      <4>3. ~OneCommand(c, inbox[c])
        BY <4>1, <4>2, NoneAssumption
      <4>. QED
        BY <4>3 DEF Unheard
    <3>. QED
      BY <1>1, <1>3, <2>2, <2>5, <3>1, <3>2 DEF Conversing, Unheard
  <2>8. ASSUME NEW fd \in Handlers, handler[fd].conn = c
        PROVE  Turn(c, WorkOf(fd), Owes(handler[fd]))' /\ OneLaunch(c, handler[fd])'
    <3>1. Turn(c, WorkOf(fd), Owes(handler[fd])) /\ OneLaunch(c, handler[fd])
      BY <1>1, <1>3, <2>8 DEF Conversing
    <3>2. WorkOf(fd)' = WorkOf(fd) /\ handler'[fd] = handler[fd]
      BY <1>1 DEF WorkOf, Fd, loopVars
    <3>3. WorkOf(fd) = <<>> /\ inbox[c] = <<>> /\ ~Owes(handler[fd])
      <4>1. \A q \in Sent : q.op \in {p.op : p \in Sent}
        OBVIOUS
      <4>2. \A q \in Sent : q.op /= None
        BY <4>1, NoneAssumption
      <4>3. waiting[c] /= "EXIT"
        BY <2>1, NoneAssumption
      <4>. QED
        BY <2>1, <3>1, <4>2, <4>3 DEF Turn, OneCommand
    <3>4. Turn(c, WorkOf(fd), Owes(handler[fd]))'
      BY <2>2, <2>5, <3>2, <3>3 DEF Turn
    <3>5. OneLaunch(c, handler[fd])'
      BY <2>1, <2>2, <3>1, <3>2 DEF OneLaunch, LaunchUnread
    <3>. QED
      BY <3>4, <3>5
  <2>9. Handlers' = Handlers /\ handler' = handler
    BY <1>1 DEF Handlers
  <2>. QED
    BY <1>1, <1>3, <2>6, <2>7, <2>8, <2>9 DEF Conversing
<1>. QED
  BY <1>2, <1>3

\* A client reads the answer, and learns whether its command was launched.
LEMMA ReceiveStep ==
    ASSUME LoopInv, TalkType, NEW c \in Conns, Conversing(c), NEW d \in Conns, Receive(d)
    PROVE  Conversing(c)'
<1>1. /\ DOMAIN waiting = Conns /\ DOMAIN outbox = Conns
      /\ sent \in [Conns -> [count : Nat, launched : Nat]]
      /\ peer[d] = "open" /\ waiting[d] /= None /\ outbox[d] /= <<>>
      /\ outbox' = [outbox EXCEPT ![d] = <<>>]
      /\ waiting' = [waiting EXCEPT ![d] = None]
      /\ sent' = IF waiting[d] = "EXEC" /\ Head(outbox[d]).ok
                 THEN [sent EXCEPT ![d].launched = @ + 1] ELSE sent
      /\ UNCHANGED <<backlog, peer, inbox, loopVars, handler, work>>
  BY DEF Receive, TalkType, RepliesOfOwn, netVars
<1>2. CASE c /= d
  <2>1. Untouched(c)
    BY <1>1, <1>2 DEF Untouched
  <2>. QED
    BY <1>1, <2>1, FrameAll DEF loopVars
<1>3. CASE c = d
  <2>1. GoodAnswer(c) /\ ~Waits(c)
    BY <1>1, <1>3 DEF Conversing, Unheard
  <2>2. Head(outbox[c]) = outbox[c][1]
    BY <1>1, <1>3, <2>1 DEF TalkType, RepliesOfOwn
  <2>3. sent'[c].launched = IF LaunchUnread(c) THEN sent[c].launched + 1
                                               ELSE sent[c].launched
    BY <1>1, <1>3, <2>2 DEF LaunchUnread
  <2>4. waiting'[c] = None /\ outbox'[c] = <<>> /\ inbox'[c] = inbox[c]
    BY <1>1, <1>3
  <2>5. GoodAnswer(c)' /\ ~Waits(c)'
    BY <1>1, <2>1, <2>4 DEF GoodAnswer, Waits, loopVars
  <2>6. ASSUME NEW fd \in Handlers, handler[fd].conn = c
        PROVE  Turn(c, WorkOf(fd), Owes(handler[fd]))' /\ OneLaunch(c, handler[fd])'
    <3>1. Turn(c, WorkOf(fd), Owes(handler[fd])) /\ OneLaunch(c, handler[fd])
      BY <1>1, <1>3, <2>6 DEF Conversing
    <3>2. WorkOf(fd)' = WorkOf(fd) /\ handler'[fd] = handler[fd]
      BY <1>1 DEF WorkOf, Fd, loopVars
    <3>3. WorkOf(fd) = <<>> /\ inbox[c] = <<>> /\ ~Owes(handler[fd])
      BY <1>1, <1>3, <3>1 DEF Turn
    <3>4. Turn(c, WorkOf(fd), Owes(handler[fd]))'
      BY <2>4, <3>2, <3>3 DEF Turn
    <3>5. handler[fd].jobs = sent'[c].launched
      BY <1>1, <2>3, <3>1 DEF OneLaunch
    <3>6. OneLaunch(c, handler[fd])'
      BY <2>4, <3>1, <3>2, <3>5 DEF OneLaunch, LaunchUnread
    <3>. QED
      BY <3>4, <3>6
  <2>7. Handlers' = Handlers /\ handler' = handler
    BY <1>1 DEF Handlers
  <2>. QED
    BY <1>1, <1>3, <2>5, <2>6, <2>7 DEF Conversing
<1>. QED
  BY <1>2, <1>3

\* An end of file is read once the connection has neither a place nor a handler.
LEMMA ReceiveEofStep ==
    ASSUME LoopInv, TalkType, NEW c \in Conns, Conversing(c), NEW d \in Conns, ReceiveEof(d)
    PROVE  Conversing(c)'
<1>1. /\ DOMAIN waiting = Conns /\ peer[d] = "open" /\ outbox[d] = <<>> /\ Gone(d)
      /\ waiting' = [waiting EXCEPT ![d] = None]
      /\ UNCHANGED <<backlog, peer, inbox, outbox, loopVars, handler, work, sent>>
  BY DEF ReceiveEof, TalkType, daemonVars, netVars
<1>2. CASE c /= d
  <2>1. Untouched(c)
    BY <1>1, <1>2 DEF Untouched
  <2>. QED
    BY <1>1, <2>1, FrameAll DEF loopVars
<1>3. CASE c = d
  <2>1. \A fd \in Handlers : handler[fd].conn /= c
    BY <1>1, <1>3 DEF Gone, Accepted, Handlers
  <2>2. ~Waits(c)
    BY <1>1, <1>3 DEF Gone, Waits, ToSet
  <2>3. Handlers' = Handlers /\ handler' = handler /\ ~Waits(c)'
    BY <1>1, <2>2 DEF Handlers, Waits, loopVars
  <2>. QED
    BY <1>1, <1>3, <2>1, <2>3 DEF Conversing, GoodAnswer
<1>. QED
  BY <1>2, <1>3

LEMMA ClientCloseStep ==
    ASSUME LoopInv, TalkType, NEW c \in Conns, Conversing(c), NEW d \in Conns, Close(d)
    PROVE  Conversing(c)'
<1>1. /\ DOMAIN waiting = Conns /\ DOMAIN outbox = Conns
      /\ peer \in [Conns -> {"idle", "open", "closed"}]
      /\ peer' = [peer EXCEPT ![d] = "closed"]
      /\ outbox' = [outbox EXCEPT ![d] = <<>>]
      /\ waiting' = [waiting EXCEPT ![d] = None]
      /\ UNCHANGED <<backlog, inbox, loopVars, handler, work, sent>>
  BY DEF Close, TalkType, RepliesOfOwn, LoopInv, LoopType, NetType
<1>2. CASE c /= d
  <2>1. Untouched(c)
    BY <1>1, <1>2 DEF Untouched
  <2>. QED
    BY <1>1, <2>1, FrameAll DEF loopVars
<1>3. CASE c = d
  BY <1>1, <1>3 DEF Conversing
<1>. QED
  BY <1>2, <1>3

-----------------------------------------------------------------------------
(* The theorems.                                                             *)

LEMMA ConversationInit == SessionInit => TalkType /\ Conversation
<1>. SUFFICES ASSUME SessionInit PROVE TalkType /\ Conversation
  OBVIOUS
<1>1. /\ outbox = [c \in Conns |-> <<>>] /\ waiting = [c \in Conns |-> None]
      /\ inbox = [c \in Conns |-> <<>>] /\ peer = [c \in Conns |-> "idle"]
      /\ sent = [c \in Conns |-> [count |-> 0, launched |-> 0]]
  BY DEF SessionInit, Init
<1>2. TalkType
  BY <1>1 DEF TalkType, RepliesOfOwn, Silent
<1>3. ASSUME NEW c \in Conns
      PROVE  Conversing(c)
  BY <1>1 DEF Conversing, Unheard
<1>. QED
  BY <1>2, <1>3 DEF Conversation

LEMMA TalkTypeStep ==
    ASSUME LoopInv, TalkType, [Next]_vars
    PROVE  TalkType'
<1>1. RepliesOfOwn'
  BY RepliesOfOwnStep DEF TalkType
<1>2. CASE UNCHANGED <<waiting, sent, peer>>
  <2>1. ASSUME NEW c \in Conns
        PROVE  Silent(c)'
    <3>1. CASE Sends
      BY <1>2, <3>1 DEF Sends, Posted, Silent, TalkType, RepliesOfOwn
    <3>2. CASE UNCHANGED outbox \/ \E d \in Conns : outbox' = [outbox EXCEPT ![d] = <<>>]
      BY <1>2, <3>2 DEF Silent, TalkType, RepliesOfOwn
    <3>. QED
      BY <3>1, <3>2, StepSends
  <2>. QED
    BY <1>1, <1>2, <2>1 DEF TalkType
<1>3. ASSUME NEW d \in Conns, Client(d)
      PROVE  TalkType'
  <2>0. /\ peer \in [Conns -> {"idle", "open", "closed"}] /\ DOMAIN outbox = Conns
        /\ DOMAIN waiting = Conns /\ sent \in [Conns -> [count : Nat, launched : Nat]]
        /\ \A c \in Conns : Silent(c)
    BY DEF LoopInv, LoopType, NetType, TalkType, RepliesOfOwn
  <2>1. DOMAIN waiting' = Conns
    BY <1>3, <2>0
       DEF Client, Connect, Calls, Send, Receive, ReceiveEof, Close, clientVars
  <2>2. sent' \in [Conns -> [count : Nat, launched : Nat]]
    BY <1>3, <2>0
       DEF Client, Connect, Calls, Send, Receive, ReceiveEof, Close, clientVars
  <2>3. ASSUME NEW c \in Conns
        PROVE  Silent(c)'
    BY <1>3, <2>0
       DEF Client, Connect, Calls, Send, Receive, ReceiveEof, Close, clientVars, netVars,
           daemonVars, Silent
  <2>. QED
    BY <1>1, <2>1, <2>2, <2>3 DEF TalkType
<1>4. CASE UNCHANGED clientVars /\ UNCHANGED peer
  BY <1>2, <1>4 DEF clientVars
<1>5. CASE (Daemon \/ Kernel \/ SignalExit) /\ UNCHANGED clientVars
  <2>1. UNCHANGED peer
    <3>1. CASE DoCommand
      BY <3>1, CommandEffect DEF Settles, Launches, Exits, CloseConnection, netVars
    <3>2. CASE Daemon /\ ~DoCommand
      BY <3>2
         DEF Daemon, Select, EndPass, Accept, AcceptFails, ReadPipe, WaitpidOne, AfterOne,
             WaitpidNone, Recv, RecvFails, CloseConnection, Handled, netVars
    <3>3. CASE Kernel \/ SignalExit
      BY <3>3 DEF Kernel, Tick, SigChld, ChildExit, SignalExit, Exits, netVars
    <3>. QED
      BY <1>5, <3>1, <3>2, <3>3
  <2>. QED
    BY <1>4, <1>5, <2>1
<1>6. CASE UNCHANGED vars
  BY <1>2, <1>6 DEF vars, daemonVars, netVars, clientVars
<1>. QED
  BY <1>3, <1>5, <1>6 DEF Next

LEMMA ConversationStep ==
    ASSUME OneJob, LoopInv, TalkType, Conversation, [Next]_vars
    PROVE  Conversation'
<1>. SUFFICES ASSUME NEW c \in Conns \ Pipelining, Conversing(c)
              PROVE  Conversing(c)'
  BY DEF Conversation
<1>1. CASE Daemon /\ UNCHANGED clientVars
  <2>1. CASE Select \/ EndPass \/ AcceptFails \/ ReadPipe \/ WaitpidNone \/ Handled
    BY <1>1, <2>1, QuietStep
  <2>2. CASE Accept
    BY <1>1, <2>2, AcceptStep
  <2>3. CASE Recv
    BY <1>1, <2>3, RecvStep
  <2>4. CASE RecvFails
    <3>1. CloseServed /\ UNCHANGED outbox
      BY <2>4, ServedFd DEF RecvFails, Serving, CloseServed, LoopInv
    <3>. QED
      BY <1>1, <3>1, CloseStep
  <2>5. CASE DoCommand
    BY <1>1, <2>5, CommandStep
  <2>6. CASE \E p \in Pids : WaitpidOne(p)
    BY <1>1, <2>6, ReapStep
  <2>. QED
    BY <1>1, <2>1, <2>2, <2>3, <2>4, <2>5, <2>6 DEF Daemon
<1>2. CASE Kernel /\ UNCHANGED clientVars
  BY <1>2, QuietStep DEF Kernel
<1>3. CASE SignalExit /\ UNCHANGED clientVars
  BY <1>3, SignalExitStep
<1>4. ASSUME NEW d \in Conns, Client(d)
      PROVE  Conversing(c)'
  BY <1>4, ConnectStep, SendStep, ReceiveStep, ReceiveEofStep, ClientCloseStep
     DEF Client, Calls
<1>5. CASE UNCHANGED vars
  BY <1>5, FrameAll DEF vars, daemonVars, netVars, loopVars, clientVars, Untouched
<1>. QED
  BY <1>1, <1>2, <1>3, <1>4, <1>5 DEF Next

LEMMA ConversationHolds ==
    ASSUME OneJob
    PROVE  Safe => [](TalkType /\ Conversation)
<1>1. LoopInv /\ TalkType /\ Conversation /\ [Next]_vars => (TalkType /\ Conversation)'
  BY TalkTypeStep, ConversationStep
<1>. QED
  BY <1>1, ConversationInit, LoopInvariant, PTL DEF Safe

\* As long as a connection launches one command, what recv() finds is the one
\* reply to the command that was sent (client.cpp:181-209, kdesud.cpp:486).
THEOREM RepliesMatchHolds ==
    ASSUME OneJob
    PROVE  Safe => []RepliesMatch
<1>1. Conversation => RepliesMatch
  BY DEF Conversation, Conversing, GoodAnswer, RepliesMatch
<1>. QED
  BY <1>1, ConversationHolds, PTL

\* Under the same assumption exitCode() reads the status of the last command the
\* client launched (client.h:76-80, handler.cpp:510, kdesud.cpp:486).
THEOREM ExitIsOfLastCommandHolds ==
    ASSUME OneJob
    PROVE  Safe => []ExitIsOfLastCommand
<1>1. TalkType /\ Conversation => ExitIsOfLastCommand
  <2>. SUFFICES ASSUME TalkType, NEW c \in Conns \ Pipelining, Conversing(c),
                       outbox[c] /= <<>>
                PROVE  /\ waiting[c] = "EXIT" => Head(outbox[c]).to = "EXIT"
                       /\ \A reply \in ToSet(outbox[c]) :
                             reply.to = "EXIT" => reply.status = <<c, sent[c].launched>>
    BY DEF Conversation, ExitIsOfLastCommand, ToSet
  <2>1. peer[c] = "open" /\ GoodAnswer(c)
    BY DEF TalkType, Silent, Conversing
  <2>2. outbox[c] \in Seq(Replies(c)) /\ Len(outbox[c]) = 1
    BY <2>1 DEF TalkType, RepliesOfOwn, GoodAnswer
  <2>3. Head(outbox[c]) = outbox[c][1] /\ \A reply \in ToSet(outbox[c]) : reply = outbox[c][1]
    BY <2>2 DEF ToSet
  <2>. QED
    BY <2>1, <2>3 DEF GoodAnswer
<1>. QED
  BY <1>1, ConversationHolds, PTL
===============================================================================
