# KDESu in TLA+

KDESu lets a desktop program run a command as another user.  A library
(`src/src/*.cpp`) drives `su`, `sudo` or `ssh` through a pseudo terminal and
talks to a small helper, `kdesu_stub`, at the other end.  A daemon, `kdesud`
(`src/src/kdesud/`), keeps passwords and variables for a while, so that a user
is not asked for every command, and runs the commands for its clients.  This
directory holds TLA+ models of these parts, the TLC configurations that check
small instances of them, and TLAPS proofs about them.

Paths below are relative to `src/src/`.

## 1. Inventory

### The system's parts

| Part | State it keeps | Operations | Modelled in |
|---|---|---|---|
| Store: class `Repository` (`kdesud/repo.cpp`) | entries (value, group, absolute deadline), `head_time`, a cached lower bound of the deadlines | `add`, `remove`, `removeSpecialKey`, `removeGroup`, `hasGroup`, `findKeys`, `find`, `expire` | `RepositoryOps`, `Repository`, the texts of keys in `StoreText`; abstractly `TtlStore` |
| Main loop of the daemon (`kdesud/kdesud.cpp:453-535`) | `active_fds`, `tmp_fds`, the list `handler`, the self-pipe | `select`, `expire`, `accept`, collecting children, closing connections, ending | `Kdesud` |
| Connection handler (`kdesud/handler.cpp`) | line buffer, password and time-out, host, priority, scheduler, `m_pid`, exit code and its two flags | `recv` into the buffer, sixteen commands, parse errors, `respond`, `sendExitCode` | `Kdesud`; buffer, lines and texts in `Wire` |
| Client library (`client.cpp`) | one socket | `connect`, `command` (one `send`, one `recv`), `startServer`, destructor | `KdesuSession`, `SocketLife`; what is sent and read in `WireText`, `Wire`, `StoreText` |
| Socket file and start of the daemon (`kdesud.cpp:161-451`) | the name in the file system, who listens | look, ping, unlink, bind, listen, fork, clean up | `SocketLife` |
| Pseudo terminal process (`ptyprocess.cpp`) | `inputBuffer`, the terminal's echo flag, `m_pid` | `exec`, `readLine`, `unreadLine`, `writeLine`, `waitSlave`, `waitForChild` | `StubProcess` by lines, `PtyProcess` by bytes |
| Conversation with the stub (`stubprocess.cpp`), the stub (`kdesu_stub.c`) | the request being answered; the parameters read | requests and values, environment, running the command | `StubProcess`; strings and their escapes in `PtyProcess` |
| `su`/`sudo` (`suprocess.cpp`), `ssh` (`sshprocess.cpp`) | where the conversation is | `exec` in three modes, `converseSU`, `converseSsh` | `SuProcess`, `SshProcess`, composed in `Authentication` |
| Lexer and escaping (`kdesud/lexer.cpp`, `client.cpp:160-179`) | - | text of a command to tokens and back | `WireText`, `Wire`; abstractly `CommandQueue` |
| Peer credentials (`kdesud/secure.cpp`) | - | uid of the peer | its outcome, `Foreign` in `Kdesud` |
| Cookies (`kcookie.cpp`), core dump and tracing protection | - | system calls made once | no |

### How they interact

A client connects to the daemon's socket and sends one command line at a time;
the daemon's single thread executes it against the store and the connection's
handler and sends a reply.  `EXEC` forks a process that runs the command with
`SuProcess` or `SshProcess` and ends with its exit code; SIGCHLD writes a byte
to a pipe that the loop watches; the loop collects the children and hands the
code to the handler that remembers the process id, which sends it to a client
that has asked with `EXIT`.  The forked process has copies of every descriptor
of the daemon: of the connections and of the listening socket.  The store is
only touched by the loop (`expire`) and the commands.

### What is hard, and what makes each part correct

* *Store.* `expire()` returns early on the cached `head_time`, deadlines are
  unsigned 32-bit sums.  Correct when the cache never hides an overdue entry
  and every call has the effect of the same call on a plain table.
* *Main loop.* Signals coalesce, are delivered between any two system calls
  and say nothing about which child ended; process ids and descriptors are
  reused; one answer of `select()` is served while connections come and go; the
  SIGCHLD branch falls through into the branch for connections.  Correct when
  only ready connections are served, no child is lost, and each exit status is
  filed where its command was launched.
* *Commands.* `EXEC` uses two store entries that expire apart, computes keys
  from settings that may change, and its outcome arrives later.  Correct when a
  client gets one reply to each command, and that reply; when an exit code is
  that of the last command; when a cached password is fresh and its
  environment was the same; when `DEL` removes what `EXEC` would use.
* *Start.* Looking, pinging, unlinking and binding are separate system calls
  on a name; daemons are killed; a command may hold the listening socket of a
  dead daemon.  Correct when a running daemon can be reached by the name, when
  only crashes leave a stale file, and when no start waits for ever.
* *The connection as bytes.* A line arrives in parts, several lines arrive at
  once, the buffer is bounded; strings are escaped by one program and taken apart
  by another.  Correct when the calls that were made are executed, in order and
  with their arguments, when each returns its own answer, and when the connection
  ends only for a cause.
* *The terminal as bytes.* Lines are made of what `read()` returns, some are put
  back, some are read ahead of the loop that waits for the child; the exit string
  comes in parts.  Correct when strings arrive as they were, when nothing is
  dropped, and when `waitForChild()` returns.
* *Conversations.* Three processes talk through a terminal with an echo flag,
  partial lines and flushes; requests and values are matched by order alone.
  Correct when the values arrive at their parameters, when the password is read
  by the program that asked for it, when `exec()` returns, and its result is so.

The complete list, each at its line, is `hazards` in `PROJECT.json`.

## 2. Modules

    RepositoryOps --- RepositoryOpsProofs
       |    |     \         |          \
       | StoreText  Repository --- RepositoryProofs        TtlStore
       |    |            |................ implements .........:
       |    +------- MCRepository
       |
     Kdesud --- KdesuSession --- MCSession, MCStore
                     |
                KdesudProofs (extends RepositoryOpsProofs too)

    Characters --- WireText --- Wire --- MCWire            CommandQueue
      |  :  |                    |............ implements .....:
      |  :  +--- PtyProcess --- MCPtyProcess
      |  +.. StoreText   |
      |            PtyProcessProofs
      |                  |
      +---------- CharactersProofs --- WireProofs (extends Wire too)

    SocketLife --- MCSocketLife
        |
    SocketLifeProofs

    StubProcess --- SuProcess, SshProcess --- Authentication --- MCAuthentication
                                                   |
                                          AuthenticationProofs

An operator whose name ends in `Slip` (in `SocketLife`: one introduced by "A
slip") is a plausible mistake in the operator that follows it.  No specification
uses it; `mutants` in `PROJECT.json` says which property fails when it takes the
other's place.

**RepositoryOps** has the operations of `repo.cpp` as operators on a record
`[entries, head_time]`.  Texts are abstract: a key is a model value or a tuple
of the arguments of `makeKey()`, and what the code does with characters is
given by three relations, `PrefixOf` (`startsWith`), `OccursIn` (`contains`) and
`Stemmed` (keys with a name left before their last `-`).  Arithmetic on
deadlines is modulo `TimeMod`, 2^32 in the program.  The null byte array, which
`find()` returns for an absent key, equals the empty one, as `operator==` of
QByteArray has it.

**Repository** is any sequence of these calls under a moving clock.  `swept`
remembers when `expire()` last ran.  **StoreText** computes the three relations
from texts as `makeKey()`, `DELS` and `GETK` do, and has the list that
`findKeys()` makes (names up to the last `-`, in the order of a QMap, a name left
out when it already occurs in the list) and `Client::getKeys()` takes apart.
**TtlStore** is what the store is for: a
table with true deadlines, "for ever" apart from the numbers, and a purge that
removes exactly what is overdue.  `Repository!AbstractSpec` is that
specification under the mapping `Table`, which turns time-outs into deadlines
and forgets `head_time`.

**Kdesud** is the daemon and the kernel around it.  One action stands for what
happens between two system calls at which the kernel, the clock or another
process may get in: `Select` (with the `expire()` after it), `EndPass`,
`Accept`, `ReadPipe`, `WaitpidOne`, `WaitpidNone`, `Recv`, one action for each
command, `CloseConnection`.  `mode` is the place in `main()`.  The kernel may
deliver SIGCHLD (`SigChld`), end a child and advance the clock at any time.
A command is a record and arrives whole; `Recv` may take any number of the
commands that wait, which covers a last line that is still incomplete.  The
result of a child is the pair of its connection and its ordinal there, so that
an exit code says whose it is.

**KdesuSession** adds the clients.  `Client::command()` is a send and one
`recv()` that takes whatever has arrived.  Clients in `Pipelining` send without
waiting (programs that do not use the class); every client may leave at any time.

**WireText** is the text of the protocol: `Client::escape()` and the lines of
the calls, `Lexer::lex()` with all its branches on a line and the NUL behind it,
the patterns that `doCommand()` wants, answers and what `command()` makes of them.
A keyword is one character, the number of its token.  **Wire** is one connection
byte by byte: `Recv` takes any part of the stream that has room in `m_Buf`,
`DoCommand` handles the first complete line, `Handled` goes back to `select()`.
Three kinds of programs use it: class `Client`, a "pipeline" that leaves answers
unread, and a "stranger" that sends any line.  Of the commands it has what `SET`,
`GET` and `DELV` do to variables that never expire; the other answers are any that
`Kdesud` can give.  **CommandQueue** is what a connection promises, without lines,
buffers and bytes: calls are executed once, in order, with their arguments, and
each returns its answer.  `Wire!CallsAsMade` is that specification, with the
calls in the bytes that were not handled yet (`flight`) for the queue and the
answers in the bytes that were not read yet (`owed`) for the answers.  A call that
class `Client` cannot express gets into the queue as `Malformed`; a program that
writes its lines itself can express it (`Say`).
**Characters** has what these modules and `PtyProcess` share.

**SocketLife** is the socket's name.  A process of `Procs` is one start of
`kdesud`; `pc` is its next system call.  The file is known by the process that
bound it, and `unlink()` takes away whatever has the name.  Connecting succeeds
while a process holds the listening socket: the daemon from `listen()` on, or a
command it has forked.  `SystemErrors` lets system calls fail and processes be
killed, `ChildSignals` lets the process of a command be terminated, which runs
the daemon's handler.  `disturbed` remembers that two starts overlapped, that
such a process unlinked the file or that a ping failed for want of a descriptor.

**StubProcess** has the terminal as two streams of lines, known by their kind,
and the echo flag; the program (`su`, `sudo`, `ssh`: external, as the code expects
it); `kdesu_stub` step by step; and `readLine()`, `converseStub()` and
`waitForChild()`.  `readLine()` takes all output into `buf` and returns its
first line; a prompt has no newline, so the newline printed later joins it when
both are read together.  The stub may be another one than this source's, for every
method (`kdesu_stub_path`, `suprocess.cpp:133-137`), and then make a request that
`converseStub()` does not know (`StubAsks`).  Signals from outside may end the program
or the stub at any time (`Signals`); what `waitpid()` says of a program that ended so
is `Killed`, which `waitForChild()` takes for 0.  A stub may outlive `su` or `sudo`,
and keeps the terminal open (`TerminalClosed`).  **SuProcess** and **SshProcess** add `exec()` up to the
stub's header, and **Authentication** puts everything together.

**PtyProcess** is the terminal once more, as bytes: `readAll()`, `readLine()`,
`unreadLine()`, `writeLine()`, and `waitForChild()` with its remainder of a line
and `checkPidExited()`; `writeString()` on this side and `xstrdup()` and
`dequote()` on the other.  A `read()` returns all there is; in a `torn` run it may
return less, as a driver may that delivers output in parts.  It leaves out what
`Authentication` has (passwords, echo, prompts) and has what that leaves out: one
string for the command, one or no variable, an exit string, processes that
survive the child.

## 3. Runs

| Run | Module, configuration | Question |
|---|---|---|
| `repository` | `MCRepository` | Is the cached head time a bound, is nothing due left after `expire()`, and are all names listed, and does the store implement `TtlStore`? |
| `session_loop` | `MCSession`, `MCSession.cfg` | Does the loop serve only what is ready, lose no child, and file every status where it belongs? |
| `session_replies` | `MCSession`, `MCSessionReplies.cfg` | Does each client read the reply to what it asked, and does every command return? |
| `session_store` | `MCStore`, `MCStore.cfg` | Is what a command finds fresh and guarded by its environment, and does `DEL` remove it? |
| `startup` | `MCSocketLife` | Can a running daemon be reached, do only crashes leave a file, does every start end? |
| `authentication` | `MCAuthentication` | Do values, password and result go where they should, and does `exec()` return? |
| `wire` | `MCWire` | Are the calls that were made executed, does each return its answer, and does a connection end only for a cause? |
| `pty` | `MCPtyProcess` | Do strings arrive, is the exit string found, is nothing dropped, and does `waitForChild()` return? |
| `stale_exit_code` | `MCSession`, `StaleExitCode.cfg` | violation of `ExitIsOfLastCommand` |
| `environment_expiry` | `MCStore`, `EnvironmentExpiry.cfg` | violation of `SameEnvironment` |
| `start_race` | `MCSocketLife`, `StartRace.cfg` | violation of `OneDaemon` |
| `ssh_failure` | `MCAuthentication`, `SshFailure.cfg` | violation of `FailureShows` |

### Properties and what they relate

`repository`: `HeadTimeBound` (the cache against every entry), `NothingDueSwept`
(the entries against the last `expire()`), `KeysListed` (what `getKeys()` reads
against the names of the keys of the group), `AbstractSpec`.

`session_loop`: `ReadyWhenServed` relates the bits of `select()` still to serve
to handlers, list size and streams; `NoLostChild` relates zombies to the pending
signal, the pipe and the place in the loop; `LastOutcome` relates `m_pid` and the
exit code to the process table; `ExitGoesToLauncher` relates replies to
launchers.  `session_replies`: `RepliesMatch`, `ExitIsOfLastCommand` (for clients
that launch one command at most; see the finding) and the liveness property
`CommandsReturn`.  `session_store`: `FreshStore`, `EnvironmentChecked`,
`DelForgetsOwn`.

`startup`: `ServerReachable`, `StaleOnlyAfterCrash`, `StartEnds`.  The first is
stated for runs in which `disturbed` is false; starts one after the other, with any
failures and crashes between them, are such runs.  The other two are about all
runs.

`authentication`: `ValuesMatch`, `PasswordStaysWithProgram`,
`PasswordNotDiscarded`, `ResultIsSo` (what `exec()` returns against the end of the
command, of the program and the password), `ExecReturns`.  The last two have exceptions,
which they name one by one:

* `ResultIsSo`, for a run: a program that a signal has ended (`status = Killed`), the
  signal of `exec()` or one from outside; and a conversation with the stub that failed
  behind ssh (`then = Again`).  Every other run by ssh is included.
* `ExecReturns`: an ssh that ends at its prompt, and a sudo whose stub has made an
  unknown request and waits for the answer.

`FailureShows` is what the second exception of `ResultIsSo` leaves out, and is violated
(`ssh_failure`).

`wire`: `LexerStaysInside` (every token of every line ends at the NUL behind the
line at the latest), `ClosedForCause` (the end of a connection against the last
call), `CallsReturn`, and the refinement `CallsAsMade`.  `pty`: `StubGetsStrings`
(what the stub has read against what was to be passed), `SignalledForLine` (the
signal against every line that was read, in however many parts),
`NothingDropped` (what was copied, is buffered and is in the terminal against all
that was printed), `WaitEnds`.

### Bounds, and why they are enough

* `MCRepository`: four keys, which are texts (a password, two variables of one
  name that the text of a `DELS` occurs in, one whose name is a part of theirs),
  one group besides the empty one, clock 0..2, time-outs that are never, due
  within the run and beyond it, `TimeMod` 8.  Wrong cache handling needs two entries with different deadlines
  and a deletion or replacement between two sweeps.  Deadlines do not wrap
  (`NoWrap`).
* `MCSession.cfg`: two clients, one with three commands and one with two (to set
  the password, launch and ask; to launch and ask), two process ids, two
  connection descriptors, `PipeRead` 1.  The code reads up to 100 bytes of the
  pipe at once; 1 is the smallest number and leaves bytes behind, which is the
  hard case, because a pipe that still holds a byte is ready again.  Two process
  ids with two clients make ids free and reused.  Process ids are
  symmetric; there is no liveness property in this run.
* `MCSessionReplies.cfg`: one client that can set a password, one that pipelines,
  one process id (so `fork()` fails while it is in use), a daemon that a signal
  may end.
* `MCStore.cfg`: every command, three of them by one client, over the seconds
  0..2 with time-outs of one second, one descriptor; a second connection of
  another user, whose commands are refused.
* `MCSocketLife`: three starts, because a stale file, the start that removes it
  and the start that is overtaken are three.
* `MCWire`: a buffer of 21 bytes in the place of the 1024 of `handler.cpp:29` and of
  `client.cpp:191` (the two buffers play the same part on the two sides): one line
  just fits, one is a byte too long, one would fit but for its escapes, and one list
  of keys is a byte too long for the client.  `IntMax` 12, so that a number can be too large.  Three
  calls of class `Client`, two of a pipeline, one line of a stranger: any of up to
  four characters of an alphabet that leads through every branch of the lexer, and
  some longer ones.
* `MCPtyProcess`: lines and an exit string of two characters, which can come in one,
  two or three parts, at the beginning of a line or inside one, and twice in one
  read; two writes of the command; strings with every character that is written in
  another way, and with 127, which the terminal takes for VERASE.
* `MCAuthentication`: three parameters besides the stub's name (the real ten are
  asked for in the same loop), up to two variables, three prompts, a line of text
  before the prompt, any stub with every method, one signal or two at any time.  Only
  ssh is in `LateEcho`: with su in it `PasswordNotDiscarded` is violated (see below).
  No line before the prompt ends in a colon (`QuietNotices` in section 4).

Deadlock is not checked in the runs with `CHECK_DEADLOCK FALSE`: clients may
stop, a daemon that ends stays ended, and `exec()` returns once.  `CommandsReturn`,
`StartEnds`, `ExecReturns`, `CallsReturn` and `WaitEnds` are the statements that nobody waits for ever.

### Fairness

* `KdesuSession`: the daemon takes its next step (it is one process that does
  not block but in `select()`), SIGCHLD is delivered, a client that waits reads
  what there is, and a child ends.  A client need not send, leave or stay, time
  need not pass, nobody has to end the daemon.
* `SocketLife`: a start, a leaving daemon and a forked command go on.  Nobody
  has to start or stop anything.
* `Authentication`: `exec()`, the stub and the program go on; for the program
  this includes that `sudo` and `sshd` do not wait for a password for ever
  (`passwd_timeout`, `LoginGraceTime`).  `su` has no such limit and gets none.
  Signals need not come.
* `Wire`: the daemon does not stop, and a program that awaits an answer, or reads
  all there is, does so.  Nobody has to call.
* `PtyProcess`: `exec()` goes on, and SIGTERM ends the child.  The command need
  not end or print by itself, and a process it left behind may stay for ever.

### Where the code disagrees with what is said of it

* `stale_exit_code`: `EXEC` does not reset the exit code of the connection, so
  `EXIT` after a second `EXEC` is answered with the code of the first.  Nor is the
  flag that `EXIT` sets ever cleared, so that the end of every later command is
  sent unasked.  The client takes it for the reply to its next call, and the call
  after that reads the wrong reply: `exitCode()` may read the `OK` of a `PING`,
  which is 0.
* `environment_expiry`: the environment and the password have deadlines from two
  calls of `time()`; between the two deadlines a command without environment
  gets the password.
* `start_race`: a bound socket that is not listened on yet is stale to a second
  start, and both become daemons.
* `ssh_failure`: after a failed conversation `SshProcess::exec()` waits for the child it
  has killed and then once more; there is none, and 0 is returned in the place of
  `SshIncorrectPassword`.

What follows is not a run of its own, and an exception in a property:

* `DEL` does not use the priority and scheduler that `EXEC` used for the key, so that a
  password for a raised priority, which is filed under root, stays after
  `delCommand()`, which `client.h:110` does not say (`DelForgetsOwn`);
* when the stub of a `sudo` makes an unknown request, `exec()` tries to kill sudo and
  waits for it, though it says elsewhere that sudo cannot be killed
  (`suprocess.cpp:166`): the stub waits for an answer, sudo for the stub, and `exec()`
  for sudo (`ExecReturns`);
* a signal from outside ends the program: `waitForChild()` takes that for 0, and
  `exec()`, which "will wait for the command to finish" (`suprocess.h:42`), returns 0,
  also while a stub that lives on runs the command (`ResultIsSo`);
* `SuProcess::exec()` turns the echo off itself (for `sudo`, which copies the
  flag), and so `waitSlave()` does not wait for a `su` that turns it off after its
  prompt, which is what its comment says it is for (`PasswordNotDiscarded`, when
  the constant `LateEcho` has `su`);
* a `ssh` that ends at its prompt makes `waitSlave()` loop (`ExecReturns`);
* an `ssh` that `exec()` has ended for its exit string counts as 0, whatever the
  command returned (`ResultIsSo`);
* a command process that gets SIGTERM unlinks the socket of the running daemon
  (`ServerReachable`);
* an exit string that `readLine()` had read ahead is looked at only when more
  output arrives, which `ptyprocess.h:112` does not say (`WaitEnds`);
* a negative priority or time-out, and a string with the character 127, cannot be
  expressed: the line closes the connection (`ClosedForCause`);
* `GETK` may leave out a name that is a part of the others (`KeysListed`).

## 4. Proofs

`RepositoryProofs` proves, for all keys, values, groups, time-outs and moduli
that satisfy the assumptions of `RepositoryOps` and `Repository`:

| Theorem | Statement |
|---|---|
| `TypeCorrect` | `Spec => []TypeOK` |
| `HeadTimeBoundHolds` | `Spec => []HeadTimeBound`, wrapping deadlines included |
| `NothingDueSweptHolds` | `NoWrap` implies `Spec => []NothingDueSwept` |
| `Refinement` | `NoWrap` implies `Spec => AbstractSpec` |

The inductive invariant is `TypeOK /\ HeadTimeBound /\ NothingDueSwept`.
`TypeOK` is inductive alone.  `HeadTimeBound` needs `TypeOK` and one fact about
minima: `expire()` computes the new head time as the minimum of what it keeps
(`MinExists`, by well-foundedness of the naturals).  `NothingDueSwept` needs
both: when `expire()` returns early, it is the bound that says that nothing was
due; and it needs `NoWrap`, because a deadline that wraps is due at once.  The
refinement needs all three: a sweep that returns early must be a purge of the
empty set.  The lemmas about the operators (`AddedType`, `ExpiredBound`,
`StoredAfterAdd`, ...) are in `RepositoryOpsProofs`, for this module and the
next.

`KdesudProofs` is about `Safe`, the daemon with its clients, for every number of
clients, descriptors and process ids, every size of the pipe's reads and every
set of commands:

| Theorem | Statement |
|---|---|
| `DaemonTypeCorrect` | `Safe => []TypeOK` |
| `ReadyWhenServedHolds` | `Safe => []ReadyWhenServed` |
| `NoLostChildHolds` | `Safe => []NoLostChild` |
| `LastOutcomeHolds` | `Safe => []LastOutcome` |
| `ExitGoesToLauncherHolds` | `Safe => []ExitGoesToLauncher` |
| `FreshStoreHolds` | `NoWrapSent` implies `Safe => []FreshStore` |
| `EnvironmentCheckedHolds` | `Safe => []EnvironmentChecked` |
| `DelForgetsOwnHolds` | `Safe => DelForgetsOwn` |

None of the properties is inductive alone.  `LoopInv` is, and it says besides
them:

* `LoopType`, `StoreType`: the types, and that `head_time` is a bound;
* `OneHandlerEach`: a connection is in the backlog once or has one handler.
  Without it closing one connection could make another's bit stale, and two
  handlers could claim one child;
* `ListLongEnough`: every descriptor in use is inside the list of handlers, and
  nothing is written to the pipe before the first connection.  This is what
  makes the missing `continue` after the SIGCHLD branch harmless;
* `ServingOne`: while commands run, their connection is the one being served,
  and no other step takes it away;
* `OwnExitCode`: an exit code a handler has is of a command of its own.

The step is proved conjunct by conjunct.  `CommandEffect` first reduces the
twenty-one actions of `doCommand()` to the four things they can do to the loop
(settle, launch, close, end), and `ReapEffect` reduces `waitpid()` to the one
handler that remembers the child, which `LastOutcome` says is its launcher's:
a process id that is free is in no handler, because `m_pid` is cleared when the
child is collected.  `FreshStore` adds `NothingDue(repo, swept)`, and
`ExitGoesToLauncher` adds `RepliesOfOwn`, the exit codes in the clients'
streams.  `EnvironmentChecked` adds `EnvStored`: an entry that guards a password,
as long as it is there, has the environment the password was stored with.  Every
step but two only takes entries away (`Thins`); `SET` writes keys of another
namespace, and `EXEC` writes both entries.  `DelForgetsOwn` is an action property:
it needs of `LoopInv` that the store has its type, and that the key `DEL` computes
is the one `EXEC` would look for, which is so only for one and the same user.

The last part of `KdesudProofs` is about what class `Client` reads.  It assumes `OneJob`,
that nobody launches a second command on a connection, without which the first two
are false (`stale_exit_code`):

| Theorem | Statement |
|---|---|
| `RepliesMatchHolds` | `OneJob` implies `Safe => []RepliesMatch` |
| `ExitIsOfLastCommandHolds` | `OneJob` implies `Safe => []ExitIsOfLastCommand` |

The inductive invariant, besides `LoopInv`, is `Conversation`.  Its core is `Turn`:
a command whose reply is awaited is in exactly one place, namely on its way, among
the commands being executed, an `EXIT` the handler keeps in mind (`Owes`), or
answered in the client's stream.  So a second reply can come from nowhere.
`OneLaunch` says that a handler has launched what its client has read that it
launched, or will read, and that a child whose end is not known has no exit code
yet; so the one `EXIT` that is owed is answered by the one child.  `Unheard` says
the same of connections that the daemon has not accepted.  Clients in `Pipelining`
do what they like: `Frame` says that a step that touches neither a connection nor
what its handler owes cannot disturb it, and everything others do is such a step.

`SocketLifeProofs` is about any number of starts:

| Theorem | Statement |
|---|---|
| `StartTypeCorrect` | `Spec => []TypeOK` |
| `StaleOnlyAfterCrashHolds` | `Spec => []StaleOnlyAfterCrash` |
| `ServerReachableHolds` | `Spec => []ServerReachable` |

The second follows from `BoundByLiving`, where whoever bound the present file can
be.  The third needs `Undisturbed`, which has four facts about starts that do not
overlap: there is one at a time; one that unlinks or binds has found that no daemon
runs, for otherwise its ping would have been answered; nobody binds the name while
a start pings who had it; and what a start has bound stays until it listens.

`AuthenticationProofs` is about `exec()`, the program and the stub, for every list
of parameters, every list of variables and every number of prompts:

| Theorem | Statement |
|---|---|
| `AuthenticationTypeCorrect` | `Spec => []TypeOK` |
| `PasswordStaysWithProgramHolds` | `QuietNotices` implies `Spec => []PasswordStaysWithProgram` |
| `ResultIsSoHolds` | `QuietNotices` implies `Spec => []ResultIsSo` |
| `PasswordNotDiscardedHolds` | `QuietNotices` and `LateIsSsh` imply `Spec => PasswordNotDiscarded` |
| `ValuesMatchHolds` | `QuietNotices` and `VariablesSay` imply `Spec => []ValuesMatch` |

`QuietNotices` says that what a program prints before it asks neither looks like a
prompt nor ends in a colon, which is what `converseSU()` goes by: after such a line
the password is typed to whoever comes next, the stub if no password was needed.
Signals that end the program or the stub, and stubs with other requests, are in all
these theorems.
`LateIsSsh` says that su and sudo turn the echo off before they ask; `converseSU()`
finds the echo off already, because `exec()` has turned it off, and types at once.
The inductive invariant `AuthInv` has, besides the types and `ResultIsSo`:

* `LetIn`: as long as the program lets nobody in, no header of the stub is in any
  buffer and the stub is not running (`Closed`); and it lets in only after the right
  password or before it has asked; a stub that runs has its program, or that was ended
  by a signal and not by its exit;
* `BeforePassword`: until `exec()` has typed the password nothing is in the terminal's
  input, and it types it only when a prompt was printed, so the program awaits it, or
  has ended with no stub started;
* `PasswordFirst`: the password is the first line of the input, or not in it;
* `CheckedOnly`, `StubEnded`, `ProgramEnded`, `WaitsFor`: the exit code 0 on its way
  from the command through the stub and the program to `waitForChild()`; "stop" is
  typed for checks only, and only ssh is waited for twice.

The last theorem follows the conversation between `exec()` and the stub.
`VariablesSay` says that no additional variable is an empty line, which ends their
list.  What the stub takes is compared with `Whole`, the lines it is to get: "ok",
the parameters after its name, the variables, the empty line.  The inductive
invariant, besides `AuthInv` and `Untyped` (nothing is typed ahead of the program),
is `Conversation`: the values taken and the lines not yet read are a beginning of
`Whole` (`Matches`), as long as the stub's place says (`Taken`), and the two sides are
in turn (`InTurn`): either a request is to be read and nothing is in the input, or
the answer is there and nothing is to be read.  Before the header is seen `AtHeader`
holds, after the end `LeftAlone`: the stub waits and nobody types.  `EmptyIsLast` is
why the environment ends where it should.

`PtyProcessProofs` is about the bytes on the terminal, for every command, variable,
notice and output, every exit string, and reads that return parts of any size:

| Theorem | Statement |
|---|---|
| `PtyTypeCorrect` | `Spec => []TypeOK` |
| `NothingDroppedHolds` | `Spec => []NothingDropped` |
| `SignalledForLineHolds` | `Spec => []SignalledForLine` |
| `StubGetsStringsHolds` | `QuietNotices` implies `Spec => []StubGetsStrings` |

There are two inductive invariants, one for each direction.  `Flow` is about what
comes back.  `Kept` says that what was copied, is buffered and waits in the terminal
is an end of all that was printed.  It is false between the header and the moment it
is found again, because the header that was put back is in front of what follows:
then `PutBack` says that the output goes on behind it.  `Remembered` is what makes a
line count that comes in parts: as long as nothing was found, what `waitForChild()`
keeps begins where a line begins.  Then `MatchedIs`, which says of every text what the
loop over its lines finds and keeps, says the same of all that was read so far
(`ExitLineOfJoin`).

`InStep` is about what goes to the stub, as long as no line is torn: for each place of
the stub it says where `exec()` is, what is in the terminal in each direction, and what
the stub has.  While they talk, one of the two directions is always empty.  `QuietNotices`, here about
bytes, says that what comes before the stub is whole lines, none of them its header:
text without a newline in front of the header would be one line with it, and both
sides would wait for each other.  `MCPtyProcess` assumes it too, so TLC checks that
its instance satisfies it.  That the stub gets a string as it was, is `ReadBack`: what
`writeString()` makes of a string, the terminal leaves as it is, if it has no 127
(`EditedIs`), `fgets()` takes it whole, for no newline is left in it (`WriteStringIs`),
and `dequote()` makes the string of it again, if it has no NUL (`DequoteIs`).

These lemmas are inductions over texts.  The induction theorems of the library take
an operator, which no prover here can instantiate, so `CharactersProofs` has the same
with sets: a set of natural numbers that is not empty has a smallest element
(`Least`, from `WFMin`), so there is no least counterexample (`Induction`, `Upward`,
`Downward`).  A recursive function is defined as the choice of a function that does
what its definition says; `Recursion` shows that there is one, whenever the value at
an element depends on smaller elements only, and so that the definition unfolds
(`MatchedUnfolds`, `EditedUnfolds`, `DequoteUnfolds`, `FlattenUnfolds`, `QuotedUnfolds`,
`TokensUnfold`).

`WireProofs` is about one connection, byte by byte, for every set of calls and every
set of lines that programs write themselves, every size of the buffers and every way
to cut the stream:

| Theorem | Statement |
|---|---|
| `LexerStaysInsideHolds` | `Spec => []LexerStaysInside` |
| `CallsAreHeard` | for every call, `Parsed(Line(call))` is the call, or `Malformed` if it is not `Speakable` |
| `NoArgumentMissing` | a line that `doCommand()` executes has the arguments of its command |
| `ReadBack` | `Reading(Reply(answer))` is the answer, if it has no NUL |
| `WireTypeCorrect` | `Spec => []TypeOK` |
| `ClosedForCauseHolds` | `Spec => []ClosedForCause` |
| `CallsAsMadeHolds` | `Spec => CallsAsMade`, the refinement of `CommandQueue` |

The first part is the lexer on any line.  `Lex` returns a token that ends behind the
place where it began, and inside the line unless it is a newline or no token (`LexIs`);
for a string in quotes this is an induction from the end of the line to its beginning
(`QuotedIs`).  So `Tokens` makes progress, unfolds, and stops at the NUL at the latest
(`TokensInside`): a control character ends a word, a number and a string, also behind a
backslash, and the NUL is one.  A lexer that looks for the closing quote only has no
such bound (`QuotedSlip`).

The second part follows a call through the line.  `LineAt` says where each word of
it stands.  Inside quotes the lexer undoes `escape()`, character by character from
the last one back (`StringRead`); a 127, which `escape()` leaves alone, ends the
line instead.  A number is read up to the space behind it, and `toInt()` gives it
back (`ToIntIs`: there is one value that the digits of a text count, `OneValue`, and the
digits of a number count it, `DigitsCount`); a minus begins a word.  So all tokens are
as they should be, or one has the wrong kind (`LineRead`), and the patterns of
`doCommand()` want just the kinds that class `Client` writes (`PatternIs`):
`CallHeard` and `CallMisheard`.  The other direction is `NoArgumentMissing`, about any
line; with it `AnswersTo` and `StoreAfter` only look at arguments that are there,
whoever has sent the line.

The third part is the steps.  `CallsIn`, the calls in a stream, unfolds
(`CallsUnfold`), and a line more is a call more at its end if only whole lines come
before it (`OneMoreCall`, by induction over the stream).  The inductive invariant
`WireInv` has four parts.  `Basics` has the types.  `OnTheWay` says that buffer and
stream together are whole lines, and `flight` their calls; so a `recv()` that cuts a
line in two changes nothing in the queue, and a complete line in the buffer is the
head of the queue (`FirstFlight`).  `Counted` is about programs that do not wait:
they await as many answers as are owed and can still come.  `TurnByTurn` is about
class `Client`: as long as it is in step, it is `Idle`, or its one call is on its
way (`Asked`), or the one answer is (`Answered`).  That is why its answer is read
alone and whole, why the bytes that fill the buffer are those of a call that does not
fit, and why nothing is executed of a call that is malformed.  An answer is too long
only if it lists keys: a variable is shorter than the line that has set it
(`LongerLine`), so `TurnByTurn` also says that all variables fit into an answer.
None of the properties is inductive without it.

Every action then is a step of `CommandQueue` or none (`PromiseCall`, `PromiseExecute`
and the others): `Recv` stutters or hangs up, `ParseError` and `UnknownCommand` hang
up, `Return` is `Return` until an answer was lost, and `Astray` after that.

The assumptions are `RepositoryAssumption`, `NoEntryAssumption`,
`KdesudAssumption` (connections get descriptors above the pipe's),
`RequestsAssumption` (the store's keys and values include what the commands
name), `NoneAssumption` (None is no process id, handler, result or command),
`SocketLifeAssumption` (a start is neither a link nor the absence of a file), and
`StubAssumption` (the names of parameters and the variables differ from prompts, from
the password and from "stop"; the outcomes that stand for no exit code are no
numbers), and for the bytes `PtyAssumption` (the exit string is not empty and has no
newline) and `TextAssumption` (texts are bytes; the lines of the stub have no newline,
and its three requests are not the same), and for the lines `IntMaxAssumption`,
`WireAssumption` (a buffer has room for NO, its newline, a NUL and one byte more, and
for every exit code; lists of keys are bytes) and `InputAssumption` (`IsCall`: calls
have as many strings and numbers, of the types, as class `Client` gives them, and
`exec()` always has command, user and options; a line of a stranger ends with its only
newline, and the strings the daemon hears in it are bytes, not keywords).
`NoWrapSent` says that the run's last second plus the longest time-out is still
a number of 32 bits.

Only model-checked: `KeysListed`, because the order of a QMap and the folds over it
(`SetToSortSeq`, `FoldLeft`) are choices of the community modules over operators, about
which the installed provers can show nothing by induction; and every liveness property
(`CommandsReturn`, `StartEnds`, `ExecReturns`, `CallsReturn`, `WaitEnds`), because
fairness and ENABLED are outside TLAPS as installed.  The properties of the four
violation runs are refuted by TLC.

## 5. Abstractions, and what is not modelled

* Texts: in `Kdesud` a command is a record, and keys, passwords and names are model
  values.  `StoreText` and `Wire` have the texts, each for itself; they are not
  composed with `Kdesud`, whose states would be multiplied by those of the buffers.
  What joins them: `Recv` of `Kdesud` takes any number of complete commands, as the
  buffer of `Wire` can, and `StoreText` gives the relations `Kdesud` assumes.
* The text in which `EXEC` compares environments joins the variables with `*`;
  `Kdesud` compares environments as values.
* A terminal takes no line longer than 4095 bytes; `PtyProcess` has no such limit.
* Bytes above 127 are letters, as they are to `isspace()` and `iscntrl()` in a UTF-8
  or C locale.
* `Foreign` connections stand for a peer of another uid.
* X events, the set-up of the terminal, users, groups and priorities in
  the stub: one step, or none, because no property tells their details apart.
* `kill()` of `su` also ends the stub; in the program the stub gets a hang-up.
* A signal from outside ends the program or the stub; one that is caught or ignored
  without ending it changes nothing here.  When the stub is killed its command may go
  on, of which nobody learns; `su` and `sudo` then end by the same signal or with a
  code other than 0.
* `send()` of the daemon on its non-blocking sockets is complete or fails with EPIPE
  (`Posted`): a reply that a full socket buffer cuts or refuses is not modelled.  The
  code does not look at the result.  A `recv()` that is interrupted (EINTR,
  `handler.cpp:67`) would leave the line for the next `select()`; it is not told apart.
* A ping whose daemon dies after it has accepted the connection is seen to end
  when the last holder of the listening socket ends.

* Not modelled: `kcookie.cpp` (reads two environment variables and one line of
  `xauth` in a constructor), `secure.cpp` but for its outcome, and the protection
  against core dumps and tracing: system calls made once, without state of the
  program afterwards.

## 6. Plan

Done, in this order: `RepositoryOps`, `TtlStore`, `Repository` and its proofs;
`Kdesud` and `KdesuSession` with `KdesudProofs`; `SocketLife`; `StubProcess`,
`SuProcess`, `SshProcess`, `Authentication`; `WireText`, `CommandQueue`, `Wire`;
`PtyProcess`; `StoreText`; `SocketLifeProofs`; `EnvironmentChecked` in
`KdesudProofs`, then the replies; `AuthenticationProofs`; `CharactersProofs` and
`PtyProcessProofs`; `DelForgetsOwn` in `KdesudProofs`; `WireProofs`.

Not done, in the order in which it would be worth most:

1. An abstract specification of a session (one reply to each command; the
   exit code after the launch), implemented by `KdesuSession`.
2. `Authentication` in the place of the external child in `Kdesud`, so that a wrong
   password that was stored can be followed.
