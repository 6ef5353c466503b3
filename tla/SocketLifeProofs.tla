--------------------------- MODULE SocketLifeProofs ---------------------------
(***************************************************************************)
(* Theorems about SocketLife, for every number of starts, with failing     *)
(* system calls, killed processes and signalled commands or without.       *)
(***************************************************************************)
EXTENDS SocketLife, TLAPS

\* Types are kept by every step; a start has a connection exactly while it pings.
LEMMA TypeStep == TypeOK /\ [Next]_vars => TypeOK'
<1>. SUFFICES ASSUME TypeOK, [Next]_vars
              PROVE  TypeOK'
  OBVIOUS
<1>. USE SocketLifeAssumption
     DEF TypeOK, Starting, Running, Ended, Goto, UnlinkOrFail, SucceedOrCleanup, Cleanup
<1>1. ASSUME NEW p \in Procs, Start(p)
      PROVE  TypeOK'
  BY <1>1 DEF Start
<1>2. ASSUME NEW p \in Procs, Lstat(p) \/ UnlinkLink(p) \/ Access(p)
      PROVE  TypeOK'
  BY <1>2 DEF Lstat, UnlinkLink, Access
<1>3. ASSUME NEW p \in Procs, Connect(p) \/ ConnectFails(p)
      PROVE  TypeOK'
  <2>1. CASE Connect(p) /\ path \in Procs /\ Holds(path)
    BY <2>1 DEF Connect
  <2>2. CASE Connect(p) /\ ~(path \in Procs /\ Holds(path))
    BY <2>2 DEF Connect
  <2>3. CASE ConnectFails(p)
    BY <2>3 DEF ConnectFails
  <2>. QED
    BY <1>3, <2>1, <2>2, <2>3
<1>4. ASSUME NEW p \in Procs, SendPing(p) \/ Pong(p) \/ PingEof(p)
      PROVE  TypeOK'
  BY <1>4 DEF SendPing, Pong, PingEof
<1>5. ASSUME NEW p \in Procs, UnlinkStale(p) \/ Bind(p) \/ SetSockOpt(p)
      PROVE  TypeOK'
  BY <1>5 DEF UnlinkStale, Bind, SetSockOpt
<1>6. ASSUME NEW p \in Procs, Listen(p) \/ Fork(p) \/ EnterLoop(p)
      PROVE  TypeOK'
  BY <1>6 DEF Listen, Fork, EnterLoop
<1>7. ASSUME NEW p \in Procs, Leave(p) \/ Exit(p) \/ Crash(p)
      PROVE  TypeOK'
  BY <1>7 DEF Leave, Exit, Crash
<1>8. ASSUME NEW p \in Procs, RunCommand(p) \/ CommandEnds(p) \/ CommandSignalled(p)
      PROVE  TypeOK'
  BY <1>8 DEF RunCommand, CommandEnds, CommandSignalled
<1>9. CASE UNCHANGED vars
  BY <1>9 DEF vars
<1>. QED
  BY <1>1, <1>2, <1>3, <1>4, <1>5, <1>6, <1>7, <1>8, <1>9
     DEF Next, Main, CreateSocket

\* The variables of the start of kdesud keep their types, and no ping leaks its
\* connection (client.cpp:70-158).
THEOREM StartTypeCorrect == Spec => []TypeOK
<1>1. Init => TypeOK
  BY SocketLifeAssumption DEF Init, TypeOK, Starting, Running, Ended
<1>. QED
  BY <1>1, TypeStep, PTL DEF Spec

-----------------------------------------------------------------------------
(* A socket that has been left behind.                                       *)

\* Whoever bound the socket that has the name is on its way to the loop, in it,
\* or has failed or was killed.
BoundByLiving ==
    \A p \in Procs :
        path = p => pc[p] \in {"setsockopt", "listen", "fork", "failed", "crashed"}
                             \cup Running

LEMMA BoundByLivingStep == TypeOK /\ BoundByLiving /\ [Next]_vars => BoundByLiving'
<1>. SUFFICES ASSUME TypeOK, BoundByLiving, [Next]_vars
              PROVE  BoundByLiving'
  OBVIOUS
<1>. USE SocketLifeAssumption
     DEF BoundByLiving, Starting, Running, Goto, UnlinkOrFail, SucceedOrCleanup, Cleanup
<1>0. pc \in [Procs -> {"idle", "leaving"} \cup Starting \cup Running \cup Ended]
  BY DEF TypeOK
<1>1. ASSUME NEW p \in Procs, Start(p) \/ Lstat(p) \/ UnlinkLink(p) \/ Access(p)
      PROVE  BoundByLiving'
  BY <1>0, <1>1 DEF Start, Lstat, UnlinkLink, Access
<1>2. ASSUME NEW p \in Procs, Connect(p) \/ ConnectFails(p) \/ SendPing(p) \/ Pong(p)
                              \/ PingEof(p)
      PROVE  BoundByLiving'
  <2>1. pc[p] \in {"connect", "send", "recv"} /\ UNCHANGED path
    BY <1>2 DEF Connect, ConnectFails, SendPing, Pong, PingEof
  <2>2. \E there : Goto(p, there)
    BY <1>2 DEF Connect, ConnectFails, SendPing, Pong, PingEof
  <2>. QED
    BY <1>0, <2>1, <2>2
<1>3. ASSUME NEW p \in Procs, UnlinkStale(p) \/ Bind(p) \/ SetSockOpt(p)
      PROVE  BoundByLiving'
  BY <1>0, <1>3 DEF UnlinkStale, Bind, SetSockOpt
<1>4. ASSUME NEW p \in Procs, Listen(p) \/ Fork(p) \/ EnterLoop(p)
      PROVE  BoundByLiving'
  BY <1>0, <1>4 DEF Listen, Fork, EnterLoop
<1>5. ASSUME NEW p \in Procs, Leave(p) \/ Exit(p) \/ Crash(p)
      PROVE  BoundByLiving'
  BY <1>0, <1>5 DEF Leave, Exit, Crash
<1>6. ASSUME NEW p \in Procs, RunCommand(p) \/ CommandEnds(p) \/ CommandSignalled(p)
      PROVE  BoundByLiving'
  BY <1>0, <1>6 DEF RunCommand, CommandEnds, CommandSignalled
<1>7. CASE UNCHANGED vars
  BY <1>7 DEF vars
<1>. QED
  BY <1>1, <1>2, <1>3, <1>4, <1>5, <1>6, <1>7 DEF Next, Main, CreateSocket

\* Only a start that failed or a daemon that was killed leaves its socket behind:
\* one that was refused or stopped does not (kdesud.cpp:161-164).
THEOREM StaleOnlyAfterCrashHolds == Spec => []StaleOnlyAfterCrash
<1>1. Init => BoundByLiving
  BY SocketLifeAssumption DEF Init, BoundByLiving
<1>2. BoundByLiving => StaleOnlyAfterCrash
  BY DEF BoundByLiving, StaleOnlyAfterCrash, Running
<1>. QED
  BY <1>1, <1>2, StartTypeCorrect, BoundByLivingStep, PTL DEF Spec

-----------------------------------------------------------------------------
(* The daemon is reached by the name.                                        *)

Binding == {"setsockopt", "listen", "fork"}
Clearing == {"unlinkLink", "unlink", "bind"} \cup Binding

\* Starts are one after the other.
OneStart ==
    \A p, q \in Procs : pc[p] \in Starting /\ pc[q] \in Starting => p = q

\* A start that unlinks or binds has found that no daemon runs.
ClearsForNobody ==
    \A p, q \in Procs : pc[p] \in Clearing => pc[q] \notin Running

\* Nobody binds the name while a start pings who had it.
PingsName ==
    \A p \in Procs : pc[p] \in {"send", "recv"} => path \in {target[p], NoFile}

\* What a start has bound stays.
KeepsName == \A p \in Procs : pc[p] \in Binding => path = p

Undisturbed ==
    ~disturbed => /\ OneStart
                  /\ ClearsForNobody
                  /\ PingsName
                  /\ KeepsName
                  /\ \A p \in Procs : pc[p] \in Running => path = p

LEMMA UndisturbedStep == TypeOK /\ Undisturbed /\ [Next]_vars => Undisturbed'
<1>. SUFFICES ASSUME TypeOK, Undisturbed, [Next]_vars, ~disturbed'
              PROVE  Undisturbed'
  BY DEF Undisturbed
<1>0. /\ pc \in [Procs -> {"idle", "leaving"} \cup Starting \cup Running \cup Ended]
      /\ target \in [Procs -> Procs \cup {None}]
      /\ \A p \in Procs : target[p] /= None <=> pc[p] \in {"send", "recv"}
  BY DEF TypeOK
<1>u. ~disturbed
  BY DEF Next, Main, CreateSocket, Start, Lstat, UnlinkLink, UnlinkOrFail, Access,
         Connect, ConnectFails, SendPing, Pong, PingEof, UnlinkStale, Bind, SetSockOpt,
         Listen, Fork, SucceedOrCleanup, EnterLoop, Leave, Exit, Crash, RunCommand,
         CommandEnds, CommandSignalled, vars, TypeOK
<1>. USE SocketLifeAssumption, <1>0, <1>u
     DEF Undisturbed, OneStart, ClearsForNobody, PingsName, KeepsName, Binding, Clearing,
         Starting, Running, Goto, UnlinkOrFail, SucceedOrCleanup, Cleanup
<1>1. ASSUME NEW p \in Procs, Start(p)
      PROVE  Undisturbed'
  BY <1>1 DEF Start
<1>2. ASSUME NEW p \in Procs, Lstat(p)
      PROVE  Undisturbed'
  BY <1>2 DEF Lstat
<1>3. ASSUME NEW p \in Procs, UnlinkLink(p)
      PROVE  Undisturbed'
  BY <1>3 DEF UnlinkLink
<1>4. ASSUME NEW p \in Procs, Access(p)
      PROVE  Undisturbed'
  BY <1>4 DEF Access
<1>5. ASSUME NEW p \in Procs, Connect(p)
      PROVE  Undisturbed'
  <2>1. CASE path \in Procs /\ Holds(path)
    BY <1>5, <2>1 DEF Connect
  <2>2. CASE ~(path \in Procs /\ Holds(path))
    <3>1. \A q \in Procs : pc[q] \notin Running
      BY <2>2 DEF Holds
    <3>. QED
      BY <1>5, <2>2, <3>1 DEF Connect
  <2>. QED
    BY <2>1, <2>2
<1>6. ASSUME NEW p \in Procs, ConnectFails(p)
      PROVE  Undisturbed'
  BY <1>6 DEF ConnectFails
<1>7. ASSUME NEW p \in Procs, SendPing(p)
      PROVE  Undisturbed'
  BY <1>7 DEF SendPing
<1>8. ASSUME NEW p \in Procs, Pong(p)
      PROVE  Undisturbed'
  BY <1>8 DEF Pong
<1>9. ASSUME NEW p \in Procs, PingEof(p)
      PROVE  Undisturbed'
  <2>1. \A q \in Procs : pc[q] \notin Running
    BY <1>9 DEF PingEof, Holds
  <2>. QED
    BY <1>9, <2>1 DEF PingEof
<1>10. ASSUME NEW p \in Procs, UnlinkStale(p)
       PROVE  Undisturbed'
  BY <1>10 DEF UnlinkStale
<1>11. ASSUME NEW p \in Procs, Bind(p)
       PROVE  Undisturbed'
  BY <1>11 DEF Bind
<1>12. ASSUME NEW p \in Procs, SetSockOpt(p)
       PROVE  Undisturbed'
  BY <1>12 DEF SetSockOpt
<1>13. ASSUME NEW p \in Procs, Listen(p)
       PROVE  Undisturbed'
  BY <1>13 DEF Listen
<1>14. ASSUME NEW p \in Procs, Fork(p)
       PROVE  Undisturbed'
  BY <1>14 DEF Fork
<1>15. ASSUME NEW p \in Procs, EnterLoop(p)
       PROVE  Undisturbed'
  BY <1>15 DEF EnterLoop
<1>16. ASSUME NEW p \in Procs, Leave(p)
       PROVE  Undisturbed'
  BY <1>16 DEF Leave
<1>17. ASSUME NEW p \in Procs, Exit(p)
       PROVE  Undisturbed'
  BY <1>17 DEF Exit
<1>18. ASSUME NEW p \in Procs, Crash(p)
       PROVE  Undisturbed'
  BY <1>18 DEF Crash
<1>19. ASSUME NEW p \in Procs, RunCommand(p) \/ CommandEnds(p)
       PROVE  Undisturbed'
  BY <1>19 DEF RunCommand, CommandEnds
<1>20. ASSUME NEW p \in Procs, CommandSignalled(p)
       PROVE  Undisturbed'
  BY <1>20 DEF CommandSignalled
<1>21. CASE UNCHANGED vars
  BY <1>21 DEF vars
<1>. QED
  BY <1>1, <1>2, <1>3, <1>4, <1>5, <1>6, <1>7, <1>8, <1>9, <1>10, <1>11, <1>12, <1>13,
     <1>14, <1>15, <1>16, <1>17, <1>18, <1>19, <1>20, <1>21
     DEF Next, Main, CreateSocket

\* Starts one after the other, whatever fails or is killed between, keep the daemon
\* reachable: from the exit of its parent on it is the one its clients find by the
\* name (kdesud.cpp:247-293, 398-407).
THEOREM ServerReachableHolds == Spec => []ServerReachable
<1>1. Init => Undisturbed
  BY DEF Init, Undisturbed, OneStart, ClearsForNobody, PingsName, KeepsName,
         Binding, Clearing, Starting, Running
<1>2. Undisturbed => ServerReachable
  BY DEF Undisturbed, ServerReachable
<1>. QED
  BY <1>1, <1>2, StartTypeCorrect, UndisturbedStep, PTL DEF Spec
===============================================================================
