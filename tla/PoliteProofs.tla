---------------------------- MODULE PoliteProofs ----------------------------
(***************************************************************************)
(* Proofs about HylChan with clients that wait for the response to each    *)
(* request (Pipelining = FALSE), for every number of connections,          *)
(* descriptors and requests, every queue capacity and every limit.         *)
(*                                                                         *)
(* A connection in the map has one token: its descriptor is armed, or a    *)
(* data event of it is in channelList, or one task has it.                 *)
(***************************************************************************)
EXTENDS HylChanProofs

Local(c) == local # None /\ local.conn = c
Runs(c) == running # None /\ running.conn = c /\ step # "release"

(* A task has the token; it has given it back once it has re-armed.        *)
Active(c) == Local(c) \/ Queued(c) \/ Runs(c)

SoleTask ==
  /\ \A i, j \in DOMAIN taskQueue_ : taskQueue_[i].conn = taskQueue_[j].conn => i = j
  /\ \A c \in Conn : /\ Local(c) => ~Queued(c) /\ ~Runs(c)
                     /\ Queued(c) => ~Runs(c)

(* The descriptor will not be reported with data, although the first       *)
(* registration can still report a hang-up.                                *)
Silent(f) == armed[f] => ~oneshot[f] /\ peer[conn_manager_[f]] # "up"

TokenInv ==
  \A f \in Fd : conn_manager_[f] # None =>
    /\ DataEvent(f) => ~Active(conn_manager_[f])
    /\ DataEvent(f) \/ Active(conn_manager_[f]) =>
         /\ Silent(f)
         /\ ~oneshot[f] => awaits[conn_manager_[f]]

GoneEvent(f) == batch[f] \cap {"ERR", "HUP", "RDHUP"} # {}

(* What is left of connections that are no longer in the map: no data      *)
(* events, and no hang-ups that could hit a connection with a task.        *)
StaleInv ==
  \A f \in Fd :
    /\ DataEvent(f) => conn_manager_[f] # None
    /\ fdTable[f] # None /\ conn_manager_[f] = None =>
         \/ peer[fdTable[f]] # "up"
         \/ /\ ~armed[f] /\ oneshot[f]
            /\ running # None /\ running.conn = fdTable[f] /\ step = "release"
            /\ state_[fdTable[f]] # "kStart"
    /\ GoneEvent(f) /\ conn_manager_[f] # None /\ peer[conn_manager_[f]] = "up" =>
         ~Carried(conn_manager_[f])

(* As long as the registration is the first, data means that the client    *)
(* waits.                                                                  *)
FirstInv ==
  /\ \A c \in Conn : phase[c] \in {"new", "backlog"} /\ rx[c] > 0 => awaits[c]
  /\ \A f \in Fd : fdTable[f] # None /\ ~oneshot[f] =>
       /\ interest[f] # None => interest[f] = "IN"
       /\ rx[fdTable[f]] > 0 => awaits[fdTable[f]]

(* A read finds something to read, and a write comes after it.             *)
Fits(op, c) == IF op = "read" THEN rx[c] > 0 ELSE oneshot[fd_[c]]

OpInv ==
  /\ \A f \in Fd : DataEvent(f) =>
       Fits(IF "IN" \in batch[f] THEN "read" ELSE "write", conn_manager_[f])
  /\ local # None => Fits(local.op, local.conn)
  /\ \A i \in DOMAIN taskQueue_ : Fits(taskQueue_[i].op, taskQueue_[i].conn)
  /\ running # None /\ (step = "start" \/ running.op = "write") => Fits(running.op, running.conn)
  /\ step \in {"body", "rearmIn", "shutdown", "erase", "erasing"} => running.op = "write"

(* A connection that was shut down is on its way out of the map.           *)
Leaving(c) ==
  /\ running # None /\ running.conn = c /\ step \in {"erase", "erasing", "release"}
  /\ ~Local(c) /\ ~Queued(c)
  /\ step = "release" => ~Registered(c)

CloseInv ==
  /\ \A c \in Conn : Held(c) /\ state_[c] # "kStart" => Leaving(c)
  /\ step \in {"erase", "erasing"} => state_[running.conn] # "kStart"

(* The parser never waits in kGotAll, and no assertion has failed.         *)
ParserInv ==
  /\ \A c \in Conn : ctx[c] = "kExpectRequestLine"
  /\ step # "spin"
  /\ halted # "assert"

Polite ==
  /\ SoleTask
  /\ TokenInv
  /\ StaleInv
  /\ FirstInv
  /\ OpInv
  /\ CloseInv
  /\ ParserInv

PoliteInv == OwnInv /\ Polite

-----------------------------------------------------------------------------
(* What the invariants say of who has which descriptor, in one place.      *)

LEMMA Owners ==
  ASSUME OwnInv
  PROVE  /\ \A f \in Fd : conn_manager_[f] # None =>
              /\ conn_manager_[f] \in Conn
              /\ fdTable[f] = conn_manager_[f]
         /\ \A f \in Fd : fdTable[f] # None =>
              /\ fdTable[f] \in Conn
              /\ fd_[fdTable[f]] = f
              /\ Held(fdTable[f])
              /\ phase[fdTable[f]] = "accepted"
         /\ \A c \in Conn : Held(c) =>
              /\ fd_[c] \in Fd
              /\ fdTable[fd_[c]] = c
         /\ \A c \in Conn : Active(c) => Held(c)
         /\ local # None => local \in Task /\ local.conn \in Conn /\ Local(local.conn)
         /\ running # None => running \in Task /\ running.conn \in Conn
         /\ \A i \in DOMAIN taskQueue_ :
              /\ taskQueue_[i] \in Task
              /\ taskQueue_[i].conn \in Conn
              /\ Queued(taskQueue_[i].conn)
<1> USE EpollNekoAssumption, HylChanAssumption DEF OwnInv, TypeInv, TypeOK, KernelTypeOK
<1>1. \A f \in Fd : conn_manager_[f] # None =>
        /\ conn_manager_[f] \in Conn
        /\ fdTable[f] = conn_manager_[f]
  BY DEF DescriptorOwnership
<1>2. \A f \in Fd : fdTable[f] # None =>
        /\ fdTable[f] \in Conn
        /\ fd_[fdTable[f]] = f
        /\ Held(fdTable[f])
        /\ phase[fdTable[f]] = "accepted"
  BY DEF DescriptorOwnership, OpenAccepted
<1>3. \A c \in Conn : Held(c) => fd_[c] \in Fd /\ fdTable[fd_[c]] = c
  BY DEF DescriptorOwnership
<1>4. \A c \in Conn : Active(c) => Held(c)
  BY DEF Active, Local, Runs, Held, Carried
<1>5. local # None => local \in Task /\ local.conn \in Conn /\ Local(local.conn)
  BY DEF Task, Local
<1>6. running # None => running \in Task /\ running.conn \in Conn
  BY DEF Task
<1>7. \A i \in DOMAIN taskQueue_ :
        /\ taskQueue_[i] \in Task
        /\ taskQueue_[i].conn \in Conn
        /\ Queued(taskQueue_[i].conn)
  <2> SUFFICES ASSUME NEW i \in DOMAIN taskQueue_
               PROVE  taskQueue_[i] \in Task /\ Queued(taskQueue_[i].conn)
    BY DEF Task
  <2>1. taskQueue_[i] \in Task
    OBVIOUS
  <2> QED
    BY <2>1 DEF Queued
<1> QED
  BY <1>1, <1>2, <1>3, <1>4, <1>5, <1>6, <1>7

LEMMA PoliteInit == Init => PoliteInv
BY OwnInit, EpollNekoAssumption, HylChanAssumption
   DEF Init, KernelInit, PoliteInv, Polite, SoleTask, TokenInv, StaleInv, FirstInv, OpInv, CloseInv,
       ParserInv, Local, Runs, Active, Queued, Held, Registered, Carried, DataEvent, GoneEvent,
       Fits, Silent, Source

(* The steps that the invariant excludes.                                  *)
LEMMA NeverMissing ==
  ASSUME PoliteInv, NEW f \in Fd
  PROVE  ~HandleMissing(f)
BY DEF PoliteInv, Polite, HandleMissing, StaleInv

LEMMA NeverTaken ==
  ASSUME PoliteInv, NEW c \in Conn
  PROVE  /\ ~AssertFails(c)
         /\ ~ReadSpins(c)
         /\ \A malformed \in BOOLEAN : ~ReadNothing(c, malformed)
<1> USE DEF PoliteInv, Polite
<1>1. ~AssertFails(c)
  BY Owners DEF AssertFails, CloseInv, Leaving, OwnInv, TypeInv, Busy, Held, Carried
<1>2. ~ReadSpins(c)
  BY DEF ReadSpins, ParserInv
<1>3. \A malformed \in BOOLEAN : ~ReadNothing(c, malformed)
  BY DEF ReadNothing, At, OpInv, Fits, OwnInv, TypeInv, Busy, TypeOK, KernelTypeOK
<1> QED
  BY <1>1, <1>2, <1>3

-----------------------------------------------------------------------------
(* The workers.                                                            *)

(* A step inside a task: no pointer changes hands, and the task keeps the  *)
(* token.                                                                  *)
LEMMA Inside ==
  ASSUME PoliteInv, running # None, step # "release",
         UNCHANGED <<batch, local, taskQueue_, running, conn_manager_, fdTable, phase,
                     armed, oneshot, interest, peer, fd_, state_, ctx, halted>>,
         \/ rx' = rx
         \/ rx' = [rx EXCEPT ![running.conn] = 0],
         \/ awaits' = awaits
         \/ awaits' = [awaits EXCEPT ![running.conn] = FALSE] /\ running.op = "write",
         step' \in {"body", "rearmIn", "rearmOut", "shutdown", "erasing"},
         step' # "rearmOut" => running.op = "write",
         step # "erasing",
         step' = "erasing" <=> step = "erase"
  PROVE  Polite'
<1> USE DEF PoliteInv, Polite
<1>1. PICK c \in Conn : c = running.conn
  BY Owners
<1>2. Runs(c) /\ Active(c) /\ ~Local(c) /\ ~Queued(c)
  BY <1>1 DEF Runs, Active, SoleTask
<1>3. \A d \in Conn :
        /\ Active(d)' <=> Active(d)
        /\ Local(d)' <=> Local(d)
        /\ Queued(d)' <=> Queued(d)
        /\ Runs(d)' <=> Runs(d)
        /\ Carried(d)' <=> Carried(d)
        /\ Registered(d)' <=> Registered(d)
  BY DEF Active, Local, Queued, Runs, Carried, Registered
<1>4. running.op = "write" => oneshot[fd_[c]]
  BY <1>1 DEF OpInv, Fits
<1>5. /\ rx \in [Conn -> Nat]
      /\ awaits \in [Conn -> BOOLEAN]
  BY DEF OwnInv, TypeInv, TypeOK, KernelTypeOK
<1>6. \A d \in Conn : d # c => rx'[d] = rx[d] /\ awaits'[d] = awaits[d]
  BY <1>1, <1>5
<1>7. rx'[c] \in {rx[c], 0} /\ (awaits'[c] = awaits[c] \/ oneshot[fd_[c]])
  BY <1>1, <1>4, <1>5
<1>8. SoleTask'
  BY <1>3 DEF SoleTask
<1>9. TokenInv'
  BY <1>2, <1>3, <1>6, <1>7, Owners DEF TokenInv, DataEvent, Silent
<1>10. StaleInv'
  <2> SUFFICES ASSUME NEW f \in Fd
               PROVE  /\ DataEvent(f)' => conn_manager_[f] # None
                      /\ fdTable[f] # None /\ conn_manager_[f] = None => peer[fdTable[f]] # "up"
                      /\ /\ GoneEvent(f)'
                         /\ conn_manager_[f] # None
                         /\ peer[conn_manager_[f]] = "up"
                         => ~Carried(conn_manager_[f])'
    BY DEF StaleInv
  <2>1. DataEvent(f)' <=> DataEvent(f)
    BY DEF DataEvent
  <2>2. GoneEvent(f)' <=> GoneEvent(f)
    BY DEF GoneEvent
  <2> QED
    BY <1>3, <2>1, <2>2, Owners DEF StaleInv
<1>11. FirstInv'
  <2>1. phase[c] = "accepted"
    BY <1>2, Owners, EpollNekoAssumption
  <2>2. ASSUME NEW d \in Conn, phase[d] \in {"new", "backlog"}, rx'[d] > 0
        PROVE  awaits'[d]
    BY <1>6, <2>1, <2>2 DEF FirstInv
  <2>3. ASSUME NEW f \in Fd, fdTable[f] # None, ~oneshot[f]
        PROVE  /\ interest[f] # None => interest[f] = "IN"
              /\ (rx'[fdTable[f]] > 0 => awaits'[fdTable[f]])
    BY <1>6, <1>7, <2>3, Owners DEF FirstInv
  <2> QED
    BY <2>2, <2>3 DEF FirstInv
<1>12. OpInv'
  <2>1. ASSUME NEW f \in Fd, DataEvent(f)'
        PROVE  Fits(IF "IN" \in batch[f] THEN "read" ELSE "write", conn_manager_[f])'
    <3>1. DataEvent(f) /\ conn_manager_[f] \in Conn /\ conn_manager_[f] # c
      BY <1>2, <2>1, Owners DEF DataEvent, StaleInv, TokenInv
    <3>2. Fits(IF "IN" \in batch[f] THEN "read" ELSE "write", conn_manager_[f])
      BY <3>1 DEF OpInv
    <3> QED
      BY <1>6, <3>1, <3>2 DEF Fits
  <2>2. local' # None => Fits(local.op, local.conn)'
    BY <1>2, <1>6, Owners DEF OpInv, Fits
  <2>3. ASSUME NEW i \in DOMAIN taskQueue_
        PROVE  Fits(taskQueue_[i].op, taskQueue_[i].conn)'
    BY <1>2, <1>6, Owners DEF OpInv, Fits
  <2>4. running' # None /\ (step' = "start" \/ running'.op = "write")
          => Fits(running.op, running.conn)'
    BY <1>1, <1>4 DEF Fits
  <2> QED
    BY <2>1, <2>2, <2>3, <2>4 DEF OpInv
<1>13. CloseInv'
  <2>1. ASSUME NEW d \in Conn, Held(d)', state_[d] # "kStart"
        PROVE  Leaving(d)'
    <3>1. Held(d) /\ Leaving(d)
      BY <1>3, <2>1 DEF Held, CloseInv
    <3> QED
      BY <1>3, <3>1 DEF Leaving
  <2>2. step' = "erasing" => state_[running.conn] # "kStart"
    BY DEF CloseInv
  <2> QED
    BY <2>1, <2>2 DEF CloseInv
<1>14. ParserInv'
  BY DEF ParserInv
<1> QED
  BY <1>8, <1>9, <1>10, <1>11, <1>12, <1>13, <1>14

(* What a task that runs knows of its connection.                          *)
LEMMA Running ==
  ASSUME PoliteInv, step # "idle", step # "release"
  PROVE  /\ running \in Task
         /\ running # None
         /\ running.conn \in Conn
         /\ Runs(running.conn)
         /\ Active(running.conn)
         /\ Held(running.conn)
         /\ ~Local(running.conn)
         /\ ~Queued(running.conn)
         /\ fd_[running.conn] \in Fd
         /\ fdTable[fd_[running.conn]] = running.conn
         /\ \A f \in Fd : fdTable[f] = running.conn => f = fd_[running.conn]
         /\ phase[running.conn] = "accepted"
         /\ ~DataEvent(fd_[running.conn])
         /\ step # "start" /\ running.op = "write" => oneshot[fd_[running.conn]]
<1> USE DEF PoliteInv, Polite
<1>1. running # None
  BY DEF OwnInv, TypeInv, Busy
<1>2. running \in Task /\ running.conn \in Conn
  BY <1>1, Owners
<1>3. Runs(running.conn) /\ Active(running.conn)
  BY <1>1 DEF Runs, Active
<1>4. ~Local(running.conn) /\ ~Queued(running.conn)
  BY <1>2, <1>3 DEF SoleTask
<1>5. Held(running.conn)
  BY <1>2, <1>3, Owners
<1>6. /\ fd_[running.conn] \in Fd
      /\ fdTable[fd_[running.conn]] = running.conn
  BY <1>2, <1>5, Owners
<1>7. /\ \A f \in Fd : fdTable[f] = running.conn => f = fd_[running.conn]
      /\ phase[running.conn] = "accepted"
  BY <1>2, <1>6, Owners, EpollNekoAssumption
<1>8. ~DataEvent(fd_[running.conn])
  BY <1>2, <1>3, <1>6, Owners DEF TokenInv, StaleInv
<1>9. running.op = "write" => oneshot[fd_[running.conn]]
  BY <1>1 DEF OpInv, Fits
<1> QED
  BY <1>1, <1>2, <1>3, <1>4, <1>5, <1>6, <1>7, <1>8, <1>9

LEMMA InsideRead ==
  ASSUME PoliteInv, NEW c \in Conn, NEW kind \in Kind, NEW close \in BOOLEAN,
         ReadRequest(c, kind, close)
  PROVE  Polite'
<1>1. /\ step = "start"
      /\ running.conn = c
      /\ UNCHANGED <<batch, local, taskQueue_, running, conn_manager_, fdTable, phase,
                     armed, oneshot, interest, peer, fd_, state_, halted, awaits>>
      /\ rx' = [rx EXCEPT ![running.conn] = 0]
      /\ ctx' = [ctx EXCEPT ![c] = "kExpectRequestLine"]
      /\ step' = "rearmOut"
  BY DEF ReadRequest, At, Reset, reactorVars, poolVars
<1>2. UNCHANGED ctx
  BY <1>1 DEF PoliteInv, Polite, ParserInv, OwnInv, TypeInv, TypeOK
<1> QED
  BY <1>1, <1>2, Inside, Running

LEMMA InsideWrite ==
  ASSUME PoliteInv, NEW c \in Conn,
         \/ WriteHead(c) \/ WriteHeadStops(c)
         \/ WriteEmptyBody(c) \/ WriteFile(c) \/ WriteFileStops(c)
  PROVE  Polite'
<1>1. /\ step \in {"start", "body"}
      /\ running.conn = c
      /\ running.op = "write"
      /\ step' \in {"body", "rearmIn", "rearmOut", "shutdown"}
  BY DEF WriteHead, WriteHeadStops, WriteEmptyBody, WriteFile, WriteFileStops,
         At, Retry, AfterResponse
<1>2. UNCHANGED <<batch, local, taskQueue_, running, conn_manager_, fdTable, phase,
                  armed, oneshot, interest, peer, fd_, state_, ctx, halted, rx>>
  BY DEF WriteHead, WriteHeadStops, WriteEmptyBody, WriteFile, WriteFileStops,
         reactorVars, poolVars, connVars
<1>3. awaits' = awaits \/ awaits' = [awaits EXCEPT ![running.conn] = FALSE]
  BY DEF WriteHead, WriteHeadStops, WriteEmptyBody, WriteFile, WriteFileStops, At
<1> QED
  BY <1>1, <1>2, <1>3, Inside, Running

LEMMA InsideErase ==
  ASSUME PoliteInv, EraseBegins
  PROVE  Polite'
<1>1. /\ step = "erase"
      /\ step' = "erasing"
      /\ UNCHANGED <<batch, local, taskQueue_, running, conn_manager_, fdTable, phase,
                     armed, oneshot, interest, peer, fd_, state_, ctx, halted, rx, awaits>>
  BY DEF EraseBegins, kernelVars, reactorVars, poolVars, connVars
<1>2. running.op = "write"
  BY <1>1 DEF PoliteInv, Polite, OpInv
<1> QED
  BY <1>1, <1>2, Inside, Running

(* processWrite returns without re-arming: the token is gone.              *)
LEMMA NoBodyPolite ==
  ASSUME PoliteInv, NEW c \in Conn, WriteNoBody(c)
  PROVE  Polite'
<1> USE DEF PoliteInv, Polite
<1>1. /\ step = "body"
      /\ running.op = "write"
      /\ running.conn = c
      /\ awaits' = [awaits EXCEPT ![c] = FALSE]
      /\ step' = "release"
      /\ UNCHANGED <<batch, local, taskQueue_, running, conn_manager_, fdTable, phase,
                     armed, oneshot, interest, peer, fd_, state_, ctx, halted, rx>>
  BY DEF WriteNoBody, At, reactorVars, poolVars, connVars
<1>2. /\ ~Local(c) /\ ~Queued(c)
      /\ phase[c] = "accepted"
      /\ \A f \in Fd : fdTable[f] = c => f = fd_[c]
      /\ ~DataEvent(fd_[c])
      /\ oneshot[fd_[c]]
      /\ fd_[c] \in Fd
      /\ fdTable[fd_[c]] = c
  BY <1>1, Running
<1>3. \A d \in Conn : d # c => awaits'[d] = awaits[d]
  BY <1>1 DEF OwnInv, TypeInv, TypeOK, KernelTypeOK
<1>4. \A d \in Conn :
        /\ Local(d)' <=> Local(d)
        /\ Queued(d)' <=> Queued(d)
        /\ ~Runs(d)'
        /\ Active(d)' => Active(d) /\ d # c
        /\ Carried(d)' <=> Carried(d)
        /\ Registered(d)' <=> Registered(d)
  BY <1>1, <1>2 DEF Active, Local, Queued, Runs, Carried, Registered
<1>5. \A f \in Fd :
        /\ DataEvent(f)' <=> DataEvent(f)
        /\ GoneEvent(f)' <=> GoneEvent(f)
  BY <1>1 DEF DataEvent, GoneEvent
<1>6. SoleTask'
  BY <1>1, <1>4 DEF SoleTask
<1>7. TokenInv'
  <2> SUFFICES ASSUME NEW f \in Fd, conn_manager_[f] # None
               PROVE  /\ DataEvent(f)' => ~Active(conn_manager_[f])'
                      /\ DataEvent(f)' \/ Active(conn_manager_[f])' =>
                           /\ armed[f] => ~oneshot[f] /\ peer[conn_manager_[f]] # "up"
                           /\ ~oneshot[f] => awaits'[conn_manager_[f]]
    BY <1>1 DEF TokenInv, Silent
  <2>1. conn_manager_[f] \in Conn /\ fdTable[f] = conn_manager_[f]
    BY Owners
  <2> QED
    <3>1. CASE conn_manager_[f] = c
      BY <1>1, <1>2, <1>4, <1>5, <2>1, <3>1
    <3>2. CASE conn_manager_[f] # c
      BY <1>1, <1>3, <1>4, <1>5, <2>1, <3>2 DEF TokenInv, Silent
    <3> QED
      BY <3>1, <3>2
<1>8. StaleInv'
  <2> SUFFICES ASSUME NEW f \in Fd
               PROVE  /\ DataEvent(f)' => conn_manager_[f] # None
                      /\ fdTable[f] # None /\ conn_manager_[f] = None => peer[fdTable[f]] # "up"
                      /\ /\ GoneEvent(f)'
                         /\ conn_manager_[f] # None
                         /\ peer[conn_manager_[f]] = "up"
                         => ~Carried(conn_manager_[f])'
    BY <1>1 DEF StaleInv
  <2> QED
    BY <1>1, <1>4, <1>5, Owners DEF StaleInv
<1>9. FirstInv'
  <2>1. ASSUME NEW d \in Conn, phase[d] \in {"new", "backlog"}, rx[d] > 0
        PROVE  awaits'[d]
    BY <1>2, <1>3, <2>1 DEF FirstInv
  <2>2. ASSUME NEW f \in Fd, fdTable[f] # None, ~oneshot[f]
        PROVE  /\ interest[f] # None => interest[f] = "IN"
              /\ (rx[fdTable[f]] > 0 => awaits'[fdTable[f]])
    BY <1>2, <1>3, <2>2, Owners DEF FirstInv
  <2> QED
    BY <1>1, <2>1, <2>2 DEF FirstInv
<1>10. OpInv'
  <2>1. \A f \in Fd : DataEvent(f)' =>
          Fits(IF "IN" \in batch[f] THEN "read" ELSE "write", conn_manager_[f])'
    BY <1>1, <1>5 DEF OpInv, Fits
  <2>2. local' # None => Fits(local.op, local.conn)'
    BY <1>1 DEF OpInv, Fits
  <2>3. \A i \in DOMAIN taskQueue_' : Fits(taskQueue_[i].op, taskQueue_[i].conn)'
    BY <1>1 DEF OpInv, Fits
  <2>4. running' # None /\ (step' = "start" \/ running'.op = "write")
          => Fits(running.op, running.conn)'
    BY <1>1, <1>2 DEF Fits
  <2> QED
    BY <1>1, <2>1, <2>2, <2>3, <2>4 DEF OpInv
<1>11. CloseInv'
  <2>1. ASSUME NEW d \in Conn, Held(d)'
        PROVE  state_[d] = "kStart"
    <3>1. Held(d)
      BY <1>4, <2>1 DEF Held
    <3> QED
      BY <1>1, <3>1 DEF CloseInv, Leaving
  <2> QED
    BY <1>1, <2>1 DEF CloseInv
<1>12. ParserInv'
  BY <1>1 DEF ParserInv
<1> QED
  BY <1>6, <1>7, <1>8, <1>9, <1>10, <1>11, <1>12

(* shutdownWrite: the registration is EPOLLONESHOT by now, so that the     *)
(* edge does not arm it.                                                   *)
LEMMA ShutdownPolite ==
  ASSUME PoliteInv, NEW c \in Conn, ShutdownWrite(c)
  PROVE  Polite'
<1> USE DEF PoliteInv, Polite
<1>1. /\ step = "shutdown"
      /\ running.op = "write"
      /\ running.conn = c
      /\ Edge(c)
      /\ state_' = [state_ EXCEPT ![c] = "kClose"]
      /\ step' = "erase"
      /\ UNCHANGED <<batch, local, taskQueue_, running, conn_manager_, fdTable, phase,
                     oneshot, interest, peer, fd_, ctx, halted, rx, awaits>>
  BY DEF ShutdownWrite, At, reactorVars, poolVars
<1>2. /\ running # None
      /\ ~Local(c) /\ ~Queued(c)
      /\ \A f \in Fd : fdTable[f] = c => f = fd_[c]
      /\ oneshot[fd_[c]]
  BY <1>1, Running
<1>3. UNCHANGED armed
  BY <1>1, <1>2 DEF Edge, OwnInv, TypeInv, TypeOK, KernelTypeOK
<1>4. \A d \in Conn :
        /\ Local(d)' <=> Local(d)
        /\ Queued(d)' <=> Queued(d)
        /\ Runs(d)' <=> Runs(d)
        /\ Active(d)' <=> Active(d)
        /\ Carried(d)' <=> Carried(d)
        /\ Registered(d)' <=> Registered(d)
  BY <1>1 DEF Active, Local, Queued, Runs, Carried, Registered
<1>5. \A f \in Fd :
        /\ DataEvent(f)' <=> DataEvent(f)
        /\ GoneEvent(f)' <=> GoneEvent(f)
  BY <1>1 DEF DataEvent, GoneEvent
<1>6. SoleTask'
  BY <1>1, <1>4 DEF SoleTask
<1>7. TokenInv'
  BY <1>1, <1>3, <1>4, <1>5, Owners DEF TokenInv, Silent
<1>8. StaleInv'
  <2> SUFFICES ASSUME NEW f \in Fd
               PROVE  /\ DataEvent(f)' => conn_manager_[f] # None
                      /\ fdTable[f] # None /\ conn_manager_[f] = None => peer[fdTable[f]] # "up"
                      /\ /\ GoneEvent(f)'
                         /\ conn_manager_[f] # None
                         /\ peer[conn_manager_[f]] = "up"
                         => ~Carried(conn_manager_[f])'
    BY <1>1 DEF StaleInv
  <2> QED
    BY <1>1, <1>4, <1>5, Owners DEF StaleInv
<1>9. FirstInv'
  BY <1>1 DEF FirstInv
<1>10. OpInv'
  BY <1>1, <1>5 DEF OpInv, Fits
<1>11. CloseInv'
  <2>1. ASSUME NEW d \in Conn, Held(d)', state_'[d] # "kStart"
        PROVE  d = c
    <3>1. Held(d)
      BY <1>4, <2>1 DEF Held
    <3> QED
      BY <1>1, <2>1, <3>1 DEF CloseInv, Leaving, OwnInv, TypeInv, TypeOK
  <2>2. Leaving(c)'
    BY <1>1, <1>2, <1>4 DEF Leaving
  <2>3. state_'[running'.conn] # "kStart"
    BY <1>1 DEF OwnInv, TypeInv, TypeOK
  <2> QED
    BY <2>1, <2>2, <2>3 DEF CloseInv
<1>12. ParserInv'
  BY <1>1 DEF ParserInv
<1> QED
  BY <1>6, <1>7, <1>8, <1>9, <1>10, <1>11, <1>12

(* Re-arming gives the token to the descriptor.                            *)
LEMMA RearmPolite ==
  ASSUME PoliteInv, NEW mask \in {"IN", "OUT"}, Rearm(mask)
  PROVE  Polite'
<1> USE DEF PoliteInv, Polite
<1>1. /\ step \in {"rearmIn", "rearmOut"}
      /\ ModifySocket(fd_[running.conn], mask)
      /\ step' = "release"
      /\ UNCHANGED <<batch, local, taskQueue_, running, conn_manager_, fdTable, phase,
                     peer, fd_, state_, ctx, halted, rx, awaits>>
  BY DEF Rearm, reactorVars, poolVars, connVars
<1>2. PICK c \in Conn, e \in Fd : c = running.conn /\ e = fd_[c]
  BY <1>1, Running
<1>3. /\ running # None
      /\ ~Local(c) /\ ~Queued(c)
      /\ fdTable[e] = c
      /\ ~DataEvent(e)
      /\ running.op = "write" => oneshot[e]
  BY <1>1, <1>2, Running
<1>4. \/ UNCHANGED <<oneshot, armed, interest>>
      \/ /\ oneshot' = [oneshot EXCEPT ![e] = TRUE]
         /\ armed' = [armed EXCEPT ![e] = TRUE]
         /\ interest' = [interest EXCEPT ![e] = mask]
  BY <1>1, <1>2 DEF ModifySocket
<1>5. /\ oneshot'[e] \/ UNCHANGED <<oneshot, armed, interest>>
      /\ \A f \in Fd : f # e => /\ oneshot'[f] = oneshot[f]
                                /\ armed'[f] = armed[f]
                                /\ interest'[f] = interest[f]
  BY <1>4 DEF OwnInv, TypeInv, TypeOK, KernelTypeOK
<1>6. \A d \in Conn :
        /\ Local(d)' <=> Local(d)
        /\ Queued(d)' <=> Queued(d)
        /\ ~Runs(d)'
        /\ Active(d)' => Active(d) /\ d # c
        /\ Carried(d)' <=> Carried(d)
        /\ Registered(d)' <=> Registered(d)
  BY <1>1, <1>3 DEF Active, Local, Queued, Runs, Carried, Registered
<1>7. \A f \in Fd :
        /\ DataEvent(f)' <=> DataEvent(f)
        /\ GoneEvent(f)' <=> GoneEvent(f)
  BY <1>1 DEF DataEvent, GoneEvent
<1>8. SoleTask'
  BY <1>1, <1>6 DEF SoleTask
<1>9. TokenInv'
  <2> SUFFICES ASSUME NEW f \in Fd, conn_manager_[f] # None
               PROVE  /\ DataEvent(f)' => ~Active(conn_manager_[f])'
                      /\ DataEvent(f)' \/ Active(conn_manager_[f])' =>
                           /\ armed'[f] => ~oneshot'[f] /\ peer[conn_manager_[f]] # "up"
                           /\ ~oneshot'[f] => awaits[conn_manager_[f]]
    BY <1>1 DEF TokenInv, Silent
  <2>1. conn_manager_[f] \in Conn /\ fdTable[f] = conn_manager_[f]
    BY Owners
  <2>2. CASE f = e
    BY <1>1, <1>3, <1>6, <1>7, <2>1, <2>2
  <2>3. CASE f # e
    BY <1>1, <1>5, <1>6, <1>7, <2>1, <2>3 DEF TokenInv, Silent
  <2> QED
    BY <2>2, <2>3
<1>10. StaleInv'
  <2> SUFFICES ASSUME NEW f \in Fd
               PROVE  /\ DataEvent(f)' => conn_manager_[f] # None
                      /\ fdTable[f] # None /\ conn_manager_[f] = None => peer[fdTable[f]] # "up"
                      /\ /\ GoneEvent(f)'
                         /\ conn_manager_[f] # None
                         /\ peer[conn_manager_[f]] = "up"
                         => ~Carried(conn_manager_[f])'
    BY <1>1 DEF StaleInv
  <2> QED
    BY <1>1, <1>6, <1>7, Owners DEF StaleInv
<1>11. FirstInv'
  <2>1. ASSUME NEW f \in Fd, fdTable[f] # None, ~oneshot'[f]
        PROVE  /\ interest'[f] # None => interest'[f] = "IN"
              /\ (rx[fdTable[f]] > 0 => awaits[fdTable[f]])
    BY <1>5, <2>1 DEF FirstInv
  <2> QED
    BY <1>1, <2>1 DEF FirstInv
<1>12. OpInv'
  <2>1. ASSUME NEW f \in Fd, DataEvent(f)'
        PROVE  Fits(IF "IN" \in batch[f] THEN "read" ELSE "write", conn_manager_[f])'
    <3>1. DataEvent(f) /\ conn_manager_[f] \in Conn
      BY <1>7, <2>1, Owners DEF StaleInv
    <3>2. fd_[conn_manager_[f]] = f
      BY <3>1, Owners, EpollNekoAssumption
    <3>3. oneshot[f] => oneshot'[f]
      BY <1>5
    <3> QED
      BY <1>1, <3>1, <3>2, <3>3 DEF OpInv, Fits
  <2>2. \A op \in {"read", "write"} : \A d \in Conn :
          Active(d) /\ Fits(op, d) => Fits(op, d)'
    <3> SUFFICES ASSUME NEW d \in Conn, Active(d), oneshot[fd_[d]]
                 PROVE  oneshot'[fd_[d]]
      BY <1>1 DEF Fits
    <3>1. fd_[d] \in Fd
      BY Owners
    <3> QED
      BY <1>5, <3>1
  <2>3. local' # None => Fits(local.op, local.conn)'
    BY <1>1, <2>2, Owners DEF OpInv, Task, Active
  <2>4. \A i \in DOMAIN taskQueue_' : Fits(taskQueue_[i].op, taskQueue_[i].conn)'
    BY <1>1, <2>2, Owners DEF OpInv, Task, Active
  <2>5. running'.op = "write" => Fits(running.op, running.conn)'
    <3> SUFFICES ASSUME running.op = "write"
                 PROVE  oneshot'[e]
      BY <1>1, <1>2 DEF Fits
    <3> QED
      BY <1>3, <1>5
  <2> QED
    BY <1>1, <2>1, <2>3, <2>4, <2>5 DEF OpInv
<1>13. CloseInv'
  <2>1. ASSUME NEW d \in Conn, Held(d)'
        PROVE  state_[d] = "kStart"
    <3>1. Held(d)
      BY <1>6, <2>1 DEF Held
    <3> QED
      BY <1>1, <3>1 DEF CloseInv, Leaving
  <2> QED
    BY <1>1, <2>1 DEF CloseInv
<1>14. ParserInv'
  BY <1>1 DEF ParserInv
<1> QED
  BY <1>8, <1>9, <1>10, <1>11, <1>12, <1>13, <1>14

-----------------------------------------------------------------------------
(* The way of a task through the queue.                                    *)

(* A task passed on while no task is executed: the token stays with it.    *)
LEMMA PassedOn ==
  ASSUME PoliteInv, running = None,
         UNCHANGED <<batch, conn_manager_, fdTable, phase, armed, oneshot, interest, peer,
                     fd_, state_, ctx, halted, rx, awaits>>,
         step' \in {"idle", "start"},
         \A d \in Conn : Active(d)' <=> Active(d),
         \A d \in Conn : Carried(d)' <=> Carried(d),
         SoleTask',
         local' # None => Fits(local.op, local.conn)',
         \A i \in DOMAIN taskQueue_' : Fits(taskQueue_[i].op, taskQueue_[i].conn)',
         running' # None => Fits(running.op, running.conn)'
  PROVE  Polite'
<1> USE DEF PoliteInv, Polite
<1>1. \A d \in Conn : Held(d)' <=> Held(d)
  BY DEF Held, Registered
<1>2. \A f \in Fd :
        /\ DataEvent(f)' <=> DataEvent(f)
        /\ GoneEvent(f)' <=> GoneEvent(f)
  BY DEF DataEvent, GoneEvent
<1>3. TokenInv'
  BY <1>2, Owners DEF TokenInv, Silent
<1>4. StaleInv'
  BY <1>2, Owners DEF StaleInv
<1>5. FirstInv'
  BY DEF FirstInv
<1>6. OpInv'
  BY <1>2 DEF OpInv, Fits
<1>7. CloseInv'
  BY <1>1 DEF CloseInv, Leaving
<1>8. ParserInv'
  BY DEF ParserInv
<1> QED
  BY <1>3, <1>4, <1>5, <1>6, <1>7, <1>8

LEMMA BeginPolite ==
  ASSUME PoliteInv, Begin
  PROVE  Polite'
<1> USE DEF PoliteInv, Polite
<1>1. /\ running = None
      /\ taskQueue_ # <<>>
      /\ running' = Head(taskQueue_)
      /\ taskQueue_' = Tail(taskQueue_)
      /\ step' = "start"
      /\ UNCHANGED <<batch, local, conn_manager_, fdTable, phase, armed, oneshot, interest, peer,
                     fd_, state_, ctx, halted, rx, awaits>>
  BY DEF Begin, Pool!Begin, kernelVars, reactorVars, connVars
<1>2. taskQueue_ \in Seq(Task)
  BY DEF OwnInv, TypeInv, TypeOK
<1>3. /\ DOMAIN taskQueue_ = 1 .. Len(taskQueue_)
      /\ DOMAIN taskQueue_' = 1 .. Len(taskQueue_) - 1
      /\ \A i \in 1 .. Len(taskQueue_) - 1 : taskQueue_'[i] = taskQueue_[i + 1]
      /\ running' = taskQueue_[1]
      /\ Len(taskQueue_) \in Nat \ {0}
      /\ running' \in Task
  BY <1>1, <1>2
<1>4. running' # None
  BY <1>3, HylChanAssumption
<1>5. \A i, j \in DOMAIN taskQueue_ : taskQueue_[i].conn = taskQueue_[j].conn => i = j
  BY DEF SoleTask
<1>6. ASSUME NEW d \in Conn
      PROVE  /\ Local(d)' <=> Local(d)
             /\ Queued(d)' => Queued(d) /\ ~Runs(d)'
             /\ Runs(d)' => Queued(d)
             /\ Queued(d) => Queued(d)' \/ Runs(d)'
             /\ ~Runs(d)
  <2>1. Runs(d)' <=> taskQueue_[1].conn = d
    BY <1>1, <1>3, <1>4 DEF Runs
  <2>2. ASSUME Queued(d)'
        PROVE  Queued(d) /\ taskQueue_[1].conn # d
    <3>1. PICK i \in 1 .. Len(taskQueue_) - 1 : taskQueue_[i + 1].conn = d
      BY <1>3, <2>2 DEF Queued
    <3>2. i + 1 \in DOMAIN taskQueue_ /\ 1 \in DOMAIN taskQueue_ /\ i + 1 # 1
      BY <1>3
    <3> QED
      BY <1>5, <3>1, <3>2 DEF Queued
  <2>3. ASSUME Queued(d), taskQueue_[1].conn # d
        PROVE  Queued(d)'
    <3>1. PICK i \in 1 .. Len(taskQueue_) : taskQueue_[i].conn = d
      BY <1>3, <2>3 DEF Queued
    <3>2. i - 1 \in 1 .. Len(taskQueue_) - 1 /\ taskQueue_'[i - 1].conn = d
      BY <1>3, <2>3, <3>1
    <3> QED
      BY <1>3, <3>2 DEF Queued
  <2>4. taskQueue_[1].conn = d => Queued(d)
    BY <1>3 DEF Queued
  <2>5. Local(d)' <=> Local(d)
    BY <1>1 DEF Local
  <2> QED
    BY <1>1, <2>1, <2>2, <2>3, <2>4, <2>5 DEF Runs
<1>7. \A d \in Conn : Active(d)' <=> Active(d)
  BY <1>6 DEF Active
<1>8. \A d \in Conn : Carried(d)' <=> Carried(d)
  BY <1>1, <1>4, <1>6 DEF Carried, Runs, Local
<1>9. SoleTask'
  <2>1. ASSUME NEW i \in DOMAIN taskQueue_', NEW j \in DOMAIN taskQueue_',
               taskQueue_'[i].conn = taskQueue_'[j].conn
        PROVE  i = j
    <3>1. /\ i + 1 \in DOMAIN taskQueue_
          /\ j + 1 \in DOMAIN taskQueue_
          /\ taskQueue_[i + 1].conn = taskQueue_[j + 1].conn
      BY <1>3, <2>1
    <3>2. i + 1 = j + 1
      BY <1>5, <3>1
    <3> QED
      BY <1>3, <3>2
  <2>2. \A d \in Conn :
          /\ Local(d)' => ~Queued(d)' /\ ~Runs(d)'
          /\ Queued(d)' => ~Runs(d)'
    BY <1>6 DEF SoleTask
  <2> QED
    BY <2>1, <2>2 DEF SoleTask
<1>10. \A i \in DOMAIN taskQueue_' : Fits(taskQueue_[i].op, taskQueue_[i].conn)'
  <2> SUFFICES ASSUME NEW i \in 1 .. Len(taskQueue_) - 1
               PROVE  Fits(taskQueue_[i].op, taskQueue_[i].conn)'
    BY <1>3
  <2>1. i + 1 \in DOMAIN taskQueue_ /\ taskQueue_'[i] = taskQueue_[i + 1]
    BY <1>3
  <2> QED
    BY <1>1, <2>1 DEF OpInv, Fits
<1>11. Fits(running.op, running.conn)'
  <2>1. 1 \in DOMAIN taskQueue_
    BY <1>3
  <2> QED
    BY <1>1, <1>3, <2>1 DEF OpInv, Fits
<1>12. local' # None => Fits(local.op, local.conn)'
  BY <1>1 DEF OpInv, Fits
<1> QED
  BY <1>1, <1>7, <1>8, <1>9, <1>10, <1>11, <1>12, PassedOn

LEMMA EnqueuePolite ==
  ASSUME PoliteInv, Enqueue
  PROVE  Polite'
<1> USE DEF PoliteInv, Polite
<1>1. /\ running = None
      /\ local # None
      /\ taskQueue_' = Append(taskQueue_, local)
      /\ local' = None
      /\ UNCHANGED <<batch, running, step, conn_manager_, fdTable, phase, armed, oneshot, interest,
                     peer, fd_, state_, ctx, halted, rx, awaits>>
  BY DEF Enqueue, Pool!Submit, kernelVars, connVars
<1>2. taskQueue_ \in Seq(Task) /\ local \in Task /\ step = "idle"
  BY <1>1 DEF OwnInv, TypeInv, TypeOK, Busy
<1>3. /\ DOMAIN taskQueue_ = 1 .. Len(taskQueue_)
      /\ DOMAIN taskQueue_' = 1 .. Len(taskQueue_) + 1
      /\ \A i \in 1 .. Len(taskQueue_) : taskQueue_'[i] = taskQueue_[i]
      /\ taskQueue_'[Len(taskQueue_) + 1] = local
      /\ Len(taskQueue_) \in Nat
  BY <1>1, <1>2
<1>4. ASSUME NEW d \in Conn
      PROVE  /\ ~Local(d)' /\ ~Runs(d) /\ ~Runs(d)'
             /\ Queued(d)' <=> Queued(d) \/ Local(d)
  <2>1. Queued(d)' <=> Queued(d) \/ local.conn = d
    BY <1>3 DEF Queued
  <2> QED
    BY <1>1, <2>1 DEF Local, Runs
<1>5. \A d \in Conn : Active(d)' <=> Active(d)
  BY <1>4 DEF Active
<1>6. \A d \in Conn : Carried(d)' <=> Carried(d)
  BY <1>1, <1>4 DEF Carried, Local
<1>7. SoleTask'
  <2>1. ~Queued(local.conn)
    BY <1>1, <1>2, Owners DEF SoleTask
  <2>2. ASSUME NEW i \in DOMAIN taskQueue_', NEW j \in DOMAIN taskQueue_',
               taskQueue_'[i].conn = taskQueue_'[j].conn
        PROVE  i = j
    <3>1. \A k \in DOMAIN taskQueue_ : taskQueue_'[k].conn # local.conn
      BY <1>3, <2>1 DEF Queued
    <3>2. CASE i \in DOMAIN taskQueue_ /\ j \in DOMAIN taskQueue_
      BY <1>3, <2>2, <3>2 DEF SoleTask
    <3>3. CASE i \notin DOMAIN taskQueue_ \/ j \notin DOMAIN taskQueue_
      BY <1>3, <2>2, <3>1, <3>3
    <3> QED
      BY <3>2, <3>3
  <2> QED
    BY <1>4, <2>2 DEF SoleTask
<1>8. \A i \in DOMAIN taskQueue_' : Fits(taskQueue_[i].op, taskQueue_[i].conn)'
  <2> SUFFICES ASSUME NEW i \in DOMAIN taskQueue_'
               PROVE  Fits(taskQueue_[i].op, taskQueue_[i].conn)'
    OBVIOUS
  <2>1. CASE i \in DOMAIN taskQueue_
    BY <1>1, <1>3, <2>1 DEF OpInv, Fits
  <2>2. CASE i \notin DOMAIN taskQueue_
    <3>1. taskQueue_'[i] = local
      BY <1>3, <2>2
    <3> QED
      BY <1>1, <3>1 DEF OpInv, Fits
  <2> QED
    BY <2>1, <2>2
<1> QED
  BY <1>1, <1>2, <1>5, <1>6, <1>7, <1>8, PassedOn

-----------------------------------------------------------------------------
(* Steps that give shared pointers up, and destroy what nobody holds.      *)

LEMMA ReapFacts ==
  ASSUME OwnInv, Reap
  PROVE  /\ \A c \in Conn : phase[c] # "accepted" \/ Held(c)' =>
              /\ phase'[c] = phase[c]
              /\ rx'[c] = rx[c]
              /\ awaits'[c] = awaits[c]
              /\ peer'[c] = peer[c]
         /\ \A c \in Conn : phase'[c] \in {"new", "backlog"} => phase'[c] = phase[c]
         /\ \A c \in Conn : ctx'[c] \in {ctx[c], "kExpectRequestLine"}
         /\ \A f \in Fd : fdTable'[f] # None =>
              /\ fdTable'[f] = fdTable[f]
              /\ interest'[f] = interest[f]
              /\ fdTable[f] \in Conn
              /\ Held(fdTable[f])'
<1> DEFINE gone == {c \in Conn : phase[c] = "accepted" /\ ~Held(c)'}
<1>1. /\ phase' = Forget(phase, gone, "closed")
      /\ fdTable' = [f \in Fd |-> IF fdTable[f] \in gone THEN None ELSE fdTable[f]]
      /\ interest' = [f \in Fd |-> IF fdTable[f] \in gone THEN None ELSE interest[f]]
      /\ rx' = Forget(rx, gone, 0)
      /\ awaits' = Forget(awaits, gone, FALSE)
      /\ peer' = Forget(peer, gone, "up")
      /\ ctx' = Forget(ctx, gone, "kExpectRequestLine")
  BY DEF Reap, Destroy, CloseDescriptors
<1>2. ASSUME NEW c \in Conn, phase[c] # "accepted" \/ Held(c)'
      PROVE  /\ phase'[c] = phase[c]
             /\ rx'[c] = rx[c]
             /\ awaits'[c] = awaits[c]
             /\ peer'[c] = peer[c]
  <2>1. c \notin gone
    BY <1>2
  <2> QED
    BY <1>1, <2>1 DEF Forget
<1>3. \A c \in Conn : phase'[c] \in {"new", "backlog"} => phase'[c] = phase[c]
  BY <1>1 DEF Forget
<1>4. \A c \in Conn : ctx'[c] \in {ctx[c], "kExpectRequestLine"}
  BY <1>1 DEF Forget
<1>5. ASSUME NEW f \in Fd, fdTable'[f] # None
      PROVE  /\ fdTable'[f] = fdTable[f]
             /\ interest'[f] = interest[f]
             /\ fdTable[f] \in Conn
             /\ Held(fdTable[f])'
  <2>1. fdTable[f] \notin gone /\ fdTable'[f] = fdTable[f] /\ interest'[f] = interest[f]
    BY <1>1, <1>5
  <2>2. fdTable[f] \in Conn /\ phase[fdTable[f]] = "accepted"
    BY <1>5, <2>1, Owners
  <2>3. Held(fdTable[f])'
    BY <2>1, <2>2
  <2> QED
    BY <2>1, <2>2, <2>3
<1> QED
  BY <1>2, <1>3, <1>4, <1>5

(* What is left to show of each of these steps: of an open connection that *)
(* is not in the map no data event is left, the connection either hung up  *)
(* or was shut down, and one that was shut down is on its way out.         *)
LEMMA GivenUp ==
  ASSUME PoliteInv, Reap,
         UNCHANGED <<fd_, state_, oneshot, taskQueue_>>,
         local' \in {local, None},
         \/ UNCHANGED <<running, step>>
         \/ running' = running /\ step = "erasing" /\ step' = "release"
         \/ running' = None /\ step' = "idle",
         halted' # "assert",
         \A f \in Fd : conn_manager_'[f] \in {conn_manager_[f], None},
         \A f \in Fd : batch'[f] \in {batch[f], {}},
         \A f \in Fd : conn_manager_'[f] # None => armed'[f] = armed[f],
         \A f \in Fd : DataEvent(f)' => conn_manager_'[f] # None,
         \A f \in Fd : fdTable'[f] # None /\ conn_manager_'[f] = None =>
           \/ peer[fdTable[f]] # "up"
           \/ /\ ~armed'[f] /\ oneshot[f]
              /\ running' # None /\ running'.conn = fdTable[f] /\ step' = "release"
              /\ state_[fdTable[f]] # "kStart",
         \A c \in Conn : Held(c)' /\ state_[c] # "kStart" => Leaving(c)'
  PROVE  Polite'
<1> USE DEF PoliteInv, Polite
<1>1. \A c \in Conn :
        /\ Local(c)' => Local(c)
        /\ Queued(c)' <=> Queued(c)
        /\ Runs(c)' => Runs(c)
        /\ Active(c)' => Active(c)
        /\ Carried(c)' => Carried(c)
        /\ Carried(c)' => Held(c)'
  BY DEF Local, Queued, Runs, Active, Carried, Held
<1>2. \A f \in Fd :
        /\ batch'[f] = {} => ~DataEvent(f)' /\ ~GoneEvent(f)'
        /\ DataEvent(f)' => DataEvent(f) /\ batch'[f] = batch[f]
        /\ GoneEvent(f)' => GoneEvent(f)
  BY DEF DataEvent, GoneEvent
<1>3. \A f \in Fd : conn_manager_'[f] # None =>
        /\ conn_manager_'[f] = conn_manager_[f]
        /\ conn_manager_[f] \in Conn
        /\ Held(conn_manager_[f])'
        /\ fd_[conn_manager_[f]] = f
  <2> SUFFICES ASSUME NEW f \in Fd, conn_manager_'[f] # None
               PROVE  /\ conn_manager_'[f] = conn_manager_[f]
                      /\ conn_manager_[f] \in Conn
                      /\ Held(conn_manager_[f])'
                      /\ fd_[conn_manager_[f]] = f
    OBVIOUS
  <2>1. conn_manager_'[f] = conn_manager_[f] /\ conn_manager_[f] \in Conn
    BY Owners
  <2>2. Held(conn_manager_[f])'
    BY <2>1 DEF Held, Registered
  <2>3. fd_[conn_manager_[f]] = f
    BY <2>1, Owners, EpollNekoAssumption
  <2> QED
    BY <2>1, <2>2, <2>3
<1>4. \A c \in Conn : Held(c)' =>
        /\ rx'[c] = rx[c]
        /\ awaits'[c] = awaits[c]
        /\ peer'[c] = peer[c]
  BY ReapFacts
<1>5. SoleTask'
  BY <1>1 DEF SoleTask
<1>6. TokenInv'
  <2> SUFFICES ASSUME NEW f \in Fd, conn_manager_'[f] # None
               PROVE  /\ DataEvent(f)' => ~Active(conn_manager_[f])'
                      /\ DataEvent(f)' \/ Active(conn_manager_[f])' =>
                           /\ armed'[f] => ~oneshot'[f] /\ peer'[conn_manager_'[f]] # "up"
                           /\ ~oneshot'[f] => awaits'[conn_manager_'[f]]
    BY DEF TokenInv, Silent
  <2> DEFINE d == conn_manager_[f]
  <2>1. /\ d \in Conn
        /\ conn_manager_'[f] = d
        /\ armed'[f] = armed[f]
        /\ oneshot'[f] = oneshot[f]
        /\ peer'[d] = peer[d]
        /\ awaits'[d] = awaits[d]
    BY <1>3, <1>4
  <2>2. /\ Active(conn_manager_[f])' => Active(d)
        /\ DataEvent(f)' => DataEvent(f)
    BY <1>1, <1>2, <2>1
  <2>3. d # None
    BY <2>1, EpollNekoAssumption
  <2> QED
    BY <2>1, <2>2, <2>3 DEF TokenInv, Silent
<1>7. StaleInv'
  <2>1. ASSUME NEW f \in Fd, fdTable'[f] # None, conn_manager_'[f] = None
        PROVE  \/ peer'[fdTable'[f]] # "up"
               \/ /\ ~armed'[f] /\ oneshot'[f]
                  /\ running' # None /\ running'.conn = fdTable'[f] /\ step' = "release"
                  /\ state_'[fdTable'[f]] # "kStart"
    <3>1. /\ fdTable'[f] = fdTable[f]
          /\ peer'[fdTable[f]] = peer[fdTable[f]]
      BY <1>4, <2>1, ReapFacts
    <3> QED
      BY <2>1, <3>1
  <2>2. ASSUME NEW f \in Fd, GoneEvent(f)', conn_manager_'[f] # None,
               peer'[conn_manager_'[f]] = "up"
        PROVE  ~Carried(conn_manager_[f])'
    <3>1. /\ GoneEvent(f)
          /\ conn_manager_'[f] = conn_manager_[f]
          /\ conn_manager_[f] # None
          /\ conn_manager_[f] \in Conn
          /\ peer[conn_manager_[f]] = "up"
      BY <1>2, <1>3, <1>4, <2>2
    <3>2. ~Carried(conn_manager_[f])
      BY <3>1 DEF StaleInv
    <3> QED
      BY <1>1, <3>1, <3>2
  <2> QED
    BY <2>1, <2>2 DEF StaleInv
<1>8. FirstInv'
  <2>1. ASSUME NEW c \in Conn, phase'[c] \in {"new", "backlog"}, rx'[c] > 0
        PROVE  awaits'[c]
    BY <2>1, ReapFacts DEF FirstInv
  <2>2. ASSUME NEW f \in Fd, fdTable'[f] # None, ~oneshot'[f]
        PROVE  /\ interest'[f] # None => interest'[f] = "IN"
              /\ (rx'[fdTable'[f]] > 0 => awaits'[fdTable'[f]])
    BY <1>4, <2>2, ReapFacts DEF FirstInv
  <2> QED
    BY <2>1, <2>2 DEF FirstInv
<1>9. OpInv'
  <2>1. \A op \in {"read", "write"} : \A c \in Conn :
          Held(c)' /\ Fits(op, c) => Fits(op, c)'
    BY <1>4 DEF Fits
  <2>2. ASSUME NEW f \in Fd, DataEvent(f)'
        PROVE  Fits(IF "IN" \in batch[f] THEN "read" ELSE "write", conn_manager_[f])'
    <3>1. /\ DataEvent(f)
          /\ batch'[f] = batch[f]
          /\ conn_manager_'[f] = conn_manager_[f]
          /\ conn_manager_[f] \in Conn
          /\ Held(conn_manager_[f])'
      BY <1>2, <1>3, <2>2
    <3>2. Fits(IF "IN" \in batch[f] THEN "read" ELSE "write", conn_manager_[f])
      BY <3>1 DEF OpInv
    <3> QED
      BY <2>1, <3>1, <3>2
  <2>3. local' # None => Fits(local.op, local.conn)'
    <3> SUFFICES ASSUME local' # None
                 PROVE  Fits(local.op, local.conn)'
      OBVIOUS
    <3>1. local' = local /\ local \in Task /\ local # None /\ Local(local.conn)'
      BY Owners DEF Local
    <3> QED
      BY <1>1, <2>1, <3>1 DEF OpInv, Task, Carried, Local
  <2>4. \A i \in DOMAIN taskQueue_' : Fits(taskQueue_[i].op, taskQueue_[i].conn)'
    <3> SUFFICES ASSUME NEW i \in DOMAIN taskQueue_
                 PROVE  Fits(taskQueue_[i].op, taskQueue_[i].conn)'
      OBVIOUS
    <3>1. taskQueue_[i] \in Task /\ Held(taskQueue_[i].conn)'
      BY <1>1, Owners DEF Carried
    <3> QED
      BY <2>1, <3>1 DEF OpInv, Task
  <2>5. running' # None /\ (step' = "start" \/ running'.op = "write")
          => Fits(running.op, running.conn)'
    <3> SUFFICES ASSUME running' # None, step' = "start" \/ running'.op = "write"
                 PROVE  Fits(running.op, running.conn)'
      OBVIOUS
    <3>1. running' = running /\ running \in Task /\ Held(running.conn)'
      BY <1>1, Owners DEF Carried
    <3> QED
      BY <2>1, <3>1 DEF OpInv, Task
  <2>6. step' \in {"body", "rearmIn", "shutdown", "erase", "erasing"} => running'.op = "write"
    BY DEF OpInv
  <2> QED
    BY <2>2, <2>3, <2>4, <2>5, <2>6 DEF OpInv
<1>10. CloseInv'
  BY DEF CloseInv
<1>11. ParserInv'
  BY ReapFacts DEF ParserInv
<1> QED
  BY <1>5, <1>6, <1>7, <1>8, <1>9, <1>10, <1>11

(* The reactor may not see the map in the middle of an erase, but it does  *)
(* not abort.                                                              *)
LEMMA MapAccessAborts ==
  ASSUME PoliteInv, MapAccess
  PROVE  halted' # "assert"
BY DEF PoliteInv, Polite, ParserInv, MapAccess

(* A descriptor with a hang-up: if the client is still there, the hang-up  *)
(* was a former connection's, and the new one, which has no task, is       *)
(* closed.                                                                 *)
LEMMA HangUpPolite ==
  ASSUME PoliteInv, NEW e \in Fd, HandleHup(e) \/ HandleRdHup(e)
  PROVE  Polite'
<1> USE DEF PoliteInv, Polite
<1>1. /\ local = None
      /\ GoneEvent(e)
      /\ conn_manager_' = [conn_manager_ EXCEPT ![e] = None]
      /\ batch' = [batch EXCEPT ![e] = {}]
      /\ MapAccess
      /\ UNCHANGED <<fd_, state_, oneshot, local, taskQueue_, running, step>>
      /\ Reap
      /\ armed' = armed \/ (fdTable'[e] # None /\ Edge(fdTable[e]))
  BY DEF HandleHup, HandleRdHup, Erase, Handled, GoneEvent, poolVars
<1>2. /\ conn_manager_'[e] = None
      /\ batch'[e] = {}
      /\ \A f \in Fd : f # e => /\ conn_manager_'[f] = conn_manager_[f]
                                /\ batch'[f] = batch[f]
  BY <1>1 DEF OwnInv, TypeInv, TypeOK, Source
<1>3. \A c \in Conn :
        /\ Local(c)' <=> Local(c)
        /\ Queued(c)' <=> Queued(c)
        /\ Carried(c)' <=> Carried(c)
        /\ Registered(c)' => Registered(c)
  BY <1>1, <1>2, EpollNekoAssumption DEF Local, Queued, Carried, Registered
<1>4. \A f \in Fd : f # e => armed'[f] = armed[f]
  <2>1. CASE armed' = armed
    BY <2>1
  <2>2. CASE fdTable'[e] # None /\ Edge(fdTable[e])
    <3>1. fdTable[e] \in Conn /\ fd_[fdTable[e]] = e
      BY <1>1, <2>2, ReapFacts, Owners
    <3>2. \A f \in Fd : fdTable[f] = fdTable[e] => f = e
      BY <3>1, Owners, EpollNekoAssumption
    <3> QED
      BY <2>2, <3>2 DEF Edge, OwnInv, TypeInv, TypeOK, KernelTypeOK
  <2> QED
    BY <1>1, <2>1, <2>2
<1>5. oneshot[e] => armed'[e] = armed[e]
  <2>1. CASE armed' = armed
    BY <2>1
  <2>2. CASE Edge(fdTable[e])
    BY <2>2 DEF Edge, OwnInv, TypeInv, TypeOK, KernelTypeOK
  <2> QED
    BY <1>1, <2>1, <2>2
<1>6. ASSUME NEW f \in Fd, DataEvent(f)'
      PROVE  conn_manager_'[f] # None
  BY <1>2, <1>6 DEF DataEvent, StaleInv
<1>7. ASSUME NEW f \in Fd, fdTable'[f] # None, conn_manager_'[f] = None
      PROVE  \/ peer[fdTable[f]] # "up"
             \/ /\ ~armed'[f] /\ oneshot[f]
                /\ running' # None /\ running'.conn = fdTable[f] /\ step' = "release"
                /\ state_[fdTable[f]] # "kStart"
  <2>1. fdTable[f] # None
    BY <1>1, <1>7, ReapFacts
  <2>2. CASE conn_manager_[f] = None
    BY <1>1, <1>4, <1>5, <2>1, <2>2 DEF StaleInv
  <2>3. CASE conn_manager_[f] # None
    <3>1. PICK d \in Conn : f = e /\ d = fdTable[e] /\ d = conn_manager_[e]
      BY <1>2, <1>7, <2>3, Owners
    <3>2. Held(d)'
      <4>1. fdTable[f] = d /\ phase[d] = "accepted"
        BY <3>1, <2>1 DEF OwnInv, OpenAccepted
      <4> QED
        BY <1>1, <1>7, <4>1 DEF Reap, Destroy, CloseDescriptors
    <3>3. ~Registered(d)'
      <4> SUFFICES ASSUME NEW g \in Fd, conn_manager_'[g] = d
                   PROVE  FALSE
        BY DEF Registered
      <4>1. g # e /\ conn_manager_[g] = d
        BY <1>2, EpollNekoAssumption
      <4>2. fdTable[g] = d
        BY <4>1, Owners, EpollNekoAssumption
      <4> QED
        BY <3>1, <4>1, <4>2, Owners, EpollNekoAssumption
    <3>4. Carried(d)
      BY <1>3, <3>2, <3>3 DEF Held
    <3> QED
      BY <1>1, <2>3, <3>1, <3>4 DEF StaleInv
  <2> QED
    BY <2>2, <2>3
<1>8. ASSUME NEW c \in Conn, Held(c)', state_[c] # "kStart"
      PROVE  Leaving(c)'
  <2>1. Held(c)
    BY <1>3, <1>8 DEF Held
  <2> QED
    BY <1>1, <1>3, <1>8, <2>1 DEF CloseInv, Leaving
<1>9. halted' # "assert"
  BY <1>1, MapAccessAborts
<1> QED
  BY <1>1, <1>2, <1>4, <1>6, <1>7, <1>8, <1>9, GivenUp

LEMMA RejectedPolite ==
  ASSUME PoliteInv, EnqueueRejected
  PROVE  Polite'
<1> USE DEF PoliteInv, Polite
<1>1. /\ running = None
      /\ local' = None
      /\ UNCHANGED <<fd_, state_, oneshot, armed, conn_manager_, batch, taskQueue_, running, step,
                     halted>>
      /\ Reap
  BY DEF EnqueueRejected, poolVars
<1>2. \A f \in Fd : DataEvent(f)' => conn_manager_'[f] # None
  BY <1>1 DEF DataEvent, StaleInv
<1>3. \A f \in Fd : fdTable'[f] # None /\ conn_manager_'[f] = None => peer[fdTable[f]] # "up"
  BY <1>1, ReapFacts DEF StaleInv
<1>4. \A c \in Conn : Held(c)' => Held(c)
  BY <1>1 DEF Held, Registered, Carried, Queued
<1>5. \A c \in Conn : Held(c)' /\ state_[c] # "kStart" => Leaving(c)'
  BY <1>1, <1>4 DEF CloseInv, Leaving
<1> QED
  BY <1>1, <1>2, <1>3, <1>5, GivenUp DEF ParserInv

(* The end of a task: what had the token gave it back before.              *)
LEMMA ReleasePolite ==
  ASSUME PoliteInv, Release
  PROVE  Polite'
<1> USE DEF PoliteInv, Polite
<1>1. /\ running # None
      /\ running' = None
      /\ step = "release"
      /\ step' = "idle"
      /\ UNCHANGED <<fd_, state_, oneshot, armed, conn_manager_, batch, taskQueue_, local, halted>>
      /\ Reap
  BY DEF Release, Pool!End, reactorVars
<1>2. \A f \in Fd : DataEvent(f)' => conn_manager_'[f] # None
  BY <1>1 DEF DataEvent, StaleInv
<1>3. \A c \in Conn :
        /\ Registered(c)' <=> Registered(c)
        /\ Carried(c)' <=> Local(c) \/ Queued(c)
        /\ Held(c)' => Held(c)
  BY <1>1 DEF Held, Registered, Carried, Queued, Local
<1>4. \A c \in Conn : Held(c)' => state_[c] = "kStart"
  BY <1>1, <1>3 DEF CloseInv, Leaving, Held
<1>5. \A f \in Fd : fdTable'[f] # None /\ conn_manager_'[f] = None => peer[fdTable[f]] # "up"
  BY <1>1, <1>4, ReapFacts DEF StaleInv
<1> QED
  BY <1>1, <1>2, <1>4, <1>5, GivenUp DEF ParserInv

(* A connection is erased after its descriptor was shut down, disarmed.    *)
LEMMA ErasePolite ==
  ASSUME PoliteInv, EraseEnds
  PROVE  Polite'
<1> USE DEF PoliteInv, Polite
<1>1. /\ step = "erasing"
      /\ step' = "release"
      /\ conn_manager_' = [conn_manager_ EXCEPT ![fd_[running.conn]] = None]
      /\ UNCHANGED <<fd_, state_, oneshot, armed, batch, taskQueue_, local, running, halted>>
      /\ Reap
  BY DEF EraseEnds, Erase, poolVars
<1>2. PICK c \in Conn, e \in Fd : c = running.conn /\ e = fd_[c]
  BY <1>1, Running
<1>3. /\ running # None
      /\ ~Local(c) /\ ~Queued(c)
      /\ Active(c)
      /\ fdTable[e] = c
      /\ ~DataEvent(e)
      /\ oneshot[e]
      /\ state_[c] # "kStart"
      /\ \A f \in Fd : fdTable[f] = c => f = e
  <2>1. running.op = "write"
    BY <1>1 DEF OpInv
  <2> QED
    BY <1>1, <1>2, <2>1, Running DEF CloseInv
<1>4. /\ conn_manager_'[e] = None
      /\ \A f \in Fd : f # e => conn_manager_'[f] = conn_manager_[f]
  BY <1>1, <1>2 DEF OwnInv, TypeInv, TypeOK
<1>5. \A d \in Conn :
        /\ Local(d)' <=> Local(d)
        /\ Queued(d)' <=> Queued(d)
        /\ Carried(d)' <=> Carried(d)
        /\ Registered(d)' => Registered(d)
  BY <1>1, <1>4, EpollNekoAssumption DEF Local, Queued, Carried, Registered
<1>6. \A f \in Fd : DataEvent(f)' => conn_manager_'[f] # None
  BY <1>1, <1>3, <1>4 DEF DataEvent, StaleInv
<1>7. ASSUME NEW f \in Fd, fdTable'[f] # None, conn_manager_'[f] = None
      PROVE  \/ peer[fdTable[f]] # "up"
             \/ /\ ~armed'[f] /\ oneshot[f]
                /\ running' # None /\ running'.conn = fdTable[f] /\ step' = "release"
                /\ state_[fdTable[f]] # "kStart"
  <2>1. fdTable[f] # None
    BY <1>1, <1>7, ReapFacts
  <2>2. CASE conn_manager_[f] = None
    BY <1>1, <2>1, <2>2 DEF StaleInv
  <2>3. CASE conn_manager_[f] # None
    <3>1. f = e /\ conn_manager_[e] = c
      BY <1>3, <1>4, <1>7, <2>3, Owners
    <3>2. ~armed[e]
      BY <1>3, <2>3, <3>1 DEF TokenInv, Silent
    <3> QED
      BY <1>1, <1>2, <1>3, <3>1, <3>2
  <2> QED
    BY <2>2, <2>3
<1>8. ASSUME NEW d \in Conn, Held(d)', state_[d] # "kStart"
      PROVE  Leaving(d)'
  <2>1. d = c
    <3>1. Held(d)
      BY <1>5, <1>8 DEF Held
    <3> QED
      BY <1>2, <1>8, <3>1 DEF CloseInv, Leaving
  <2>2. ASSUME NEW g \in Fd, conn_manager_'[g] = c
        PROVE  FALSE
    <3>1. g # e /\ conn_manager_[g] = c
      BY <1>4, <2>2, EpollNekoAssumption
    <3> QED
      BY <1>3, <3>1, Owners, EpollNekoAssumption
  <2>3. ~Registered(c)'
    BY <1>1, <1>2, <2>2 DEF Registered
  <2> QED
    BY <1>1, <1>2, <1>3, <1>5, <2>1, <2>3 DEF Leaving
<1> QED
  BY <1>1, <1>3, <1>4, <1>6, <1>7, <1>8, GivenUp DEF ParserInv

-----------------------------------------------------------------------------
(* The other steps of the reactor.                                         *)

(* Steps that disturb none of what the invariant speaks of.                *)
LEMMA Undisturbed ==
  ASSUME PoliteInv,
         UNCHANGED <<rx, awaits, peer, fdTable, interest, oneshot, armed, conn_manager_,
                     local, taskQueue_, running, step, fd_, state_, ctx>>,
         \A c \in Conn : phase'[c] \in {"new", "backlog"} => phase[c] \in {"new", "backlog"},
         \A f \in Fd : batch'[f] = batch[f],
         halted' # "assert"
  PROVE  Polite'
<1> USE DEF PoliteInv, Polite
<1>1. \A c \in Conn :
        /\ Local(c)' <=> Local(c)
        /\ Queued(c)' <=> Queued(c)
        /\ Runs(c)' <=> Runs(c)
        /\ Active(c)' <=> Active(c)
        /\ Carried(c)' <=> Carried(c)
        /\ Registered(c)' <=> Registered(c)
        /\ Held(c)' <=> Held(c)
  BY DEF Local, Queued, Runs, Active, Carried, Registered, Held
<1>2. \A f \in Fd :
        /\ DataEvent(f)' <=> DataEvent(f)
        /\ GoneEvent(f)' <=> GoneEvent(f)
  BY DEF DataEvent, GoneEvent
<1>3. SoleTask'
  BY <1>1 DEF SoleTask
<1>4. TokenInv'
  BY <1>1, <1>2, Owners DEF TokenInv, Silent
<1>5. StaleInv'
  BY <1>1, <1>2, Owners DEF StaleInv
<1>6. FirstInv'
  BY DEF FirstInv
<1>7. OpInv'
  BY <1>2 DEF OpInv, Fits
<1>8. CloseInv'
  BY <1>1 DEF CloseInv, Leaving
<1>9. ParserInv'
  BY DEF ParserInv
<1> QED
  BY <1>3, <1>4, <1>5, <1>6, <1>7, <1>8, <1>9

LEMMA ListenerPolite ==
  ASSUME PoliteInv, AcceptFails \/ Refuse
  PROVE  Polite'
<1>1. /\ UNCHANGED <<phase, rx, awaits, peer, fdTable, interest, oneshot, armed, conn_manager_,
                     local, taskQueue_, running, step, fd_, state_, ctx>>
      /\ batch' = [batch EXCEPT ![Listener] = {}]
      /\ MapAccess
  BY DEF AcceptFails, Refuse, Handled, kernelVars, poolVars, connVars
<1>2. \A f \in Fd : batch'[f] = batch[f]
  BY <1>1, HylChanAssumption DEF PoliteInv, OwnInv, TypeInv, TypeOK, Source
<1> QED
  BY <1>1, <1>2, MapAccessAborts, Undisturbed

(* What epoll reports follows from the registration: a descriptor of a     *)
(* connection that has a task reports hang-ups at most.                    *)
LEMMA WaitPolite ==
  ASSUME PoliteInv, EpollWait
  PROVE  Polite'
<1> USE DEF PoliteInv, Polite
<1>1. /\ LoopDone
      /\ batch' = [s \in Source |-> Pending(s)]
      /\ Report
      /\ UNCHANGED <<phase, rx, awaits, peer, fdTable, interest, oneshot, conn_manager_,
                     local, taskQueue_, running, step, fd_, state_, ctx, halted>>
  BY DEF EpollWait, poolVars, connVars
<1>2. \A c \in Conn :
        /\ Local(c)' <=> Local(c)
        /\ Queued(c)' <=> Queued(c)
        /\ Runs(c)' <=> Runs(c)
        /\ Active(c)' <=> Active(c)
        /\ Carried(c)' <=> Carried(c)
        /\ Registered(c)' <=> Registered(c)
        /\ Held(c)' <=> Held(c)
  BY <1>1 DEF Local, Queued, Runs, Active, Carried, Registered, Held
<1>3. \A f \in Fd : batch'[f] = Reported(f)
  BY <1>1, HylChanAssumption DEF Pending, Source
<1>4. \A f \in Fd : armed'[f] <=> armed[f] /\ Reported(f) = {}
  BY <1>1 DEF Report
<1>5. ASSUME NEW f \in Fd, DataEvent(f)'
      PROVE  /\ fdTable[f] \in Conn
             /\ armed[f] /\ ~armed'[f]
             /\ peer[fdTable[f]] = "up"
             /\ "IN" \in batch'[f] => rx[fdTable[f]] > 0
             /\ "IN" \notin batch'[f] => interest[f] = "OUT"
             /\ ~oneshot[f] => awaits[fdTable[f]]
  <2>1. batch'[f] # {} /\ batch'[f] \subseteq {"IN", "OUT"}
    BY <1>5 DEF DataEvent
  <2>2. /\ fdTable[f] # None /\ armed[f]
        /\ batch'[f] = SocketEvents(fdTable[f]) \cap {interest[f], "RDHUP", "HUP", "ERR"}
    BY <1>3, <2>1 DEF Reported
  <2>3. ~armed'[f]
    BY <1>3, <1>4, <2>1
  <2>4. fdTable[f] \in Conn
    BY <2>2, Owners
  <2>5. peer[fdTable[f]] = "up"
    BY <2>1, <2>2 DEF SocketEvents, Event
  <2>6. "IN" \in batch'[f] => rx[fdTable[f]] > 0
    BY <2>2, <2>5 DEF SocketEvents
  <2>7. "IN" \notin batch'[f] => interest[f] = "OUT"
    BY <2>1, <2>2
  <2>8. ~oneshot[f] => awaits[fdTable[f]]
    <3>1. interest[f] # None
      BY <2>2 DEF OwnInv, UnknownSilent
    <3>2. interest[f] # "OUT" => "IN" \in batch'[f]
      BY <2>7
    <3>3. ~oneshot[f] => interest[f] = "IN" /\ (rx[fdTable[f]] > 0 => awaits[fdTable[f]])
      BY <2>2, <3>1 DEF FirstInv
    <3> QED
      BY <2>6, <3>2, <3>3
  <2> QED
    BY <2>2, <2>3, <2>4, <2>5, <2>6, <2>7, <2>8
<1>6. ASSUME NEW f \in Fd, GoneEvent(f)'
      PROVE  peer[fdTable[f]] # "up"
  BY <1>3, <1>6 DEF GoneEvent, Reported, SocketEvents
<1>7. SoleTask'
  BY <1>1, <1>2 DEF SoleTask
<1>8. TokenInv'
  <2> SUFFICES ASSUME NEW f \in Fd, conn_manager_[f] # None
               PROVE  /\ DataEvent(f)' => ~Active(conn_manager_[f])'
                      /\ DataEvent(f)' \/ Active(conn_manager_[f])' =>
                           /\ armed'[f] => ~oneshot[f] /\ peer[conn_manager_[f]] # "up"
                           /\ ~oneshot[f] => awaits[conn_manager_[f]]
    BY <1>1 DEF TokenInv, Silent
  <2>1. PICK c \in Conn : c = conn_manager_[f] /\ c = fdTable[f]
    BY Owners
  <2>2. Active(c) => Silent(f) /\ (~oneshot[f] => awaits[c])
    BY <2>1 DEF TokenInv
  <2>3. DataEvent(f)' => ~Active(c)
    BY <1>5, <2>1, <2>2 DEF Silent
  <2>4. armed'[f] => armed[f]
    BY <1>4
  <2> QED
    BY <1>1, <1>2, <1>5, <2>1, <2>2, <2>3, <2>4 DEF Silent
<1>9. StaleInv'
  <2>1. ASSUME NEW f \in Fd, DataEvent(f)'
        PROVE  conn_manager_[f] # None
    BY <1>5, <2>1, EpollNekoAssumption DEF StaleInv
  <2>2. ASSUME NEW f \in Fd, fdTable[f] # None, conn_manager_[f] = None, peer[fdTable[f]] = "up"
        PROVE  /\ ~armed'[f] /\ oneshot[f]
               /\ running # None /\ running.conn = fdTable[f] /\ step = "release"
               /\ state_[fdTable[f]] # "kStart"
    BY <1>4, <2>2 DEF StaleInv
  <2>3. \A f \in Fd : GoneEvent(f)' /\ conn_manager_[f] # None => peer[conn_manager_[f]] # "up"
    BY <1>6, Owners
  <2> QED
    BY <1>1, <2>1, <2>2, <2>3 DEF StaleInv
<1>10. FirstInv'
  BY <1>1 DEF FirstInv
<1>11. OpInv'
  <2>1. ASSUME NEW f \in Fd, DataEvent(f)'
        PROVE  Fits(IF "IN" \in batch[f] THEN "read" ELSE "write", conn_manager_[f])'
    <3>1. PICK c \in Conn : c = conn_manager_[f] /\ c = fdTable[f] /\ fd_[c] = f
      BY <1>5, <2>1, EpollNekoAssumption, Owners DEF StaleInv
    <3>2. CASE "IN" \in batch'[f]
      BY <1>1, <1>5, <2>1, <3>1, <3>2 DEF Fits
    <3>3. CASE "IN" \notin batch'[f]
      <4>1. oneshot[f]
        BY <1>5, <2>1, <3>3, EpollNekoAssumption DEF FirstInv
      <4> QED
        BY <1>1, <3>1, <3>3, <4>1 DEF Fits
    <3> QED
      BY <3>2, <3>3
  <2> QED
    BY <1>1, <2>1 DEF OpInv, Fits
<1>12. CloseInv'
  BY <1>1, <1>2 DEF CloseInv, Leaving
<1>13. ParserInv'
  BY <1>1 DEF ParserInv
<1> QED
  BY <1>7, <1>8, <1>9, <1>10, <1>11, <1>12, <1>13

(* A data event becomes a task: the token goes from channelList to it.     *)
LEMMA LookupPolite ==
  ASSUME PoliteInv, NEW e \in Fd, HandleLookup(e)
  PROVE  Polite'
<1> USE DEF PoliteInv, Polite
<1>1. /\ local = None
      /\ DataEvent(e)
      /\ conn_manager_[e] # None
      /\ local' = [op |-> IF "IN" \in batch[e] THEN "read" ELSE "write",
                   conn |-> conn_manager_[e]]
      /\ batch' = [batch EXCEPT ![e] = {}]
      /\ MapAccess
      /\ UNCHANGED <<phase, rx, awaits, peer, fdTable, interest, oneshot, armed, conn_manager_,
                     taskQueue_, running, step, fd_, state_, ctx>>
  BY DEF HandleLookup, Handled, kernelVars, poolVars, connVars
<1>2. PICK c \in Conn : /\ c = conn_manager_[e]
                        /\ c = fdTable[e]
                        /\ fd_[c] = e
                        /\ \A f \in Fd : conn_manager_[f] = c => f = e
  BY <1>1, Owners, EpollNekoAssumption
<1>3. local' # None /\ local'.conn = c
  BY <1>1, <1>2, HylChanAssumption DEF Task
<1>4. ~Active(c) /\ Silent(e) /\ (~oneshot[e] => awaits[c])
  BY <1>1, <1>2 DEF TokenInv
<1>5. \A d \in Conn :
        /\ Local(d)' <=> d = c
        /\ ~Local(d)
        /\ Queued(d)' <=> Queued(d)
        /\ Runs(d)' <=> Runs(d)
        /\ Active(d)' <=> Active(d) \/ d = c
        /\ Carried(d)' <=> Carried(d) \/ d = c
        /\ Registered(d)' <=> Registered(d)
  BY <1>1, <1>3 DEF Local, Queued, Runs, Active, Carried, Registered
<1>6. Registered(c)
  BY <1>2 DEF Registered
<1>7. /\ batch'[e] = {}
      /\ \A f \in Fd : f # e => batch'[f] = batch[f]
  BY <1>1 DEF OwnInv, TypeInv, TypeOK, Source
<1>8. \A f \in Fd :
        /\ DataEvent(f)' <=> DataEvent(f) /\ f # e
        /\ GoneEvent(f)' => GoneEvent(f) /\ f # e
  BY <1>7 DEF DataEvent, GoneEvent
<1>9. SoleTask'
  BY <1>1, <1>4, <1>5 DEF SoleTask, Active
<1>10. TokenInv'
  <2> SUFFICES ASSUME NEW f \in Fd, conn_manager_[f] # None
               PROVE  /\ DataEvent(f)' => ~Active(conn_manager_[f])'
                      /\ DataEvent(f)' \/ Active(conn_manager_[f])' =>
                           /\ armed[f] => ~oneshot[f] /\ peer[conn_manager_[f]] # "up"
                           /\ ~oneshot[f] => awaits[conn_manager_[f]]
    BY <1>1 DEF TokenInv, Silent
  <2>1. PICK d \in Conn : d = conn_manager_[f]
    BY Owners
  <2>2. CASE f = e
    BY <1>1, <1>2, <1>4, <1>8, <2>2 DEF Silent
  <2>3. CASE f # e
    <3>1. d # c
      BY <1>2, <2>1, <2>3
    <3> QED
      BY <1>1, <1>5, <1>8, <2>1, <2>3, <3>1 DEF TokenInv, Silent
  <2> QED
    BY <2>2, <2>3
<1>11. StaleInv'
  <2>1. ASSUME NEW f \in Fd, GoneEvent(f)', conn_manager_[f] # None, peer[conn_manager_[f]] = "up"
        PROVE  ~Carried(conn_manager_[f])'
    BY <1>1, <1>2, <1>5, <1>8, <2>1, Owners DEF StaleInv
  <2> QED
    BY <1>1, <1>8, <2>1 DEF StaleInv
<1>12. FirstInv'
  BY <1>1 DEF FirstInv
<1>13. OpInv'
  <2>1. ASSUME NEW f \in Fd, DataEvent(f)'
        PROVE  Fits(IF "IN" \in batch[f] THEN "read" ELSE "write", conn_manager_[f])'
    BY <1>1, <1>7, <1>8, <2>1 DEF OpInv, Fits
  <2>2. Fits(local.op, local.conn)'
    BY <1>1 DEF OpInv, Fits
  <2> QED
    BY <1>1, <2>1, <2>2 DEF OpInv, Fits
<1>14. CloseInv'
  <2>1. ASSUME NEW d \in Conn, Held(d)', state_[d] # "kStart"
        PROVE  Leaving(d)'
    <3>1. Held(d)
      BY <1>5, <1>6, <2>1 DEF Held
    <3>2. Leaving(d)
      BY <2>1, <3>1 DEF CloseInv
    <3>3. d # c
      BY <1>4, <1>6, <3>2 DEF Leaving, Active, Runs
    <3> QED
      BY <1>1, <1>5, <3>2, <3>3 DEF Leaving
  <2> QED
    BY <1>1, <2>1 DEF CloseInv
<1>15. ParserInv'
  BY <1>1, MapAccessAborts DEF ParserInv
<1> QED
  BY <1>9, <1>10, <1>11, <1>12, <1>13, <1>14, <1>15

(* A new connection is armed, and has neither events nor tasks, even when  *)
(* its descriptor still has a hang-up of the former one.                   *)
LEMMA AcceptPolite ==
  ASSUME PoliteInv, NEW e \in Fd, NEW c \in Conn, Accept(c, e)
  PROVE  Polite'
<1> USE DEF PoliteInv, Polite
<1>1. phase[c] = "backlog" /\ fdTable[e] = None /\ conn_manager_[e] = None
  BY EpollNekoAssumption DEF Accept, OwnInv, TypeInv, TypeOK, DescriptorOwnership
<1>2. /\ conn_manager_' = [conn_manager_ EXCEPT ![e] = c]
      /\ fd_' = [fd_ EXCEPT ![c] = e]
      /\ state_' = [state_ EXCEPT ![c] = "kStart"]
      /\ phase' = [phase EXCEPT ![c] = "accepted"]
      /\ fdTable' = [fdTable EXCEPT ![e] = c]
      /\ \E ok \in BOOLEAN :
           /\ interest' = [interest EXCEPT ![e] = IF ok THEN "IN" ELSE None]
           /\ oneshot' = [oneshot EXCEPT ![e] = FALSE]
           /\ armed' = [armed EXCEPT ![e] = ok]
      /\ batch' = [batch EXCEPT ![Listener] = {}]
      /\ MapAccess
      /\ UNCHANGED <<rx, awaits, peer, local, taskQueue_, running, step, ctx>>
  BY <1>1 DEF Accept, AddListen, AddSocket, Handled, poolVars
<1>3. /\ \A f \in Fd : batch'[f] = batch[f]
      /\ fd_'[c] = e
      /\ phase'[c] = "accepted"
      /\ fdTable'[e] = c
      /\ interest'[e] # None => interest'[e] = "IN"
      /\ ~oneshot'[e]
      /\ conn_manager_'[e] = c
      /\ state_'[c] = "kStart"
  BY <1>2, HylChanAssumption DEF OwnInv, TypeInv, TypeOK, KernelTypeOK, Source
<1>4. \A f \in Fd : f # e =>
        /\ fdTable'[f] = fdTable[f]
        /\ interest'[f] = interest[f]
        /\ oneshot'[f] = oneshot[f]
        /\ armed'[f] = armed[f]
        /\ conn_manager_'[f] = conn_manager_[f]
  BY <1>2 DEF OwnInv, TypeInv, TypeOK, KernelTypeOK
<1>5. \A d \in Conn : d # c =>
        /\ phase'[d] = phase[d]
        /\ fd_'[d] = fd_[d]
        /\ state_'[d] = state_[d]
  BY <1>2 DEF OwnInv, TypeInv, TypeOK, KernelTypeOK
<1>6. ~Held(c) /\ (\A f \in Fd : fdTable[f] # c /\ conn_manager_[f] # c)
  BY <1>1, Owners, EpollNekoAssumption
<1>7. \A d \in Conn :
        /\ Local(d)' <=> Local(d)
        /\ Queued(d)' <=> Queued(d)
        /\ Runs(d)' <=> Runs(d)
        /\ Active(d)' <=> Active(d)
        /\ Carried(d)' <=> Carried(d)
        /\ d # c => (Registered(d)' <=> Registered(d))
  BY <1>1, <1>2, <1>3, <1>4, EpollNekoAssumption
     DEF Local, Queued, Runs, Active, Carried, Registered
<1>8. ~Active(c) /\ ~Carried(c)
  BY <1>6, Owners DEF Held
<1>9. \A f \in Fd :
        /\ DataEvent(f)' <=> DataEvent(f)
        /\ GoneEvent(f)' <=> GoneEvent(f)
  BY <1>3 DEF DataEvent, GoneEvent
<1>10. ~DataEvent(e)
  BY <1>1 DEF StaleInv
<1>11. \A d \in Conn : Held(d) => fd_[d] \in Fd \ {e} /\ d # c
  BY <1>1, <1>6, Owners, EpollNekoAssumption
<1>12. SoleTask'
  BY <1>2, <1>7 DEF SoleTask
<1>13. TokenInv'
  <2> SUFFICES ASSUME NEW f \in Fd, conn_manager_'[f] # None
               PROVE  /\ DataEvent(f)' => ~Active(conn_manager_[f])'
                      /\ DataEvent(f)' \/ Active(conn_manager_[f])' =>
                           /\ armed'[f] => ~oneshot'[f] /\ peer[conn_manager_'[f]] # "up"
                           /\ ~oneshot'[f] => awaits[conn_manager_'[f]]
    BY <1>2 DEF TokenInv, Silent
  <2>1. CASE f = e
    BY <1>3, <1>7, <1>8, <1>9, <1>10, <2>1
  <2>2. CASE f # e
    BY <1>4, <1>7, <1>9, <2>2, Owners DEF TokenInv, Silent
  <2> QED
    BY <2>1, <2>2
<1>14. StaleInv'
  <2>1. ASSUME NEW f \in Fd, DataEvent(f)'
        PROVE  conn_manager_'[f] # None
    BY <1>4, <1>9, <1>10, <2>1 DEF StaleInv
  <2>2. ASSUME NEW f \in Fd, fdTable'[f] # None, conn_manager_'[f] = None, peer[fdTable'[f]] = "up"
        PROVE  /\ ~armed'[f] /\ oneshot'[f]
               /\ running # None /\ running.conn = fdTable'[f] /\ step = "release"
               /\ state_'[fdTable'[f]] # "kStart"
    <3>1. f # e
      BY <1>3, <2>2, EpollNekoAssumption
    <3> QED
      BY <1>4, <1>5, <1>6, <2>2, <3>1, Owners DEF StaleInv
  <2>3. ASSUME NEW f \in Fd, GoneEvent(f)', conn_manager_'[f] # None,
               peer[conn_manager_'[f]] = "up"
        PROVE  ~Carried(conn_manager_[f])'
    <3>1. CASE f = e
      BY <1>3, <1>7, <1>8, <3>1
    <3>2. CASE f # e
      BY <1>4, <1>7, <1>9, <2>3, <3>2, Owners DEF StaleInv
    <3> QED
      BY <3>1, <3>2
  <2> QED
    BY <1>2, <2>1, <2>2, <2>3 DEF StaleInv
<1>15. FirstInv'
  <2>1. ASSUME NEW d \in Conn, phase'[d] \in {"new", "backlog"}, rx[d] > 0
        PROVE  awaits[d]
    BY <1>3, <1>5, <2>1 DEF FirstInv
  <2>2. ASSUME NEW f \in Fd, fdTable'[f] # None, ~oneshot'[f]
        PROVE  /\ interest'[f] # None => interest'[f] = "IN"
              /\ (rx[fdTable'[f]] > 0 => awaits[fdTable'[f]])
    BY <1>1, <1>3, <1>4, <2>2 DEF FirstInv
  <2> QED
    BY <1>2, <2>1, <2>2 DEF FirstInv
<1>16. OpInv'
  <2>1. \A op \in {"read", "write"} : \A d \in Conn :
          Held(d) /\ Fits(op, d) => Fits(op, d)'
    BY <1>2, <1>4, <1>5, <1>11 DEF Fits
  <2>2. ASSUME NEW f \in Fd, DataEvent(f)'
        PROVE  Fits(IF "IN" \in batch[f] THEN "read" ELSE "write", conn_manager_[f])'
    <3>1. /\ f # e
          /\ DataEvent(f)
          /\ conn_manager_'[f] = conn_manager_[f]
          /\ conn_manager_[f] \in Conn
          /\ batch'[f] = batch[f]
      BY <1>3, <1>4, <1>9, <1>10, <2>2, Owners DEF StaleInv
    <3>2. Held(conn_manager_[f])
      BY <3>1 DEF Held, Registered
    <3>3. Fits(IF "IN" \in batch[f] THEN "read" ELSE "write", conn_manager_[f])
      BY <3>1 DEF OpInv
    <3> QED
      BY <2>1, <3>1, <3>2, <3>3
  <2>3. local' # None => Fits(local.op, local.conn)'
    BY <1>2, <2>1, Owners DEF OpInv, Task, Active
  <2>4. \A i \in DOMAIN taskQueue_' : Fits(taskQueue_[i].op, taskQueue_[i].conn)'
    BY <1>2, <2>1, Owners DEF OpInv, Task, Active
  <2>5. running' # None /\ (step' = "start" \/ running'.op = "write")
          => Fits(running.op, running.conn)'
    BY <1>2, <2>1, Owners DEF OpInv, Task, Held, Carried
  <2> QED
    BY <1>2, <2>2, <2>3, <2>4, <2>5 DEF OpInv
<1>17. CloseInv'
  <2>1. ASSUME NEW d \in Conn, Held(d)', state_'[d] # "kStart"
        PROVE  Leaving(d)'
    <3>1. d # c /\ state_[d] # "kStart"
      BY <1>3, <1>5, <2>1
    <3>2. Held(d)
      BY <1>7, <2>1, <3>1 DEF Held
    <3> QED
      BY <1>2, <1>7, <3>1, <3>2 DEF CloseInv, Leaving
  <2>2. step' \in {"erase", "erasing"} => state_'[running'.conn] # "kStart"
    BY <1>2, <1>5, <1>11, Running DEF CloseInv
  <2> QED
    BY <2>1, <2>2 DEF CloseInv
<1>18. ParserInv'
  BY <1>2, MapAccessAborts DEF ParserInv
<1> QED
  BY <1>12, <1>13, <1>14, <1>15, <1>16, <1>17, <1>18

-----------------------------------------------------------------------------
(* The clients.                                                            *)

(* A request, or the client's end, is an edge: it arms descriptors that    *)
(* are not EPOLLONESHOT.                                                   *)
LEMMA EdgeArms ==
  ASSUME OwnInv, NEW c \in Conn, Edge(c), NEW f \in Fd, oneshot[f] \/ fdTable[f] # c
  PROVE  armed'[f] = armed[f]
BY DEF Edge, OwnInv, TypeInv, TypeOK, KernelTypeOK

(* The client waits for the last response while a task has the token, and  *)
(* sends nothing as long as the first registration stands.                 *)
LEMMA RequestPolite ==
  ASSUME ~Pipelining, PoliteInv, NEW c \in Conn, SendRequest(c),
         UNCHANGED <<batch, conn_manager_, local, taskQueue_, running, step, fd_, state_, ctx,
                     halted>>
  PROVE  Polite'
<1> USE DEF PoliteInv, Polite
<1>1. /\ peer[c] = "up"
      /\ ~awaits[c]
      /\ rx' = [rx EXCEPT ![c] = rx[c] + 1]
      /\ awaits' = [awaits EXCEPT ![c] = TRUE]
      /\ Edge(c)
      /\ UNCHANGED <<phase, peer, fdTable, interest, oneshot>>
  BY DEF SendRequest, Connected
<1>2. /\ awaits'[c]
      /\ \A d \in Conn : d # c => awaits'[d] = awaits[d] /\ rx'[d] = rx[d]
      /\ \A d \in Conn : rx[d] > 0 => rx'[d] > 0
  BY <1>1 DEF OwnInv, TypeInv, TypeOK, KernelTypeOK
<1>3. \A d \in Conn :
        /\ Local(d)' <=> Local(d)
        /\ Queued(d)' <=> Queued(d)
        /\ Runs(d)' <=> Runs(d)
        /\ Active(d)' <=> Active(d)
        /\ Carried(d)' <=> Carried(d)
        /\ Registered(d)' <=> Registered(d)
        /\ Held(d)' <=> Held(d)
  BY DEF Local, Queued, Runs, Active, Carried, Registered, Held
<1>4. \A f \in Fd :
        /\ DataEvent(f)' <=> DataEvent(f)
        /\ GoneEvent(f)' <=> GoneEvent(f)
  BY DEF DataEvent, GoneEvent
<1>5. SoleTask'
  BY <1>3 DEF SoleTask
<1>6. TokenInv'
  <2> SUFFICES ASSUME NEW f \in Fd, conn_manager_[f] # None
               PROVE  /\ DataEvent(f)' => ~Active(conn_manager_[f])'
                      /\ DataEvent(f)' \/ Active(conn_manager_[f])' =>
                           /\ armed'[f] => ~oneshot[f] /\ peer[conn_manager_[f]] # "up"
                           /\ ~oneshot[f] => awaits'[conn_manager_[f]]
    BY <1>1 DEF TokenInv, Silent
  <2>1. PICK d \in Conn : d = conn_manager_[f] /\ d = fdTable[f]
    BY Owners
  <2>2. CASE DataEvent(f) \/ Active(d)
    <3>1. armed'[f] = armed[f]
      BY <1>1, <2>1, <2>2, EdgeArms DEF TokenInv
    <3>2. awaits[d] => awaits'[d]
      BY <1>2
    <3> QED
      BY <1>3, <1>4, <2>1, <2>2, <3>1, <3>2 DEF TokenInv, Silent
  <2>3. CASE ~DataEvent(f) /\ ~Active(d)
    BY <1>3, <1>4, <2>1, <2>3
  <2> QED
    BY <2>2, <2>3
<1>7. StaleInv'
  <2>1. ASSUME NEW f \in Fd, fdTable[f] # None, conn_manager_[f] = None, peer[fdTable[f]] = "up"
        PROVE  /\ ~armed'[f] /\ oneshot[f]
               /\ running # None /\ running.conn = fdTable[f] /\ step = "release"
               /\ state_[fdTable[f]] # "kStart"
    <3>1. armed'[f] = armed[f]
      BY <1>1, <2>1, EdgeArms DEF StaleInv
    <3> QED
      BY <2>1, <3>1 DEF StaleInv
  <2> QED
    BY <1>1, <1>3, <1>4, <2>1, Owners DEF StaleInv
<1>8. FirstInv'
  BY <1>1, <1>2, Owners DEF FirstInv
<1>9. OpInv'
  <2>1. \A op \in {"read", "write"} : \A d \in Conn : Fits(op, d) => Fits(op, d)'
    BY <1>1, <1>2 DEF Fits
  <2>2. ASSUME NEW f \in Fd, DataEvent(f)'
        PROVE  Fits(IF "IN" \in batch[f] THEN "read" ELSE "write", conn_manager_[f])'
    <3>1. DataEvent(f) /\ conn_manager_[f] \in Conn
      BY <1>4, <2>2, Owners DEF StaleInv
    <3> QED
      BY <2>1, <3>1 DEF OpInv
  <2>3. local' # None => Fits(local.op, local.conn)'
    BY <2>1, Owners DEF OpInv, Task
  <2>4. \A i \in DOMAIN taskQueue_' : Fits(taskQueue_[i].op, taskQueue_[i].conn)'
    BY <2>1, Owners DEF OpInv, Task
  <2>5. running' # None /\ (step' = "start" \/ running'.op = "write")
          => Fits(running.op, running.conn)'
    BY <2>1, Owners DEF OpInv, Task
  <2> QED
    BY <2>2, <2>3, <2>4, <2>5 DEF OpInv
<1>10. CloseInv'
  BY <1>3 DEF CloseInv, Leaving
<1>11. ParserInv'
  BY DEF ParserInv
<1> QED
  BY <1>5, <1>6, <1>7, <1>8, <1>9, <1>10, <1>11

LEMMA LeavePolite ==
  ASSUME PoliteInv, NEW c \in Conn, NEW how \in {"fin", "rst"}, Leave(c, how),
         UNCHANGED <<batch, conn_manager_, local, taskQueue_, running, step, fd_, state_, ctx,
                     halted>>
  PROVE  Polite'
<1> USE DEF PoliteInv, Polite
<1>1. /\ peer[c] = "up"
      /\ peer' = [peer EXCEPT ![c] = how]
      /\ Edge(c)
      /\ UNCHANGED <<phase, rx, awaits, fdTable, interest, oneshot>>
  BY DEF Leave, Connected
<1>2. /\ peer'[c] # "up"
      /\ \A d \in Conn : d # c => peer'[d] = peer[d]
  BY <1>1 DEF OwnInv, TypeInv, TypeOK, KernelTypeOK
<1>3. \A d \in Conn :
        /\ Local(d)' <=> Local(d)
        /\ Queued(d)' <=> Queued(d)
        /\ Runs(d)' <=> Runs(d)
        /\ Active(d)' <=> Active(d)
        /\ Carried(d)' <=> Carried(d)
        /\ Registered(d)' <=> Registered(d)
        /\ Held(d)' <=> Held(d)
  BY DEF Local, Queued, Runs, Active, Carried, Registered, Held
<1>4. \A f \in Fd :
        /\ DataEvent(f)' <=> DataEvent(f)
        /\ GoneEvent(f)' <=> GoneEvent(f)
  BY DEF DataEvent, GoneEvent
<1>5. SoleTask'
  BY <1>3 DEF SoleTask
<1>6. TokenInv'
  <2> SUFFICES ASSUME NEW f \in Fd, conn_manager_[f] # None
               PROVE  /\ DataEvent(f)' => ~Active(conn_manager_[f])'
                      /\ DataEvent(f)' \/ Active(conn_manager_[f])' =>
                           /\ armed'[f] => ~oneshot[f] /\ peer'[conn_manager_[f]] # "up"
                           /\ ~oneshot[f] => awaits[conn_manager_[f]]
    BY <1>1 DEF TokenInv, Silent
  <2>1. PICK d \in Conn : d = conn_manager_[f] /\ d = fdTable[f]
    BY Owners
  <2>2. CASE oneshot[f] \/ d # c
    <3>1. armed'[f] = armed[f]
      BY <1>1, <2>1, <2>2, EdgeArms
    <3> QED
      BY <1>2, <1>3, <1>4, <2>1, <3>1 DEF TokenInv, Silent
  <2>3. CASE ~oneshot[f] /\ d = c
    BY <1>2, <1>3, <1>4, <2>1, <2>3 DEF TokenInv
  <2> QED
    BY <2>2, <2>3
<1>7. StaleInv'
  <2>1. ASSUME NEW f \in Fd, fdTable[f] # None, conn_manager_[f] = None, peer'[fdTable[f]] = "up"
        PROVE  /\ ~armed'[f] /\ oneshot[f]
               /\ running # None /\ running.conn = fdTable[f] /\ step = "release"
               /\ state_[fdTable[f]] # "kStart"
    <3>1. fdTable[f] # c
      BY <1>2, <2>1
    <3>2. armed'[f] = armed[f]
      BY <1>1, <3>1, EdgeArms
    <3>3. peer[fdTable[f]] = "up"
      BY <1>2, <2>1, <3>1, Owners
    <3> QED
      BY <2>1, <3>2, <3>3 DEF StaleInv
  <2>2. ASSUME NEW f \in Fd, GoneEvent(f)', conn_manager_[f] # None, peer'[conn_manager_[f]] = "up"
        PROVE  ~Carried(conn_manager_[f])'
    BY <1>2, <1>3, <1>4, <2>2, Owners DEF StaleInv
  <2> QED
    BY <1>1, <1>4, <2>1, <2>2 DEF StaleInv
<1>8. FirstInv'
  BY <1>1 DEF FirstInv
<1>9. OpInv'
  BY <1>1, <1>4 DEF OpInv, Fits
<1>10. CloseInv'
  BY <1>3 DEF CloseInv, Leaving
<1>11. ParserInv'
  BY DEF ParserInv
<1> QED
  BY <1>5, <1>6, <1>7, <1>8, <1>9, <1>10, <1>11

-----------------------------------------------------------------------------
(* The theorems.                                                           *)

LEMMA ReactorPolite ==
  ASSUME PoliteInv, Reactor
  PROVE  Polite'
<1>1. CASE \E f \in Fd : \/ HandleHup(f) \/ HandleRdHup(f) \/ HandleMissing(f) \/ HandleLookup(f)
                        \/ \E c \in Conn : Accept(c, f)
  BY <1>1, NeverMissing, HangUpPolite, LookupPolite, AcceptPolite
<1> QED
  BY <1>1, WaitPolite, ListenerPolite, EnqueuePolite, RejectedPolite DEF Reactor

LEMMA WorkerPolite ==
  ASSUME PoliteInv, Worker
  PROVE  Polite'
<1>1. CASE \E c \in Conn : AssertFails(c) \/ Read(c) \/ Write(c)
  <2>1. PICK c \in Conn : AssertFails(c) \/ Read(c) \/ Write(c)
    BY <1>1
  <2>2. CASE Read(c)
    <3>1. PICK r \in Request : ReadRequest(c, r.kind, r.close)
      BY <2>2, NeverTaken DEF Read
    <3>2. r.kind \in Kind /\ r.close \in BOOLEAN
      BY HylChanAssumption
    <3> QED
      BY <3>1, <3>2, InsideRead
  <2>3. CASE Write(c)
    BY <2>3, InsideWrite, NoBodyPolite, ShutdownPolite DEF Write
  <2> QED
    BY <2>1, <2>2, <2>3, NeverTaken
<1> QED
  BY <1>1, BeginPolite, InsideErase, ErasePolite, ReleasePolite, RearmPolite DEF Worker

LEMMA ClientPolite ==
  ASSUME ~Pipelining, PoliteInv, Clients
  PROVE  Polite'
<1>1. PICK c \in Conn : Client(c)
  BY DEF Clients
<1>2. UNCHANGED <<batch, conn_manager_, local, taskQueue_, running, step, fd_, state_, ctx, halted>>
  BY DEF Clients, serverVars, reactorVars, poolVars, connVars
<1>3. CASE Connect(c) \/ Drain(c)
  <2>1. /\ UNCHANGED <<rx, awaits, peer, fdTable, interest, oneshot, armed>>
        /\ \A d \in Conn : phase'[d] \in {"new", "backlog"} => phase[d] \in {"new", "backlog"}
    BY <1>3 DEF Connect, Drain, PoliteInv, OwnInv, TypeInv, TypeOK, KernelTypeOK
  <2>2. halted' # "assert"
    BY <1>2 DEF PoliteInv, Polite, ParserInv
  <2> QED
    BY <1>2, <2>1, <2>2, Undisturbed
<1>4. \A how \in Departure : how \in {"fin", "rst"}
  BY EpollNekoAssumption
<1> QED
  BY <1>1, <1>2, <1>3, <1>4, RequestPolite, LeavePolite DEF Client

LEMMA PoliteStep ==
  ASSUME ~Pipelining, PoliteInv, [Next]_vars
  PROVE  PoliteInv'
<1>1. OwnInv'
  BY OwnStep DEF PoliteInv
<1>2. CASE Next
  BY <1>1, <1>2, ReactorPolite, WorkerPolite, ClientPolite DEF Next, PoliteInv
<1>3. CASE UNCHANGED vars
  <2>1. halted' # "assert"
    BY <1>3 DEF vars, serverVars, PoliteInv, Polite, ParserInv
  <2>2. Polite'
    BY <1>3, <2>1, Undisturbed
       DEF vars, kernelVars, serverVars, reactorVars, poolVars, connVars
  <2> QED
    BY <1>1, <2>2 DEF PoliteInv
<1> QED
  BY <1>2, <1>3

THEOREM PoliteInvariance ==
  ASSUME ~Pipelining
  PROVE  SafetySpec => []PoliteInv
BY PoliteInit, PoliteStep, PTL DEF SafetySpec

(* Between the copy the reactor is about to enqueue, the queue and the     *)
(* worker there is at most one task per connection.                        *)
LEMMA SoleTaskCounts == TypeInv /\ SoleTask => OneTaskPerConnection
<1> SUFFICES ASSUME TypeInv, SoleTask, NEW c \in Conn
             PROVE  Tasks(c) <= 1
  BY DEF OneTaskPerConnection
<1> DEFINE mine == {i \in DOMAIN taskQueue_ : taskQueue_[i].conn = c}
<1>1. CASE Queued(c)
  <2>1. PICK i \in DOMAIN taskQueue_ : taskQueue_[i].conn = c
    BY <1>1 DEF Queued
  <2>2. mine = {i}
    BY <2>1 DEF SoleTask
  <2>3. Cardinality(mine) = 1
    BY <2>2, FS_Singleton
  <2>4. ~Local(c) /\ ~Runs(c)
    BY <1>1 DEF SoleTask
  <2> QED
    BY <2>3, <2>4 DEF Tasks, Local, Runs
<1>2. CASE ~Queued(c)
  <2>1. mine = {}
    BY <1>2 DEF Queued
  <2>2. Cardinality(mine) = 0
    BY <2>1, FS_EmptySet
  <2>3. ~(Local(c) /\ Runs(c))
    BY DEF SoleTask
  <2> QED
    BY <2>2, <2>3 DEF Tasks, Local, Runs
<1> QED
  BY <1>1, <1>2

(* As long as no client sends a request before it has the answer to the    *)
(* last one, the re-arming protocol of HylChan.cpp:43, 90, 97, 102 and 109 *)
(* never lets two tasks use the buffers of one connection.                 *)
THEOREM PoliteHasOneTask ==
  ASSUME ~Pipelining
  PROVE  SafetySpec => []OneTaskPerConnection
<1>1. PoliteInv => OneTaskPerConnection
  BY SoleTaskCounts DEF PoliteInv, Polite, OwnInv
<1> QED
  BY <1>1, PoliteInvariance, PTL

(* With such clients no task starts on a connection that was shut down,    *)
(* whenever the shutdown happens: the assertions of HylChan.cpp:86 and 94. *)
THEOREM PoliteAssertionsHold ==
  ASSUME ~Pipelining
  PROVE  SafetySpec => []AssertionsHold
<1>1. PoliteInv => AssertionsHold
  BY DEF PoliteInv, Polite, ParserInv, AssertionsHold
<1> QED
  BY <1>1, PoliteInvariance, PTL

(* With such clients no worker loops in HttpContext.cpp:55-57 while it has *)
(* the mutex: a read always finds the request it was started for.          *)
THEOREM PoliteNeverSpins ==
  ASSUME ~Pipelining
  PROVE  SafetySpec => []NeverSpins
<1>1. PoliteInv => NeverSpins
  BY DEF PoliteInv, Polite, ParserInv, NeverSpins
<1> QED
  BY <1>1, PoliteInvariance, PTL

=============================================================================
