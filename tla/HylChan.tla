------------------------------ MODULE HylChan -------------------------------
(***************************************************************************)
(* The server: hy0chan/HylChan.cpp with HttpServer.cpp and the parts of    *)
(* HttpConn.cpp and Filer.{h,cpp} that decide what happens to a connection *)
(* next.  One reactor thread waits for events, accepts connections, and    *)
(* hands reads and writes to the pool (module SerialExecutor, implemented  *)
(* by ThreadPoll); the pool's workers read requests, write responses and   *)
(* re-arm the descriptor in epoll (module EpollNeko).                      *)
(*                                                                         *)
(* Reactor and workers share conn_manager_ without a lock.  A worker's     *)
(* erase takes two steps, and an access by the reactor between them is a   *)
(* data race, after which anything may happen: the model then may stop.    *)
(*                                                                         *)
(* A request is one unit of data.  Requests are complete and have no body. *)
(***************************************************************************)
EXTENDS EpollNeko

CONSTANTS
  Listener,        \* the listening socket
  Request,         \* the requests that clients send, as the server sees them
  maxTasks_,       \* capacity of the pool's queue
  MaxConnections   \* params.getMaxConnections()

(* A lambda of HylChan::loop with the shared_ptr it has captured.          *)
Task == [op : {"read", "write"}, conn : Conn]

(* A request leads to a file, an empty file, a page without a file, or 400 *)
(* ("bad"), and asks for the end of the connection or not.                 *)
Kind == {"file", "empty", "page", "bad"}

ASSUME HylChanAssumption ==
  /\ Listener \notin Fd
  /\ None \notin Task \cup Fd
  /\ Request \subseteq [kind : Kind, close : BOOLEAN]
  /\ maxTasks_ \in Nat
  /\ MaxConnections \in Nat

VARIABLES
  conn_manager_,  \* the connection object under each descriptor, or None
  conn_count,     \* number of accepted connections, as the server counts
  batch,          \* channelList: the events still to be handled
  local,          \* the task the reactor is about to enqueue, or None
  taskQueue_,     \* the pool's queue
  running,        \* the task a worker executes, or None
  step,           \* where in the task that worker is
  fd_,            \* client_sk_->fd() of each connection object
  state_,         \* HttpConn's state_: "kNone", "kClose", "kStart"
  rbuf,           \* complete requests in readBuffer_
  ctx,            \* the parser: "kExpectRequestLine" or "kGotAll"
  out,            \* is there anything in writeBuffer_?
  filer,          \* what sendBody sends: "kNone" (no Filer started), "file", "empty"
  closing,        \* response->isCloseConnection()
  dropped,        \* history: was the connection's last task dropped?
  halted          \* "no", "assert" (abort) or "race" (undefined behaviour)

reactorVars == <<conn_manager_, conn_count, batch, local>>
poolVars == <<taskQueue_, running>>
connVars == <<fd_, state_, rbuf, ctx, out, filer, closing>>
serverVars == <<reactorVars, poolVars, step, connVars, dropped, halted>>
vars == <<kernelVars, serverVars>>

Source == Fd \cup {Listener}

Pool == INSTANCE SerialExecutor WITH
          Idle    <- None,
          pending <- taskQueue_,
          active  <- running,
          phase   <- "kStart"

Step == {"idle", "start", "body", "rearmIn", "rearmOut", "shutdown",
         "erase", "erasing", "release", "spin"}

TypeOK ==
  /\ KernelTypeOK
  /\ conn_manager_ \in [Fd -> Conn \cup {None}]
  /\ conn_count \in 0 .. MaxConnections
  /\ batch \in [Source -> SUBSET Event]
  /\ local \in Task \cup {None}
  /\ taskQueue_ \in Seq(Task)
  /\ Len(taskQueue_) <= maxTasks_
  /\ running \in Task \cup {None}
  /\ step \in Step
  /\ fd_ \in [Conn -> Fd \cup {None}]
  /\ state_ \in [Conn -> {"kNone", "kClose", "kStart"}]
  /\ rbuf \in [Conn -> Nat]
  /\ ctx \in [Conn -> {"kExpectRequestLine", "kGotAll"}]
  /\ out \in [Conn -> BOOLEAN]
  /\ filer \in [Conn -> {"kNone", "file", "empty"}]
  /\ closing \in [Conn -> BOOLEAN]
  /\ dropped \in [Conn -> BOOLEAN]
  /\ halted \in {"no", "assert", "race"}

Init ==
  /\ KernelInit
  /\ conn_manager_ = [f \in Fd |-> None]
  /\ conn_count = 0
  /\ batch = [s \in Source |-> {}]
  /\ local = None
  /\ taskQueue_ = <<>>
  /\ running = None
  /\ step = "idle"
  /\ fd_ = [c \in Conn |-> None]
  /\ state_ = [c \in Conn |-> "kNone"]
  /\ rbuf = [c \in Conn |-> 0]
  /\ ctx = [c \in Conn |-> "kExpectRequestLine"]
  /\ out = [c \in Conn |-> FALSE]
  /\ filer = [c \in Conn |-> "kNone"]
  /\ closing = [c \in Conn |-> FALSE]
  /\ dropped = [c \in Conn |-> FALSE]
  /\ halted = "no"

-----------------------------------------------------------------------------
(* Shared pointers.                                                        *)

Queued(c) == \E i \in DOMAIN taskQueue_ : taskQueue_[i].conn = c
Registered(c) == \E f \in Fd : conn_manager_[f] = c

(* The reactor or a worker has a task with a shared_ptr to c.              *)
Carried(c) ==
  \/ local # None /\ local.conn = c
  \/ running # None /\ running.conn = c
  \/ Queued(c)

Held(c) == Registered(c) \/ Carried(c)

(* ~HttpConn and ~Socket close the descriptor of a connection object when  *)
(* the last shared_ptr to it goes away.                                    *)
Destroy(gone) ==
  /\ CloseDescriptors(gone)
  /\ rbuf' = Forget(rbuf, gone, 0)
  /\ ctx' = Forget(ctx, gone, "kExpectRequestLine")
  /\ out' = Forget(out, gone, FALSE)
  /\ filer' = Forget(filer, gone, "kNone")
  /\ closing' = Forget(closing, gone, FALSE)

ReapIgnoringTasks == Destroy({c \in Conn : phase[c] = "accepted" /\ ~Registered(c)'})
Reap == Destroy({c \in Conn : phase[c] = "accepted" /\ ~Held(c)'})

(* An access to conn_manager_ by the reactor thread.                       *)
MapAccess ==
  IF step = "erasing" THEN halted' \in {"no", "race"} ELSE UNCHANGED halted

-----------------------------------------------------------------------------
(* The reactor thread: EpollNeko::poll and the loop over channelList.      *)

Pending(s) ==
  IF s = Listener
    THEN IF \E c \in Conn : phase[c] = "backlog" THEN {"IN"} ELSE {}
    ELSE Reported(s)

LoopDone == local = None /\ \A s \in Source : batch[s] = {}

Handled(s) == batch' = [batch EXCEPT ![s] = {}]

EpollWait ==
  /\ LoopDone
  /\ \E s \in Source : Pending(s) # {}
  /\ batch' = [s \in Source |-> Pending(s)]
  /\ Report
  /\ UNCHANGED <<phase, rx, sent, awaits, peer, room, wshut, fdTable, interest, oneshot,
                 conn_manager_, conn_count, local, poolVars, step, connVars, dropped, halted>>

(* ++conn_count <= params.getMaxConnections()                              *)
BelowLimitOffByOne == conn_count <= MaxConnections
BelowLimit == conn_count < MaxConnections

(* reactor_->addListen: the loop looks at the result and does nothing.     *)
AddListen(f) == \E ok \in BOOLEAN : AddSocket(f, ok)

(* accept_client and addListen.  An existing entry of conn_manager_ stays  *)
(* (emplace), and the new object is destroyed at once.                     *)
Accept(c, f) ==
  LET placed == conn_manager_[f] = None IN
  /\ local = None
  /\ batch[Listener] # {}
  /\ BelowLimit
  /\ phase[c] = "backlog"
  /\ fdTable[f] = None
  /\ conn_count' = conn_count + 1
  /\ conn_manager_' = IF placed THEN [conn_manager_ EXCEPT ![f] = c] ELSE conn_manager_
  /\ fd_' = [fd_ EXCEPT ![c] = f]
  /\ state_' = [state_ EXCEPT ![c] = IF placed THEN "kStart" ELSE "kClose"]
  /\ phase' = [phase EXCEPT ![c] = IF placed THEN "accepted" ELSE "closed"]
  /\ fdTable' = IF placed THEN [fdTable EXCEPT ![f] = c] ELSE fdTable
  /\ IF placed THEN AddListen(f) ELSE UNCHANGED <<interest, oneshot, armed>>
  /\ Handled(Listener)
  /\ MapAccess
  /\ UNCHANGED <<rx, sent, awaits, peer, room, wshut, local, poolVars, step,
                 rbuf, ctx, out, filer, closing, dropped>>

(* accept4 fails (no descriptor left, the client has gone again, a signal): *)
(* conn_count stays incremented, and the placeholder under key -1 goes      *)
(* through addListen, which fails.                                          *)
AcceptFails ==
  /\ local = None
  /\ batch[Listener] # {}
  /\ BelowLimit
  /\ conn_count' = conn_count + 1
  /\ Handled(Listener)
  /\ MapAccess
  /\ UNCHANGED <<kernelVars, conn_manager_, local, poolVars, step, connVars, dropped>>

(* The limit is reached: the placeholder again, and nothing is accepted.   *)
Refuse ==
  /\ local = None
  /\ batch[Listener] # {}
  /\ ~BelowLimit
  /\ Handled(Listener)
  /\ MapAccess
  /\ UNCHANGED <<kernelVars, conn_manager_, conn_count, local, poolVars, step, connVars, dropped>>

EraseNothing(f) == UNCHANGED conn_manager_
Erase(f) == conn_manager_' = [conn_manager_ EXCEPT ![f] = None]

(* channel.isError() || channel.isHup()                                    *)
HandleHup(f) ==
  /\ local = None
  /\ batch[f] \cap {"ERR", "HUP"} # {}
  /\ Erase(f)
  /\ Handled(f)
  /\ MapAccess
  /\ UNCHANGED <<sent, wshut, oneshot, armed, conn_count, local, poolVars, step,
                 fd_, state_, dropped>>
  /\ Reap

(* channel.isRdHup(): erase, and then shutdown of whatever is open as f.   *)
HandleRdHup(f) ==
  /\ local = None
  /\ batch[f] \cap {"ERR", "HUP"} = {}
  /\ "RDHUP" \in batch[f]
  /\ Erase(f)
  /\ Handled(f)
  /\ MapAccess
  /\ UNCHANGED <<sent, oneshot, conn_count, local, poolVars, step, fd_, state_,
                 dropped>>
  /\ Reap
  /\ IF fdTable'[f] = None
       THEN UNCHANGED <<wshut, armed>>
       ELSE wshut' = [wshut EXCEPT ![fdTable[f]] = TRUE] /\ Edge(fdTable[f])

DataEvent(f) == batch[f] # {} /\ batch[f] \subseteq {"IN", "OUT"}

(* conn_manager_.at throws: continue.                                      *)
HandleMissing(f) ==
  /\ local = None
  /\ DataEvent(f)
  /\ conn_manager_[f] = None
  /\ Handled(f)
  /\ MapAccess
  /\ UNCHANGED <<kernelVars, conn_manager_, conn_count, local, poolVars, step, connVars, dropped>>

HandleLookup(f) ==
  /\ local = None
  /\ DataEvent(f)
  /\ conn_manager_[f] # None
  /\ local' = [op |-> IF "IN" \in batch[f] THEN "read" ELSE "write",
               conn |-> conn_manager_[f]]
  /\ Handled(f)
  /\ MapAccess
  /\ UNCHANGED <<kernelVars, conn_manager_, conn_count, poolVars, step, connVars, dropped>>

(* enqueueTask: the reactor needs the mutex, which the running task holds. *)
Enqueue ==
  /\ local # None
  /\ Pool!Submit(local)
  /\ local' = None
  /\ UNCHANGED <<kernelVars, conn_manager_, conn_count, batch, running, step,
                 connVars, dropped, halted>>

(* A full queue: the caller ignores the result.                            *)
EnqueueRejected ==
  /\ local # None
  /\ running = None
  /\ ~Pool!HasRoom
  /\ local' = None
  /\ dropped' = [dropped EXCEPT ![local.conn] = TRUE]
  /\ UNCHANGED <<sent, wshut, oneshot, armed, conn_manager_, conn_count, batch,
                 poolVars, step, fd_, state_, halted>>
  /\ Reap

Reactor ==
  \/ EpollWait \/ AcceptFails \/ Refuse \/ Enqueue \/ EnqueueRejected
  \/ \E f \in Fd :
       \/ HandleHup(f) \/ HandleRdHup(f) \/ HandleMissing(f) \/ HandleLookup(f)
       \/ \E c \in Conn : Accept(c, f)

-----------------------------------------------------------------------------
(* A worker executing a task: processRead and processWrite.                *)

Begin ==
  /\ step = "idle"
  /\ Pool!Begin
  /\ step' = "start"
  /\ UNCHANGED <<kernelVars, reactorVars, connVars, dropped, halted>>

At(s, op, c) == step = s /\ running.op = op /\ running.conn = c

(* assert(conn->isAlive())                                                 *)
AssertFails(c) ==
  /\ step = "start"
  /\ running.conn = c
  /\ state_[c] # "kStart"
  /\ halted' = "assert"
  /\ UNCHANGED <<kernelVars, reactorVars, poolVars, step, connVars, dropped>>

(* http_go with a parser that was left in kGotAll: parseRequest loops.     *)
ReadSpins(c) ==
  /\ At("start", "read", c)
  /\ state_[c] = "kStart"
  /\ ctx[c] = "kGotAll"
  /\ step' = "spin"
  /\ UNCHANGED <<kernelVars, reactorVars, poolVars, connVars, dropped, halted>>

(* HttpContext::reset                                                      *)
ResetForgotten == "kGotAll"
Reset == "kExpectRequestLine"

(* The requests that a parse takes from readBuffer_: of a malformed one    *)
(* only the first line, so that its end may stay.                          *)
Taken(malformed) == IF malformed THEN {0, 1} ELSE {1}

(* http_go reads all there is and answers the oldest request.  Only a file *)
(* changes the Filer, and 400 keeps the last response's closeConnection_.  *)
ReadRequest(c, kind, close) ==
  /\ At("start", "read", c)
  /\ state_[c] = "kStart"
  /\ ctx[c] # "kGotAll"
  /\ rx[c] > 0
  /\ \E n \in Taken(kind = "bad") : rbuf' = [rbuf EXCEPT ![c] = @ + rx[c] - n]
  /\ rx' = [rx EXCEPT ![c] = 0]
  /\ out' = [out EXCEPT ![c] = TRUE]
  /\ filer' = IF kind \in {"file", "empty"} THEN [filer EXCEPT ![c] = kind] ELSE filer
  /\ closing' = IF kind = "bad" THEN closing ELSE [closing EXCEPT ![c] = close]
  /\ ctx' = [ctx EXCEPT ![c] = Reset]
  /\ step' = "rearmOut"
  /\ UNCHANGED <<phase, sent, awaits, peer, room, wshut, fdTable, interest, oneshot, armed,
                 reactorVars, poolVars, fd_, state_, dropped, halted>>

(* http_go finds nothing to read: error pages.  A request left in          *)
(* readBuffer_ is parsed all the same, and unless it is malformed the      *)
(* parser stays in kGotAll.                                                *)
ReadNothing(c, malformed) ==
  /\ At("start", "read", c)
  /\ state_[c] = "kStart"
  /\ ctx[c] # "kGotAll"
  /\ rx[c] = 0
  /\ IF rbuf[c] = 0
       THEN UNCHANGED <<rbuf, ctx>>
       ELSE /\ \E n \in Taken(malformed) : rbuf' = [rbuf EXCEPT ![c] = @ - n]
            /\ ctx' = IF malformed THEN ctx ELSE [ctx EXCEPT ![c] = "kGotAll"]
  /\ out' = [out EXCEPT ![c] = TRUE]
  /\ step' = "rearmOut"
  /\ UNCHANGED <<kernelVars, reactorVars, poolVars, fd_, state_, filer, closing, dropped, halted>>

CanSend(c) == room[c] /\ ~wshut[c] /\ peer[c] # "rst"

(* send() on the socket of c leaves the send queue full, or not.           *)
Sends(c) == CanSend(c) /\ \E r \in BOOLEAN : room' = [room EXCEPT ![c] = r]

(* send() stops early: EAGAIN, after part of the data or none, or an error. *)
SendStops(c) ==
  IF wshut[c] \/ peer[c] = "rst" THEN UNCHANGED room ELSE room' = [room EXCEPT ![c] = FALSE]

(* The response is not complete: EPOLLOUT again.                           *)
RetryForgotten == step' = "release"
Retry == step' = "rearmOut"

(* HttpConn::send empties writeBuffer_.                                    *)
WriteHead(c) ==
  /\ At("start", "write", c)
  /\ state_[c] = "kStart"
  /\ IF out[c] THEN Sends(c) ELSE UNCHANGED room
  /\ out' = [out EXCEPT ![c] = FALSE]
  /\ step' = "body"
  /\ UNCHANGED <<phase, rx, sent, awaits, peer, wshut, fdTable, interest, oneshot, armed,
                 reactorVars, poolVars, fd_, state_, rbuf, ctx, filer, closing, dropped, halted>>

WriteHeadStops(c) ==
  /\ At("start", "write", c)
  /\ state_[c] = "kStart"
  /\ out[c]
  /\ SendStops(c)
  /\ Retry
  /\ UNCHANGED <<phase, rx, sent, awaits, peer, wshut, fdTable, interest, oneshot, armed,
                 reactorVars, poolVars, connVars, dropped, halted>>

(* sendBody without a started Filer returns -1: processWrite returns.      *)
WriteNoBody(c) ==
  /\ At("body", "write", c)
  /\ filer[c] = "kNone"
  /\ awaits' = [awaits EXCEPT ![c] = FALSE]
  /\ step' = "release"
  /\ UNCHANGED <<phase, rx, sent, peer, room, wshut, fdTable, interest, oneshot, armed,
                 reactorVars, poolVars, connVars, dropped, halted>>

(* sendBody of an empty file returns 0: the response is complete.          *)
AfterResponseForgotten(c) == IF closing[c] THEN "shutdown" ELSE "release"
AfterResponse(c) == IF closing[c] THEN "shutdown" ELSE "rearmIn"

WriteEmptyBody(c) ==
  /\ At("body", "write", c)
  /\ filer[c] = "empty"
  /\ awaits' = [awaits EXCEPT ![c] = FALSE]
  /\ step' = AfterResponse(c)
  /\ UNCHANGED <<phase, rx, sent, peer, room, wshut, fdTable, interest, oneshot, armed,
                 reactorVars, poolVars, connVars, dropped, halted>>

(* sendBody has sent the last byte of a file; resetRWPtr sets left_ to the *)
(* file's size again before the result is computed, which is therefore 1.  *)
WriteFile(c) ==
  /\ At("body", "write", c)
  /\ filer[c] = "file"
  /\ Sends(c)
  /\ awaits' = [awaits EXCEPT ![c] = FALSE]
  /\ Retry
  /\ UNCHANGED <<phase, rx, sent, peer, wshut, fdTable, interest, oneshot, armed,
                 reactorVars, poolVars, connVars, dropped, halted>>

(* The socket takes no more; or mmap or open fails, and nothing is sent.   *)
WriteFileStops(c) ==
  /\ At("body", "write", c)
  /\ filer[c] = "file"
  /\ SendStops(c) \/ UNCHANGED room
  /\ Retry
  /\ UNCHANGED <<phase, rx, sent, awaits, peer, wshut, fdTable, interest, oneshot, armed,
                 reactorVars, poolVars, connVars, dropped, halted>>

(* reactor_->modifyListen                                                  *)
Rearm(mask) ==
  LET c == running.conn IN
  /\ step = IF mask = "IN" THEN "rearmIn" ELSE "rearmOut"
  /\ ModifySocket(fd_[c], mask)
  /\ dropped' = [dropped EXCEPT ![c] = FALSE]
  /\ step' = "release"
  /\ UNCHANGED <<phase, rx, sent, awaits, peer, room, wshut, fdTable,
                 reactorVars, poolVars, connVars, halted>>

ShutdownWriteThenRearm(c) ==
  /\ At("shutdown", "write", c)
  /\ wshut' = [wshut EXCEPT ![c] = TRUE]
  /\ state_' = [state_ EXCEPT ![c] = "kClose"]
  /\ step' = "rearmOut"
  /\ UNCHANGED <<phase, rx, sent, awaits, peer, room, fdTable, interest, oneshot, armed,
                 reactorVars, poolVars, fd_, rbuf, ctx, out, filer, closing, dropped, halted>>

(* conn->shutdownWrite()                                                   *)
ShutdownWrite(c) ==
  /\ At("shutdown", "write", c)
  /\ wshut' = [wshut EXCEPT ![c] = TRUE]
  /\ Edge(c)
  /\ state_' = [state_ EXCEPT ![c] = "kClose"]
  /\ step' = "erase"
  /\ UNCHANGED <<phase, rx, sent, awaits, peer, room, fdTable, interest, oneshot,
                 reactorVars, poolVars, fd_, rbuf, ctx, out, filer, closing, dropped, halted>>

(* conn_manager_.erase(conn->fd())                                         *)
EraseBegins ==
  /\ step = "erase"
  /\ step' = "erasing"
  /\ UNCHANGED <<kernelVars, reactorVars, poolVars, connVars, dropped, halted>>

EraseEnds ==
  /\ step = "erasing"
  /\ Erase(fd_[running.conn])
  /\ step' = "release"
  /\ UNCHANGED <<sent, wshut, oneshot, armed, conn_count, batch, local, poolVars,
                 fd_, state_, dropped, halted>>
  /\ Reap

(* The worker's copy of the task is destroyed, and the mutex released.     *)
Release ==
  /\ step = "release"
  /\ Pool!End
  /\ step' = "idle"
  /\ UNCHANGED <<sent, wshut, oneshot, armed, reactorVars, fd_, state_, dropped,
                 halted>>
  /\ Reap

Read(c) ==
  \/ ReadSpins(c)
  \/ \E r \in Request : ReadRequest(c, r.kind, r.close)
  \/ \E malformed \in BOOLEAN : ReadNothing(c, malformed)

Write(c) ==
  \/ WriteHead(c) \/ WriteHeadStops(c)
  \/ WriteNoBody(c) \/ WriteEmptyBody(c) \/ WriteFile(c) \/ WriteFileStops(c)
  \/ ShutdownWrite(c)

Worker ==
  \/ Begin \/ EraseBegins \/ EraseEnds \/ Release
  \/ \E mask \in {"IN", "OUT"} : Rearm(mask)
  \/ \E c \in Conn : AssertFails(c) \/ Read(c) \/ Write(c)

-----------------------------------------------------------------------------

Clients ==
  /\ \E c \in Conn : Client(c)
  /\ UNCHANGED serverVars

Next == halted = "no" /\ (Reactor \/ Worker \/ Clients)

SafetySpec == Init /\ [][Next]_vars

(* The reactor thread and the worker that holds the mutex keep running; a  *)
(* client that stays reads what it is sent.  Every call of send that finds *)
(* room takes some of the data, and an open or mmap that failed succeeds   *)
(* when it is tried often enough, so a response that is tried again and    *)
(* again is eventually sent completely.                                    *)
Fairness ==
  /\ WF_vars(halted = "no" /\ Reactor)
  /\ WF_vars(halted = "no" /\ Worker)
  /\ \A c \in Conn :
       /\ WF_vars(halted = "no" /\ Drain(c) /\ UNCHANGED serverVars)
       /\ SF_vars(halted = "no" /\ ((out[c] /\ WriteHead(c)) \/ WriteFile(c)))

Spec == SafetySpec /\ Fairness

-----------------------------------------------------------------------------
(* Properties.                                                             *)

Open(c) == phase[c] = "accepted"

(* No task and no entry of conn_manager_ refers to a descriptor that was   *)
(* closed, or closed and given to another connection: shared_ptr and the   *)
(* erase calls on both threads keep it open (HylChan.cpp:51, 57, 63, 113,  *)
(* HttpServer.cpp:33, HttpConn.cpp:93).                                    *)
DescriptorOwnership ==
  /\ \A f \in Fd : conn_manager_[f] # None => fdTable[f] = conn_manager_[f]
  /\ \A c \in Conn : Held(c) => fd_[c] \in Fd /\ fdTable[fd_[c]] = c
  /\ \A f \in Fd : fdTable[f] # None => fd_[fdTable[f]] = f /\ Held(fdTable[f])

(* What can make the server look at connection c again.                    *)
Watched(c) ==
  \/ \E f \in Fd : fdTable[f] = c /\ (armed[f] \/ batch[f] # {})
  \/ Carried(c)

(* A task has answered c (only processRead and processWrite register with  *)
(* EPOLLONESHOT), and the response, which has been sent, had no file:      *)
(* processWrite returned without re-arming.                                *)
Answered(c) == \E f \in Fd : fdTable[f] = c /\ oneshot[f]
Parked(c) == Answered(c) /\ filer[c] = "kNone" /\ ~out[c]

(* addListen failed when c was accepted: epoll does not know its socket.   *)
Unregistered(c) == \E f \in Fd : fdTable[f] = c /\ interest[f] = None

(* What the server forgets, and keeps open: a connection whose response    *)
(* had no file (HylChan.cpp:104), whose task was refused by a full queue   *)
(* (HylChan.cpp:70, 75), or whose registration failed (HylChan.cpp:44).    *)
Forgotten(c) == Parked(c) \/ dropped[c] \/ Unregistered(c)

(* Every other open connection will be looked at again: somebody has a     *)
(* task for it, or an event that epoll has reported or can report.         *)
NeverForgotten ==
  \A c \in Conn : Open(c) => Watched(c) \/ Forgotten(c)

(* With clients that wait for their answer, the re-arming protocol         *)
(* (HylChan.cpp:43, 90, 97, 102, 109) never has two tasks use the buffers   *)
(* of one connection; a task that has re-armed is done with them.          *)
Tasks(c) ==
  (IF local # None /\ local.conn = c THEN 1 ELSE 0)
  + (IF running # None /\ running.conn = c /\ step # "release" THEN 1 ELSE 0)
  + Cardinality({i \in DOMAIN taskQueue_ : taskQueue_[i].conn = c})

OneTaskPerConnection == \A c \in Conn : Tasks(c) <= 1

(* No task starts on a connection that was shut down (the assertions of    *)
(* HylChan.cpp:86 and 94).                                                 *)
AssertionsHold == halted # "assert"

(* With such clients no worker gets lost in HttpContext.cpp:55-57 with the *)
(* pool's mutex held: the parser is never left in kGotAll.                 *)
NeverSpins == step # "spin"

(* However often connections come and go, no more than the limit are open  *)
(* (HttpServer.cpp:19, 38).                                                *)
ConnectionLimit == Cardinality({c \in Conn : Open(c)}) <= MaxConnections

(* conn_count reaches the limit only when that many connections are open:  *)
(* max_connections in ServerParams.cpp:9.                                  *)
LimitMeansOpenConnections ==
  conn_count = MaxConnections => Cardinality({c \in Conn : Open(c)}) = MaxConnections

(* The server has stopped: it has aborted, a data race may have done       *)
(* anything, or a worker loops in parseRequest with the pool's mutex held. *)
Stuck == halted # "no" \/ step = "spin"

(* A connection whose client has left is closed, whatever the reactor and  *)
(* the workers were doing with it and with the others, unless it was       *)
(* forgotten (the three exceptions above) or the server got stuck          *)
(* (HylChan.cpp:49-58).                                                    *)
LeaversAreReleased ==
  \A c \in Conn : (Open(c) /\ peer[c] # "up")
    ~> (~Open(c) \/ Stuck \/ (Forgotten(c) /\ ~Watched(c)))

(* The first request on every accepted connection is answered, however the *)
(* send queue fills up and drains (HylChan.cpp:96-103), unless its client  *)
(* leaves, its read task is refused, it was never registered, or the       *)
(* server got stuck.                                                       *)
FirstRequestAnswered ==
  \A c \in Conn : (Open(c) /\ awaits[c] /\ sent[c] = 1)
    ~> (~awaits[c] \/ ~Open(c) \/ peer[c] # "up" \/ dropped[c] \/ Unregistered(c) \/ Stuck)

(* A response with "connection: close" (Response.cpp:50) is followed by    *)
(* the end of the connection.                                              *)
CloseFollowsResponse ==
  \A c \in Conn : (Open(c) /\ closing[c] /\ filer[c] = "file" /\ ~awaits[c])
    ~> (~Open(c) \/ peer[c] # "up" \/ halted # "no")

=============================================================================
