----------------------------- MODULE ServerLife -----------------------------
(***************************************************************************)
(* The life of the server: main, the constructors of HttpServer, Reactor   *)
(* and HylChan, start, the returns from HylChan::loop, and the destructors *)
(* in the order in which the language runs them, around the server of      *)
(* module HylChan.  Workers go on while the main thread is on its way out. *)
(* main ignores SIGPIPE before and returns after it.                       *)
(***************************************************************************)
EXTENDS HylChan

VARIABLES
  life,         \* what the main thread does next
  serverState,  \* HttpServer's state_
  listen_sk_,   \* state of the listening socket
  reactor_,     \* state of the reactor, "none" before and "gone" after its life
  threadPoll_   \* state of the pool, likewise

lifeVars == <<life, serverState, listen_sk_, reactor_, threadPoll_>>
allVars == <<vars, lifeVars>>

Life == {"HttpServer", "Reactor", "ThreadPoll", "start", "loop", "~HylChan",
         "~ThreadPoll", "join", "~Reactor", "~HttpServer", "exit"}

(* Types; and which of the two members exists when.                        *)
LifeTypeOK ==
  /\ life \in Life
  /\ serverState \in {"kNone", "kStart", "kClose"}
  /\ listen_sk_ \in {"kNone", "kStart", "kListen", "kClose"}
  /\ reactor_ \in {"none", "kNone", "kStart", "kClose", "gone"}
  /\ threadPoll_ \in {"none", "kStart", "kClose", "gone"}
  /\ reactor_ = "none" <=> life \in {"HttpServer", "Reactor"}
  /\ reactor_ = "gone" <=> life \in {"~HttpServer", "exit"}
  /\ threadPoll_ = "none" <=> life \in {"HttpServer", "Reactor", "ThreadPoll"}
  /\ threadPoll_ = "gone" <=> life \in {"~Reactor", "~HttpServer", "exit"}

LifeInit ==
  /\ Init
  /\ life = "HttpServer"
  /\ serverState = "kNone"
  /\ listen_sk_ = "kNone"
  /\ reactor_ = "none"
  /\ threadPoll_ = "none"

-----------------------------------------------------------------------------
(* The way in.                                                             *)

(* create_listenfd, which can fail in many ways, and HttpServer::init.     *)
ConstructServer(ok) ==
  /\ life = "HttpServer"
  /\ listen_sk_' = IF ok THEN "kStart" ELSE "kNone"
  /\ serverState' = IF ok THEN "kStart" ELSE "kNone"
  /\ life' = "Reactor"
  /\ UNCHANGED <<vars, reactor_, threadPoll_>>

(* epoll_create and addSocket of the listening socket; either can fail.    *)
ConstructReactor(ok) ==
  /\ life = "Reactor"
  /\ reactor_' = IF listen_sk_ = "kStart" /\ ok THEN "kStart" ELSE "kNone"
  /\ life' = "ThreadPoll"
  /\ UNCHANGED <<vars, serverState, listen_sk_, threadPoll_>>

(* The pool always starts; then HylChan::init.                             *)
ConstructPool ==
  /\ life = "ThreadPoll"
  /\ threadPoll_' = "kStart"
  /\ serverState' = IF reactor_ = "kStart" THEN "kStart" ELSE serverState
  /\ life' = "start"
  /\ UNCHANGED <<vars, listen_sk_, reactor_>>

(* The tests at the beginning of HylChan::loop.                            *)
CanLoop == serverState = "kStart" /\ reactor_ = "kStart"

(* start: listen, which can fail, and loop.                                *)
Start(ok) ==
  /\ life = "start"
  /\ IF serverState = "kStart" /\ ok
       THEN /\ listen_sk_' = "kListen"
            /\ life' = IF CanLoop THEN "loop" ELSE "~HylChan"
       ELSE life' = "~HylChan" /\ UNCHANGED listen_sk_
  /\ UNCHANGED <<vars, serverState, reactor_, threadPoll_>>

-----------------------------------------------------------------------------
(* The server runs.                                                        *)

Alive == halted = "no"

Serve == life = "loop" /\ Reactor

(* epoll_wait fails, or reports an error of the listening socket: loop     *)
(* returns, and drops the rest of channelList.                             *)
LoopReturns ==
  /\ life = "loop"
  /\ local = None
  /\ batch' = [s \in Source |-> {}]
  /\ life' = "~HylChan"
  /\ UNCHANGED <<kernelVars, conn_manager_, conn_count, local, poolVars, step, connVars,
                 dropped, halted, serverState, listen_sk_, reactor_, threadPoll_>>

(* A worker takes a task only from a pool that was not closed.             *)
Work == Worker /\ (running # None \/ threadPoll_ = "kStart")

-----------------------------------------------------------------------------
(* The way out: ~HylChan, then its members, the last one first, then those *)
(* of HttpServer.                                                          *)

DestroyHylChan ==
  /\ life = "~HylChan"
  /\ reactor_' = "kClose"
  /\ life' = "~ThreadPoll"
  /\ UNCHANGED <<vars, serverState, listen_sk_, threadPoll_>>

(* ~ThreadPoll takes the mutex to close the pool.                          *)
ClosePool ==
  /\ life = "~ThreadPoll"
  /\ running = None
  /\ threadPoll_' = "kClose"
  /\ life' = "join"
  /\ UNCHANGED <<vars, serverState, listen_sk_, reactor_>>

(* The threads are joined, and the tasks that are still queued destroyed.  *)
JoinOnly ==
  /\ life = "join"
  /\ running = None
  /\ threadPoll_' = "gone"
  /\ life' = "~Reactor"
  /\ UNCHANGED <<vars, serverState, listen_sk_, reactor_>>

JoinWhenDrained == taskQueue_ = <<>> /\ JoinOnly

Join ==
  /\ life = "join"
  /\ running = None
  /\ taskQueue_' = <<>>
  /\ threadPoll_' = "gone"
  /\ life' = "~Reactor"
  /\ UNCHANGED <<sent, wshut, oneshot, armed, reactorVars, running, step, fd_, state_,
                 dropped, halted, serverState, listen_sk_, reactor_>>
  /\ Reap

(* The epoll instance is closed; nobody asks it any more.                  *)
DestroyReactorFirst ==
  /\ life \in {"~ThreadPoll", "~Reactor"}
  /\ reactor_' = "gone"
  /\ life' = IF life = "~Reactor" THEN "~HttpServer" ELSE life
  /\ UNCHANGED <<vars, serverState, listen_sk_, threadPoll_>>

DestroyReactor ==
  /\ life = "~Reactor"
  /\ reactor_' = "gone"
  /\ life' = "~HttpServer"
  /\ UNCHANGED <<vars, serverState, listen_sk_, threadPoll_>>

(* ~HttpServer, conn_manager_ and listen_sk_.                              *)
DestroyServer ==
  /\ life = "~HttpServer"
  /\ serverState' = "kClose"
  /\ conn_manager_' = [f \in Fd |-> None]
  /\ listen_sk_' = IF listen_sk_ = "kNone" THEN "kNone" ELSE "kClose"
  /\ life' = "exit"
  /\ UNCHANGED <<sent, wshut, oneshot, armed, conn_count, batch, local, poolVars, step,
                 fd_, state_, dropped, halted, reactor_, threadPoll_>>
  /\ Reap

Main ==
  \/ \E ok \in BOOLEAN : ConstructServer(ok) \/ ConstructReactor(ok) \/ Start(ok)
  \/ ConstructPool
  \/ LoopReturns
  \/ DestroyHylChan \/ ClosePool \/ Join \/ DestroyReactor \/ DestroyServer

LifeNext ==
  /\ Alive
  /\ \/ Main
     \/ (Serve \/ Work \/ (listen_sk_ = "kListen" /\ Clients)) /\ UNCHANGED lifeVars

(* The main thread goes on once it has left the loop, and so do workers.   *)
LifeFairness ==
  /\ WF_allVars(Alive /\ life # "loop" /\ Main)
  /\ WF_allVars(Alive /\ Work /\ UNCHANGED lifeVars)

LifeSpec == LifeInit /\ [][LifeNext]_allVars /\ LifeFairness

-----------------------------------------------------------------------------

(* A task that still runs on the way out finds the reactor alive, and with *)
(* it the map, which goes later: both are used through raw pointers        *)
(* (HylChan.cpp:90-113) and only the order of the members protects them    *)
(* (HylChan.h:39-40).                                                      *)
TasksFindTheServer ==
  running # None => threadPoll_ = "kStart" /\ reactor_ \in {"kStart", "kClose"}

(* When main returns, no connection is open: neither the map nor a task    *)
(* that was never executed keeps one (ThreadPoll.h:50, HttpConn.cpp:93).   *)
NothingStaysOpen ==
  life = "exit" => \A c \in Conn : ~Open(c)

(* The server can be taken down whatever its workers are doing, unless one *)
(* of them aborts or loops for ever (ThreadPoll.cpp:7-16).                 *)
ShutdownCompletes ==
  life = "~HylChan" ~> (life = "exit" \/ ~Alive \/ step = "spin")

=============================================================================
