---------------------------- MODULE WatchProofs -----------------------------
(***************************************************************************)
(* A proof that HylChan forgets no connection, for every number of         *)
(* connections, descriptors and requests, every queue capacity and every   *)
(* limit, whether clients wait for their responses or not: as long as a    *)
(* connection has its first registration, that registration or a read task *)
(* looks at it; from then on the last task that leaves it re-arms it,      *)
(* closes it, or has sent a response without a file.  A connection that    *)
(* could not be registered stays unregistered until it is closed.          *)
(***************************************************************************)
EXTENDS PoliteProofs

(* Every open connection has a descriptor.                                 *)
SocketInv == \A c \in Conn : Open(c) => \E f \in Fd : fdTable[f] = c

(* A task will read from c.                                                *)
Reads(t, c) == t.op = "read" /\ t.conn = c
Reading(c) ==
  \/ local # None /\ Reads(local, c)
  \/ \E i \in DOMAIN taskQueue_ : Reads(taskQueue_[i], c)
  \/ running # None /\ Reads(running, c) /\ step # "release"

(* The first registration asks for data, and stays armed until a read task *)
(* takes its place.  Tasks of an earlier connection on the same descriptor *)
(* may come in between; when they write, they do not re-arm it, and when   *)
(* they read, they are such tasks themselves.                              *)
EdgeLooked(f) ==
  \/ armed[f]
  \/ batch[f] # {} /\ "OUT" \notin batch[f]
  \/ Reading(conn_manager_[f])
  \/ dropped[conn_manager_[f]]

EdgeInv ==
  \A f \in Fd : fdTable[f] # None /\ ~oneshot[f] /\ interest[f] # None =>
    /\ interest[f] = "IN"
    /\ conn_manager_[f] # None => EdgeLooked(f)

(* The head of the response is sent before its body.                       *)
HeadInv == step = "body" => ~out[running.conn]

(* c is in the map and will be looked at again even when the running task  *)
(* is done; out of the map, it will be closed when its last task is done.  *)
Reportable(c) == \E f \in Fd : fdTable[f] = c /\ (armed[f] \/ batch[f] # {})
Looked(c) == Reportable(c) \/ Active(c) \/ ~Registered(c)

LookedInv == \A c \in Conn : Open(c) => Looked(c) \/ Forgotten(c)

Watch == SocketInv /\ EdgeInv /\ HeadInv /\ LookedInv

WatchInv == OwnInv /\ Watch

-----------------------------------------------------------------------------

LEMMA WatchInit == Init => WatchInv
BY OwnInit DEF Init, KernelInit, WatchInv, Watch, SocketInv, EdgeInv, HeadInv, LookedInv, Open

LEMMA WatchIsEnough == WatchInv => NeverForgotten
<1> SUFFICES ASSUME WatchInv, NEW c \in Conn, Open(c), ~Forgotten(c)
             PROVE  Watched(c)
  BY DEF NeverForgotten
<1> USE DEF WatchInv, Watch
<1>1. Looked(c)
  BY DEF LookedInv
<1>2. PICK f \in Fd : fdTable[f] = c
  BY DEF SocketInv
<1>3. Held(c)
  BY <1>2, Owners, EpollNekoAssumption
<1>4. Active(c) => Carried(c)
  BY DEF Active, Carried, Local, Runs
<1> QED
  BY <1>1, <1>3, <1>4 DEF Looked, Reportable, Watched, Held

(* A step that neither opens a connection nor answers one may move what    *)
(* looks at it.                                                            *)
LEMMA LookedKept ==
  ASSUME LookedInv,
         \A c \in Conn : Open(c)' => /\ Open(c)
                                     /\ Forgotten(c) => Forgotten(c)'
                                     /\ Looked(c) => Looked(c)' \/ Forgotten(c)'
  PROVE  LookedInv'
BY DEF LookedInv

(* The same for the first registrations.                                   *)
LEMMA EdgeKept ==
  ASSUME EdgeInv,
         \A f \in Fd : fdTable'[f] # None /\ ~oneshot'[f] /\ interest'[f] # None =>
           /\ fdTable[f] # None /\ ~oneshot[f]
           /\ interest'[f] = interest[f]
           /\ conn_manager_'[f] # None => /\ conn_manager_[f] # None
                                          /\ EdgeLooked(f) => EdgeLooked(f)'
  PROVE  EdgeInv'
BY DEF EdgeInv

(* Destroying connections leaves the others as they are.                   *)
LEMMA ReapKeeps ==
  ASSUME WatchInv, Reap, UNCHANGED oneshot, \A c \in Conn : dropped[c] => dropped'[c]
  PROVE  /\ SocketInv'
         /\ \A c \in Conn : Open(c)' =>
              /\ Open(c)
              /\ Forgotten(c) => Forgotten(c)'
              /\ \A f \in Fd : fdTable[f] = c => fdTable'[f] = c
<1> USE DEF WatchInv, Watch
<1> DEFINE gone == {c \in Conn : phase[c] = "accepted" /\ ~Held(c)'}
<1>1. /\ phase' = Forget(phase, gone, "closed")
      /\ fdTable' = [f \in Fd |-> IF fdTable[f] \in gone THEN None ELSE fdTable[f]]
      /\ interest' = [f \in Fd |-> IF fdTable[f] \in gone THEN None ELSE interest[f]]
      /\ filer' = Forget(filer, gone, "kNone")
      /\ out' = Forget(out, gone, FALSE)
  BY DEF Reap, Destroy, CloseDescriptors
<1>2. ASSUME NEW c \in Conn, Open(c)'
      PROVE  /\ Open(c)
             /\ Forgotten(c) => Forgotten(c)'
             /\ \A f \in Fd : fdTable[f] = c => fdTable'[f] = c
  <2>1. c \notin gone /\ Open(c)
    BY <1>1, <1>2 DEF Open, Forget
  <2>2. filer'[c] = filer[c] /\ out'[c] = out[c]
    BY <1>1, <2>1 DEF Forget
  <2>3. \A f \in Fd : fdTable[f] = c => fdTable'[f] = c
    BY <1>1, <2>1
  <2>4. Answered(c) => Answered(c)'
    BY <2>3 DEF Answered
  <2>5. Unregistered(c) => Unregistered(c)'
    BY <1>1, <2>1, <2>3 DEF Unregistered
  <2>6. dropped[c] => dropped'[c]
    OBVIOUS
  <2>7. Forgotten(c) => Forgotten(c)'
    BY <2>2, <2>4, <2>5, <2>6 DEF Forgotten, Parked
  <2> QED
    BY <2>1, <2>3, <2>7
<1>3. SocketInv'
  BY <1>2 DEF SocketInv
<1> QED
  BY <1>2, <1>3

(* A connection taken out of the map is no longer registered.              *)
LEMMA ErasedIsOut ==
  ASSUME OwnInv, NEW c \in Conn, NEW e \in Fd, fdTable[e] = c,
         conn_manager_' = [conn_manager_ EXCEPT ![e] = None]
  PROVE  ~Registered(c)'
<1> SUFFICES ASSUME NEW g \in Fd, conn_manager_'[g] = c
             PROVE  FALSE
  BY DEF Registered
<1>1. g # e /\ conn_manager_[g] = c
  BY EpollNekoAssumption DEF OwnInv, TypeInv, TypeOK
<1> QED
  BY <1>1, Owners, EpollNekoAssumption

(* The task that is being executed has a connection and its descriptor.    *)
LEMMA InTask ==
  ASSUME OwnInv, step # "idle"
  PROVE  /\ running # None
         /\ running.conn \in Conn
         /\ fd_[running.conn] \in Fd
         /\ fdTable[fd_[running.conn]] = running.conn
         /\ \A f \in Fd : fdTable[f] = running.conn => f = fd_[running.conn]
<1>1. running # None
  BY DEF OwnInv, TypeInv, Busy
<1>2. Held(running.conn)
  BY <1>1 DEF Held, Carried
<1> QED
  BY <1>1, <1>2, Owners, EpollNekoAssumption

-----------------------------------------------------------------------------
(* The reactor.                                                            *)

LEMMA HangUpWatch ==
  ASSUME WatchInv, NEW e \in Fd, HandleHup(e) \/ HandleRdHup(e)
  PROVE  Watch'
<1> USE DEF WatchInv, Watch
<1>1. /\ conn_manager_' = [conn_manager_ EXCEPT ![e] = None]
      /\ batch' = [batch EXCEPT ![e] = {}]
      /\ UNCHANGED <<oneshot, local, taskQueue_, running, step, dropped>>
      /\ Reap
      /\ armed' = armed \/ Edge(fdTable[e])
  BY DEF HandleHup, HandleRdHup, Erase, Handled, poolVars
<1>2. /\ \A f \in Fd : f # e => batch'[f] = batch[f] /\ conn_manager_'[f] = conn_manager_[f]
      /\ conn_manager_'[e] = None
  BY <1>1 DEF OwnInv, TypeInv, TypeOK, Source
<1>3. \A f \in Fd : armed[f] => armed'[f]
  BY <1>1 DEF Edge
<1>4. ASSUME NEW c \in Conn, Open(c)', Looked(c)
      PROVE  Looked(c)'
  <2>1. CASE Active(c)
    BY <1>1, <2>1 DEF Looked, Active, Local, Queued, Runs
  <2>2. CASE ~Registered(c)
    <3>1. ~Registered(c)'
      BY <1>1, <2>2, EpollNekoAssumption DEF Registered, OwnInv, TypeInv, TypeOK
    <3> QED
      BY <3>1 DEF Looked
  <2>3. CASE Reportable(c)
    <3>1. PICK f \in Fd : fdTable[f] = c /\ (armed[f] \/ batch[f] # {})
      BY <2>3 DEF Reportable
    <3>2. fdTable'[f] = c
      BY <1>1, <1>4, <3>1, ReapKeeps
    <3>3. CASE f = e
      BY <1>1, <3>1, <3>3, ErasedIsOut DEF Looked
    <3>4. CASE f # e
      BY <1>2, <1>3, <3>1, <3>2, <3>4 DEF Looked, Reportable
    <3> QED
      BY <3>3, <3>4
  <2> QED
    BY <1>4, <2>1, <2>2, <2>3 DEF Looked
<1>5. LookedInv'
  BY <1>1, <1>4, ReapKeeps, LookedKept
<1>6. EdgeInv'
  <2>1. \A f \in Fd : f # e => (EdgeLooked(f) => EdgeLooked(f)')
    BY <1>1, <1>2, <1>3 DEF EdgeLooked, Reading
  <2> QED
    BY <1>1, <1>2, <2>1, ReapFacts, EdgeKept
<1>7. HeadInv'
  <2>1. \A c \in Conn : out'[c] => out[c]
    BY <1>1 DEF Reap, Destroy, Forget
  <2>2. running # None => running.conn \in Conn
    BY Owners
  <2> QED
    BY <1>1, <2>1, <2>2 DEF HeadInv, OwnInv, TypeInv, Busy
<1> QED
  BY <1>1, <1>5, <1>6, <1>7, ReapKeeps

LEMMA RejectedWatch ==
  ASSUME WatchInv, EnqueueRejected
  PROVE  Watch'
<1> USE DEF WatchInv, Watch
<1>1. /\ local # None
      /\ running = None
      /\ dropped' = [dropped EXCEPT ![local.conn] = TRUE]
      /\ UNCHANGED <<oneshot, armed, conn_manager_, batch, taskQueue_, running, step>>
      /\ Reap
  BY DEF EnqueueRejected, poolVars
<1>2. step = "idle"
  BY <1>1 DEF OwnInv, TypeInv, Busy
<1>3. /\ local.conn \in Conn
      /\ dropped'[local.conn]
      /\ \A c \in Conn : dropped[c] => dropped'[c]
  BY <1>1, Owners DEF OwnInv, TypeInv, TypeOK
<1>4. ASSUME NEW c \in Conn, Open(c)', Looked(c)
      PROVE  Looked(c)' \/ Forgotten(c)'
  <2>1. CASE Local(c)
    BY <1>3, <2>1 DEF Local, Forgotten
  <2>2. CASE Queued(c) \/ ~Registered(c)
    BY <1>1, <2>2 DEF Looked, Active, Queued, Registered
  <2>3. CASE Reportable(c)
    BY <1>1, <1>4, <2>3, ReapKeeps DEF Looked, Reportable
  <2> QED
    BY <1>1, <1>4, <2>1, <2>2, <2>3 DEF Looked, Active, Runs
<1>5. LookedInv'
  BY <1>1, <1>3, <1>4, ReapKeeps, LookedKept
<1>6. EdgeInv'
  <2>1. ASSUME NEW f \in Fd, conn_manager_[f] # None, EdgeLooked(f)
        PROVE  EdgeLooked(f)'
    <3>1. conn_manager_[f] \in Conn
      BY <2>1, Owners
    <3>2. Reading(conn_manager_[f]) => Reading(conn_manager_[f])' \/ dropped'[conn_manager_[f]]
      BY <1>1, <1>3 DEF Reading, Reads
    <3> QED
      BY <1>1, <1>3, <2>1, <3>1, <3>2 DEF EdgeLooked
  <2> QED
    BY <1>1, <2>1, ReapFacts, EdgeKept
<1>7. HeadInv'
  BY <1>1, <1>2 DEF HeadInv
<1> QED
  BY <1>1, <1>5, <1>6, <1>7, ReapKeeps

(* Most steps of the reactor change neither sockets nor responses.         *)
LEMMA QuietWatch ==
  ASSUME WatchInv,
         UNCHANGED <<phase, fdTable, oneshot, interest, out, filer, dropped, conn_manager_>>,
         UNCHANGED <<running, step>> \/ step' = "start",
         \A c \in Conn : Looked(c) => Looked(c)',
         \A f \in Fd : /\ fdTable[f] # None /\ ~oneshot[f] /\ interest[f] # None
                       /\ conn_manager_[f] # None
                       /\ EdgeLooked(f)
                       => EdgeLooked(f)'
  PROVE  Watch'
<1> USE DEF WatchInv, Watch
<1>1. SocketInv'
  BY DEF SocketInv, Open
<1>2. EdgeInv'
  BY EdgeKept
<1>3. HeadInv'
  BY DEF HeadInv
<1>4. LookedInv'
  BY DEF LookedInv, Open, Forgotten, Parked, Answered, Unregistered
<1> QED
  BY <1>1, <1>2, <1>3, <1>4

LEMMA ListenerWatch ==
  ASSUME WatchInv, AcceptFails \/ Refuse
  PROVE  Watch'
<1>1. /\ UNCHANGED <<phase, fdTable, oneshot, interest, armed, out, filer, dropped,
                     conn_manager_, local, taskQueue_, running, step>>
      /\ batch' = [batch EXCEPT ![Listener] = {}]
  BY DEF AcceptFails, Refuse, Handled, kernelVars, poolVars, connVars
<1>2. \A f \in Fd : batch'[f] = batch[f]
  BY <1>1, HylChanAssumption DEF WatchInv, OwnInv, TypeInv, TypeOK, Source
<1>3. \A c \in Conn : Looked(c) => Looked(c)'
  BY <1>1, <1>2 DEF Looked, Reportable, Active, Local, Queued, Runs, Registered
<1>4. \A f \in Fd : EdgeLooked(f) => EdgeLooked(f)'
  BY <1>1, <1>2 DEF EdgeLooked, Reading
<1> QED
  BY <1>1, <1>3, <1>4, QuietWatch

(* epoll_wait takes what is armed to channelList.                          *)
LEMMA WaitWatch ==
  ASSUME WatchInv, EpollWait
  PROVE  Watch'
<1>1. /\ LoopDone
      /\ batch' = [s \in Source |-> Pending(s)]
      /\ Report
      /\ UNCHANGED <<phase, fdTable, oneshot, interest, out, filer, dropped, conn_manager_,
                     local, taskQueue_, running, step>>
  BY DEF EpollWait, poolVars, connVars
<1>2. \A f \in Fd : /\ batch[f] = {}
                    /\ batch'[f] = Reported(f)
                    /\ armed'[f] <=> armed[f] /\ Reported(f) = {}
  BY <1>1, HylChanAssumption DEF LoopDone, Report, Pending, Source
<1>3. \A c \in Conn : Looked(c) => Looked(c)'
  BY <1>1, <1>2 DEF Looked, Reportable, Active, Local, Queued, Runs, Registered
<1>4. ASSUME NEW f \in Fd, fdTable[f] # None, ~oneshot[f], interest[f] # None,
             EdgeLooked(f)
      PROVE  EdgeLooked(f)'
  <2>1. interest[f] = "IN"
    BY <1>4 DEF WatchInv, Watch, EdgeInv
  <2>2. "OUT" \notin Reported(f)
    BY <2>1 DEF Reported
  <2>3. Reading(conn_manager_[f])' <=> Reading(conn_manager_[f])
    BY <1>1 DEF Reading
  <2> QED
    BY <1>1, <1>2, <1>4, <2>2, <2>3 DEF EdgeLooked
<1> QED
  BY <1>1, <1>3, <1>4, QuietWatch

(* The entry is gone, and the connection has left the map.                 *)
LEMMA MissingWatch ==
  ASSUME WatchInv, NEW e \in Fd, HandleMissing(e)
  PROVE  Watch'
<1>1. /\ conn_manager_[e] = None
      /\ batch' = [batch EXCEPT ![e] = {}]
      /\ UNCHANGED <<phase, fdTable, oneshot, interest, armed, out, filer, dropped,
                     conn_manager_, local, taskQueue_, running, step>>
  BY DEF HandleMissing, Handled, kernelVars, poolVars, connVars
<1>2. \A f \in Fd : f # e => batch'[f] = batch[f]
  BY <1>1 DEF WatchInv, OwnInv, TypeInv, TypeOK, Source
<1>3. \A c \in Conn : fdTable[e] = c => ~Registered(c)
  BY <1>1, Owners, EpollNekoAssumption DEF WatchInv, Registered
<1>4. \A c \in Conn : Looked(c) => Looked(c)'
  BY <1>1, <1>2, <1>3 DEF Looked, Reportable, Active, Local, Queued, Runs, Registered
<1>5. \A f \in Fd : f # e => (EdgeLooked(f) => EdgeLooked(f)')
  BY <1>1, <1>2 DEF EdgeLooked, Reading
<1> QED
  BY <1>1, <1>4, <1>5, QuietWatch

LEMMA LookupWatch ==
  ASSUME WatchInv, NEW e \in Fd, HandleLookup(e)
  PROVE  Watch'
<1> USE DEF WatchInv
<1>1. /\ local = None
      /\ DataEvent(e)
      /\ conn_manager_[e] # None
      /\ local' = [op |-> IF "IN" \in batch[e] THEN "read" ELSE "write",
                   conn |-> conn_manager_[e]]
      /\ batch' = [batch EXCEPT ![e] = {}]
      /\ UNCHANGED <<phase, fdTable, oneshot, interest, armed, out, filer, dropped,
                     conn_manager_, taskQueue_, running, step>>
  BY DEF HandleLookup, Handled, kernelVars, poolVars, connVars
<1>2. PICK c \in Conn : c = conn_manager_[e] /\ c = fdTable[e]
  BY <1>1, Owners
<1>3. local' # None /\ local'.conn = c /\ ("IN" \in batch[e] => local'.op = "read")
  BY <1>1, <1>2, HylChanAssumption DEF Task
<1>4. \A f \in Fd : f # e => batch'[f] = batch[f]
  BY <1>1 DEF OwnInv, TypeInv, TypeOK, Source
<1>5. ASSUME NEW d \in Conn, Looked(d)
      PROVE  Looked(d)'
  <2>1. CASE d = c
    BY <1>3, <2>1 DEF Looked, Active, Local
  <2>2. CASE d # c
    BY <1>1, <1>2, <1>4, <1>5, <2>2 DEF Looked, Reportable, Active, Local, Queued, Runs, Registered
  <2> QED
    BY <2>1, <2>2
<1>6. \A d \in Conn : Reading(d) => Reading(d)'
  BY <1>1 DEF Reading
<1>7. ASSUME NEW f \in Fd, conn_manager_[f] # None, EdgeLooked(f)
      PROVE  EdgeLooked(f)'
  <2>1. conn_manager_[f] \in Conn
    BY <1>7, Owners
  <2>2. CASE f = e /\ batch[e] # {} /\ "OUT" \notin batch[e]
    <3>1. "IN" \in batch[e]
      BY <1>1, <2>2 DEF DataEvent
    <3>2. Reading(c)'
      BY <1>3, <3>1 DEF Reading, Reads
    <3> QED
      BY <1>1, <1>2, <2>2, <3>2 DEF EdgeLooked
  <2> QED
    BY <1>1, <1>4, <1>6, <1>7, <2>1, <2>2 DEF EdgeLooked
<1> QED
  BY <1>1, <1>5, <1>7, QuietWatch

LEMMA EnqueueWatch ==
  ASSUME WatchInv, Enqueue
  PROVE  Watch'
<1> USE DEF WatchInv
<1>1. /\ local # None
      /\ taskQueue_' = Append(taskQueue_, local)
      /\ UNCHANGED <<phase, fdTable, oneshot, interest, armed, out, filer, dropped,
                     conn_manager_, batch, running, step>>
  BY DEF Enqueue, Pool!Submit, kernelVars, connVars
<1>2. taskQueue_ \in Seq(Task) /\ local \in Task
  BY <1>1 DEF OwnInv, TypeInv, TypeOK
<1>3. /\ DOMAIN taskQueue_ = 1 .. Len(taskQueue_)
      /\ DOMAIN taskQueue_' = 1 .. Len(taskQueue_) + 1
      /\ \A i \in 1 .. Len(taskQueue_) : taskQueue_'[i] = taskQueue_[i]
      /\ taskQueue_'[Len(taskQueue_) + 1] = local
      /\ Len(taskQueue_) \in Nat
  BY <1>1, <1>2
<1>4. \A c \in Conn : Queued(c) \/ Local(c) => Queued(c)'
  BY <1>3 DEF Queued, Local
<1>5. \A c \in Conn : Looked(c) => Looked(c)'
  BY <1>1, <1>4 DEF Looked, Reportable, Active, Runs, Registered
<1>6. \A c \in Conn : Reading(c) => Reading(c)'
  BY <1>1, <1>3 DEF Reading
<1>7. \A f \in Fd : conn_manager_[f] # None /\ EdgeLooked(f) => EdgeLooked(f)'
  BY <1>1, <1>6, Owners DEF EdgeLooked
<1> QED
  BY <1>1, <1>5, <1>7, QuietWatch

LEMMA BeginWatch ==
  ASSUME WatchInv, Begin
  PROVE  Watch'
<1> USE DEF WatchInv
<1>1. /\ running = None
      /\ taskQueue_ # <<>>
      /\ running' = Head(taskQueue_)
      /\ taskQueue_' = Tail(taskQueue_)
      /\ step' = "start"
      /\ UNCHANGED <<phase, fdTable, oneshot, interest, armed, out, filer, dropped,
                     conn_manager_, batch, local>>
  BY DEF Begin, Pool!Begin, kernelVars, reactorVars, connVars
<1>2. taskQueue_ \in Seq(Task)
  BY DEF OwnInv, TypeInv, TypeOK
<1>3. /\ DOMAIN taskQueue_ = 1 .. Len(taskQueue_)
      /\ DOMAIN taskQueue_' = 1 .. Len(taskQueue_) - 1
      /\ \A i \in 1 .. Len(taskQueue_) - 1 : taskQueue_'[i] = taskQueue_[i + 1]
      /\ running' = taskQueue_[1]
      /\ Len(taskQueue_) \in Nat \ {0}
      /\ running' \in Task
  BY <1>1, <1>2
<1>4. running' # None
  BY <1>3, HylChanAssumption
<1>5. ASSUME NEW i \in DOMAIN taskQueue_
      PROVE  \/ running' = taskQueue_[i]
             \/ \E j \in DOMAIN taskQueue_' : taskQueue_'[j] = taskQueue_[i]
  <2>1. CASE i = 1
    BY <1>3, <2>1
  <2>2. CASE i # 1
    <3>1. i - 1 \in DOMAIN taskQueue_' /\ taskQueue_'[i - 1] = taskQueue_[i]
      BY <1>3, <2>2
    <3> QED
      BY <3>1
  <2> QED
    BY <2>1, <2>2
<1>6. ASSUME NEW c \in Conn, Queued(c)
      PROVE  Queued(c)' \/ Runs(c)'
  BY <1>1, <1>4, <1>5, <1>6 DEF Queued, Runs
<1>7. \A c \in Conn : Looked(c) => Looked(c)'
  BY <1>1, <1>6 DEF Looked, Reportable, Active, Local, Runs, Registered
<1>8. \A c \in Conn : Reading(c) => Reading(c)'
  BY <1>1, <1>4, <1>5 DEF Reading
<1>9. \A f \in Fd : conn_manager_[f] # None /\ EdgeLooked(f) => EdgeLooked(f)'
  BY <1>1, <1>8, Owners DEF EdgeLooked
<1> QED
  BY <1>1, <1>7, <1>9, QuietWatch

(* An accepted connection is armed, or could not be registered.            *)
LEMMA AcceptWatch ==
  ASSUME WatchInv, NEW e \in Fd, NEW c \in Conn, Accept(c, e)
  PROVE  Watch'
<1> USE DEF WatchInv, Watch
<1>1. phase[c] = "backlog" /\ fdTable[e] = None /\ conn_manager_[e] = None
  BY EpollNekoAssumption DEF Accept, OwnInv, TypeInv, TypeOK, DescriptorOwnership
<1>2. /\ conn_manager_' = [conn_manager_ EXCEPT ![e] = c]
      /\ phase' = [phase EXCEPT ![c] = "accepted"]
      /\ fdTable' = [fdTable EXCEPT ![e] = c]
      /\ AddListen(e)
      /\ batch' = [batch EXCEPT ![Listener] = {}]
      /\ UNCHANGED <<out, filer, dropped, local, taskQueue_, running, step>>
  BY <1>1 DEF Accept, Handled, poolVars
<1>3. PICK ok \in BOOLEAN :
         /\ interest' = [interest EXCEPT ![e] = IF ok THEN "IN" ELSE None]
         /\ oneshot' = [oneshot EXCEPT ![e] = FALSE]
         /\ armed' = [armed EXCEPT ![e] = ok]
  BY <1>2 DEF AddListen, AddSocket
<1>4. /\ fdTable'[e] = c
      /\ ~oneshot'[e]
      /\ (armed'[e] /\ interest'[e] = "IN") \/ interest'[e] = None
      /\ \A f \in Fd : f # e => /\ fdTable'[f] = fdTable[f]
                                /\ armed'[f] = armed[f]
                                /\ interest'[f] = interest[f]
                                /\ oneshot'[f] = oneshot[f]
                                /\ conn_manager_'[f] = conn_manager_[f]
      /\ conn_manager_'[e] = c
      /\ \A f \in Fd : batch'[f] = batch[f]
      /\ \A d \in Conn : d # c => phase'[d] = phase[d]
  BY <1>2, <1>3, HylChanAssumption DEF OwnInv, TypeInv, TypeOK, KernelTypeOK, Source
<1>5. SocketInv'
  <2> SUFFICES ASSUME NEW d \in Conn, Open(d)'
               PROVE  \E f \in Fd : fdTable'[f] = d
    BY DEF SocketInv
  <2>1. CASE d = c
    BY <1>4, <2>1
  <2>2. CASE d # c
    <3>1. PICK f \in Fd : fdTable[f] = d
      BY <1>4, <2>2 DEF SocketInv, Open
    <3> QED
      BY <1>1, <1>4, <3>1, EpollNekoAssumption
  <2> QED
    BY <2>1, <2>2
<1>6. EdgeInv'
  <2> SUFFICES ASSUME NEW f \in Fd, fdTable'[f] # None, ~oneshot'[f], interest'[f] # None
               PROVE  /\ interest'[f] = "IN"
                      /\ conn_manager_'[f] # None => EdgeLooked(f)'
    BY DEF EdgeInv
  <2>1. CASE f = e
    BY <1>4, <2>1 DEF EdgeLooked
  <2>2. CASE f # e
    <3>1. interest[f] = "IN" /\ (conn_manager_[f] # None => EdgeLooked(f))
      BY <1>4, <2>2 DEF EdgeInv
    <3>2. EdgeLooked(f) => EdgeLooked(f)'
      BY <1>2, <1>4, <2>2 DEF EdgeLooked, Reading
    <3> QED
      BY <1>4, <2>2, <3>1, <3>2
  <2> QED
    BY <2>1, <2>2
<1>7. HeadInv'
  BY <1>2 DEF HeadInv
<1>8. Looked(c)' \/ Unregistered(c)'
  BY <1>4 DEF Looked, Reportable, Unregistered
<1>9. ASSUME NEW d \in Conn, d # c, Looked(d)
      PROVE  Looked(d)'
  <2>1. CASE Reportable(d)
    BY <1>1, <1>4, <2>1, EpollNekoAssumption DEF Looked, Reportable
  <2>2. CASE Active(d)
    BY <1>2, <2>2 DEF Looked, Active, Local, Queued, Runs
  <2>3. CASE ~Registered(d)
    <3>1. ~Registered(d)'
      BY <1>4, <1>9, <2>3 DEF Registered
    <3> QED
      BY <3>1 DEF Looked
  <2> QED
    BY <1>9, <2>1, <2>2, <2>3 DEF Looked
<1>10. ASSUME NEW d \in Conn, d # c, Parked(d)
      PROVE  Parked(d)'
  <2>1. Answered(d)'
    BY <1>1, <1>4, <1>10, EpollNekoAssumption DEF Parked, Answered
  <2> QED
    BY <1>2, <1>10, <2>1 DEF Parked
<1>11. \A d \in Conn : d # c => (Unregistered(d) => Unregistered(d)')
  BY <1>1, <1>4, EpollNekoAssumption DEF Unregistered
<1>12. LookedInv'
  BY <1>2, <1>4, <1>8, <1>9, <1>10, <1>11 DEF LookedInv, Open, Forgotten
<1> QED
  BY <1>5, <1>6, <1>7, <1>12

-----------------------------------------------------------------------------
(* The workers.                                                            *)

(* A step inside a task: nobody but the task's own connection is affected, *)
(* which the task looks at.                                                *)
LEMMA TaskWatch ==
  ASSUME WatchInv, NEW c \in Conn, running # None, running.conn = c,
         step \notin {"idle", "release"}, step' # "release",
         UNCHANGED <<phase, fdTable, oneshot, interest, dropped, conn_manager_, batch, local,
                     taskQueue_, running>>,
         \A f \in Fd : armed[f] => armed'[f],
         \A d \in Conn : d # c => out'[d] = out[d] /\ filer'[d] = filer[d],
         step' = "body" => ~out'[c]
  PROVE  Watch'
<1> USE DEF WatchInv, Watch
<1>1. SocketInv'
  BY DEF SocketInv, Open
<1>2. EdgeInv'
  <2>1. \A f \in Fd : EdgeLooked(f) => EdgeLooked(f)'
    BY DEF EdgeLooked, Reading
  <2> QED
    BY <2>1, EdgeKept
<1>3. HeadInv'
  BY DEF HeadInv
<1>4. Looked(c)'
  BY DEF Looked, Active, Runs
<1>5. \A d \in Conn : d # c => (Looked(d) => Looked(d)')
  BY DEF Looked, Reportable, Active, Local, Queued, Runs, Registered
<1>6. LookedInv'
  BY <1>4, <1>5 DEF LookedInv, Open, Forgotten, Parked, Answered, Unregistered
<1> QED
  BY <1>1, <1>2, <1>3, <1>6

(* The failed assertion changes nothing that the invariant is about.       *)
LEMMA AssertWatch ==
  ASSUME WatchInv, NEW c \in Conn, AssertFails(c)
  PROVE  Watch'
<1>1. UNCHANGED <<phase, fdTable, oneshot, interest, armed, out, filer, dropped,
                  conn_manager_, batch, local, taskQueue_, running, step>>
  BY DEF AssertFails, kernelVars, reactorVars, poolVars, connVars
<1>2. \A d \in Conn : Looked(d) => Looked(d)'
  BY <1>1 DEF Looked, Reportable, Active, Local, Queued, Runs, Registered
<1>3. \A f \in Fd : EdgeLooked(f) => EdgeLooked(f)'
  BY <1>1 DEF EdgeLooked, Reading
<1> QED
  BY <1>1, <1>2, <1>3, QuietWatch

LEMMA ReadWatch ==
  ASSUME WatchInv, NEW c \in Conn, Read(c)
  PROVE  Watch'
<1>1. /\ step = "start" /\ running.conn = c /\ step' \in {"rearmOut", "spin"}
      /\ UNCHANGED <<phase, fdTable, oneshot, interest, armed, dropped, conn_manager_, batch,
                     local, taskQueue_, running>>
      /\ out' = out \/ out' = [out EXCEPT ![c] = TRUE]
      /\ filer' = filer \/ \E kind \in Kind : filer' = [filer EXCEPT ![c] = kind]
  <2>1. CASE ReadSpins(c) \/ \E malformed \in BOOLEAN : ReadNothing(c, malformed)
    BY <2>1 DEF ReadNothing, ReadSpins, At, kernelVars, reactorVars, poolVars, connVars
  <2>2. ASSUME NEW r \in Request, ReadRequest(c, r.kind, r.close)
        PROVE  /\ step = "start" /\ running.conn = c /\ step' \in {"rearmOut", "spin"}
               /\ UNCHANGED <<phase, fdTable, oneshot, interest, armed, dropped, conn_manager_,
                              batch, local, taskQueue_, running>>
               /\ out' = out \/ out' = [out EXCEPT ![c] = TRUE]
               /\ filer' = filer \/ \E kind \in Kind : filer' = [filer EXCEPT ![c] = kind]
    <3>1. r.kind \in Kind
      BY HylChanAssumption
    <3> QED
      BY <2>2, <3>1 DEF ReadRequest, At, reactorVars, poolVars
  <2> QED
    BY <2>1, <2>2 DEF Read
<1>2. \A d \in Conn : d # c => out'[d] = out[d] /\ filer'[d] = filer[d]
  BY <1>1 DEF WatchInv, OwnInv, TypeInv, TypeOK
<1>3. running # None
  BY <1>1, InTask DEF WatchInv
<1> QED
  BY <1>1, <1>2, <1>3, TaskWatch

LEMMA WriteWatch ==
  ASSUME WatchInv, NEW c \in Conn,
         \/ WriteHead(c) \/ WriteHeadStops(c) \/ WriteEmptyBody(c)
         \/ WriteFile(c) \/ WriteFileStops(c) \/ ShutdownWrite(c)
  PROVE  Watch'
<1>1. /\ step \in {"start", "body", "shutdown"}
      /\ running.conn = c
      /\ step' \in {"body", "rearmIn", "rearmOut", "shutdown", "erase"}
      /\ step' = "body" => out' = [out EXCEPT ![c] = FALSE]
      /\ UNCHANGED <<phase, fdTable, oneshot, interest, dropped, conn_manager_, batch, local,
                     taskQueue_, running, filer>>
      /\ out' = out \/ out' = [out EXCEPT ![c] = FALSE]
      /\ armed' = armed \/ Edge(c)
  BY DEF WriteHead, WriteHeadStops, WriteEmptyBody, WriteFile, WriteFileStops, ShutdownWrite,
         At, Retry, AfterResponse, reactorVars, poolVars, connVars
<1>2. \A f \in Fd : armed[f] => armed'[f]
  BY <1>1 DEF Edge
<1>3. /\ \A d \in Conn : d # c => out'[d] = out[d]
      /\ step' = "body" => ~out'[c]
  BY <1>1 DEF WatchInv, OwnInv, TypeInv, TypeOK
<1>4. running # None
  BY <1>1, InTask DEF WatchInv
<1> QED
  BY <1>1, <1>2, <1>3, <1>4, TaskWatch

LEMMA EraseBeginsWatch ==
  ASSUME WatchInv, EraseBegins
  PROVE  Watch'
<1>1. /\ step = "erase" /\ step' = "erasing"
      /\ UNCHANGED <<phase, fdTable, oneshot, interest, armed, dropped, conn_manager_, batch,
                     local, taskQueue_, running, out, filer>>
  BY DEF EraseBegins, kernelVars, reactorVars, poolVars, connVars
<1>2. running # None /\ running.conn \in Conn
  BY <1>1, InTask DEF WatchInv
<1> QED
  BY <1>1, <1>2, TaskWatch

(* The response has no file, and its head has been sent; or it is not a    *)
(* response at all, and the connection has its first registration still.   *)
LEMMA NoBodyWatch ==
  ASSUME WatchInv, NEW c \in Conn, WriteNoBody(c)
  PROVE  Watch'
<1> USE DEF WatchInv, Watch
<1>1. /\ step = "body" /\ running.op = "write" /\ running.conn = c /\ step' = "release"
      /\ filer[c] = "kNone"
      /\ UNCHANGED <<phase, fdTable, oneshot, interest, armed, dropped, conn_manager_, batch,
                     local, taskQueue_, running, out, filer>>
  BY DEF WriteNoBody, At, reactorVars, poolVars, connVars
<1>2. \A d \in Conn : Reading(d) => Reading(d)'
  BY <1>1 DEF Reading, Reads
<1>3. \A f \in Fd : conn_manager_[f] # None /\ EdgeLooked(f) => EdgeLooked(f)'
  BY <1>1, <1>2, Owners DEF EdgeLooked
<1>4. EdgeInv'
  BY <1>1, <1>3, EdgeKept
<1>5. Looked(c)' \/ Forgotten(c)'
  <2>1. PICK e \in Fd : e = fd_[c] /\ fdTable[e] = c
    BY <1>1, InTask
  <2>2. CASE oneshot[e]
    <3>1. Answered(c)'
      BY <1>1, <2>1, <2>2 DEF Answered
    <3> QED
      BY <1>1, <3>1 DEF Parked, HeadInv, Forgotten
  <2>3. CASE interest[e] = None
    BY <1>1, <2>1, <2>3 DEF Unregistered, Forgotten
  <2>4. CASE ~oneshot[e] /\ conn_manager_[e] # None /\ interest[e] # None
    <3>1. EdgeLooked(e)' /\ conn_manager_[e] = c
      BY <1>1, <1>4, <2>1, <2>4, Owners, EpollNekoAssumption DEF EdgeInv
    <3>2. Reading(c)' => Active(c)'
      BY <1>1 DEF Reading, Reads, Active, Local, Queued, Runs
    <3> QED
      BY <1>1, <2>1, <3>1, <3>2 DEF EdgeLooked, Looked, Reportable, Forgotten
  <2>5. CASE conn_manager_[e] = None
    <3>1. ~Registered(c)
      BY <2>1, <2>5, Owners, EpollNekoAssumption DEF Registered
    <3> QED
      BY <1>1, <3>1 DEF Looked, Registered
  <2> QED
    BY <2>2, <2>4, <2>5, <2>3
<1>6. \A d \in Conn : d # c => (Looked(d) => Looked(d)')
  BY <1>1 DEF Looked, Reportable, Active, Local, Queued, Runs, Registered
<1>7. LookedInv'
  BY <1>1, <1>5, <1>6 DEF LookedInv, Open, Forgotten, Parked, Answered, Unregistered
<1>8. SocketInv' /\ HeadInv'
  BY <1>1 DEF SocketInv, HeadInv, Open
<1> QED
  BY <1>4, <1>7, <1>8

LEMMA RearmWatch ==
  ASSUME WatchInv, NEW mask \in {"IN", "OUT"}, Rearm(mask)
  PROVE  Watch'
<1> USE DEF WatchInv, Watch
<1>1. /\ step \in {"rearmIn", "rearmOut"}
      /\ ModifySocket(fd_[running.conn], mask)
      /\ dropped' = [dropped EXCEPT ![running.conn] = FALSE]
      /\ step' = "release"
      /\ UNCHANGED <<phase, fdTable, conn_manager_, batch, local, taskQueue_, running,
                     out, filer>>
  BY DEF Rearm, reactorVars, poolVars, connVars
<1>2. PICK c \in Conn, e \in Fd : c = running.conn /\ e = fd_[c] /\ fdTable[e] = c
  BY <1>1, InTask
<1>3. \A f \in Fd : fdTable[f] = c => f = e
  BY <1>1, <1>2, InTask
<1>4. \/ interest[e] = None /\ UNCHANGED <<interest, oneshot, armed>>
      \/ /\ interest[e] # None
         /\ interest' = [interest EXCEPT ![e] = mask]
         /\ oneshot' = [oneshot EXCEPT ![e] = TRUE]
         /\ armed' = [armed EXCEPT ![e] = TRUE]
  BY <1>1, <1>2 DEF ModifySocket
<1>5. /\ interest'[e] = None \/ (armed'[e] /\ oneshot'[e])
      /\ \A f \in Fd : armed[f] => armed'[f]
      /\ \A f \in Fd : oneshot[f] => oneshot'[f]
      /\ \A f \in Fd : f # e => oneshot'[f] = oneshot[f] /\ interest'[f] = interest[f]
      /\ interest[e] = None => interest'[e] = None
      /\ \A d \in Conn : d # c => dropped'[d] = dropped[d]
  <2>1. /\ interest \in [Fd -> {"IN", "OUT", None}]
        /\ oneshot \in [Fd -> BOOLEAN] /\ armed \in [Fd -> BOOLEAN]
        /\ dropped \in [Conn -> BOOLEAN]
    BY DEF OwnInv, TypeInv, TypeOK, KernelTypeOK
  <2>2. \A d \in Conn : d # c => dropped'[d] = dropped[d]
    BY ONLY <1>1, <1>2, <2>1
  <2>3. CASE interest[e] = None /\ UNCHANGED <<interest, oneshot, armed>>
    BY ONLY <2>2, <2>3
  <2>4. CASE /\ interest[e] # None
             /\ interest' = [interest EXCEPT ![e] = mask]
             /\ oneshot' = [oneshot EXCEPT ![e] = TRUE]
             /\ armed' = [armed EXCEPT ![e] = TRUE]
    BY ONLY <1>2, <2>1, <2>2, <2>4
  <2> QED
    BY ONLY <1>4, <2>3, <2>4
<1>6. Looked(c)' \/ Unregistered(c)'
  BY <1>1, <1>2, <1>5 DEF Looked, Reportable, Unregistered
<1>7. \A d \in Conn : d # c => (Looked(d) => Looked(d)')
  BY <1>1, <1>2, <1>5 DEF Looked, Reportable, Active, Local, Queued, Runs, Registered
<1>8. \A d \in Conn : Parked(d) => Parked(d)'
  BY <1>1, <1>5 DEF Parked, Answered
<1>9. \A d \in Conn : d # c => (Unregistered(d) => Unregistered(d)')
  BY <1>1, <1>2, <1>5 DEF Unregistered
<1>10. LookedInv'
  BY <1>1, <1>5, <1>6, <1>7, <1>8, <1>9 DEF LookedInv, Open, Forgotten
<1>11. EdgeInv'
  <2>1. ASSUME NEW f \in Fd, f # e, conn_manager_[f] # None, EdgeLooked(f)
        PROVE  EdgeLooked(f)'
    <3>1. PICK d \in Conn : d = conn_manager_[f] /\ d # c
      BY <1>3, <2>1, Owners
    <3>2. Reading(d) => Reading(d)'
      BY <1>1, <1>2, <3>1 DEF Reading, Reads
    <3> QED
      BY <1>1, <1>5, <2>1, <3>1, <3>2 DEF EdgeLooked
  <2> QED
    BY <1>1, <1>5, <2>1, EdgeKept
<1>12. SocketInv' /\ HeadInv'
  BY <1>1 DEF SocketInv, HeadInv, Open
<1> QED
  BY <1>10, <1>11, <1>12

LEMMA ReleaseWatch ==
  ASSUME WatchInv, Release
  PROVE  Watch'
<1> USE DEF WatchInv, Watch
<1>1. /\ step = "release" /\ step' = "idle" /\ running' = None
      /\ UNCHANGED <<oneshot, armed, conn_manager_, batch, local, taskQueue_, dropped>>
      /\ Reap
  BY DEF Release, Pool!End, reactorVars
<1>2. ASSUME NEW c \in Conn, Open(c)', Looked(c)
      PROVE  Looked(c)'
  <2>1. Active(c) => Active(c)'
    BY <1>1 DEF Active, Local, Queued, Runs
  <2>2. Registered(c)' <=> Registered(c)
    BY <1>1 DEF Registered
  <2>3. Reportable(c) => Reportable(c)'
    BY <1>1, <1>2, ReapKeeps DEF Reportable
  <2> QED
    BY <1>2, <2>1, <2>2, <2>3 DEF Looked
<1>3. LookedInv'
  BY <1>1, <1>2, ReapKeeps, LookedKept
<1>4. EdgeInv'
  <2>1. \A f \in Fd : EdgeLooked(f) => EdgeLooked(f)'
    BY <1>1 DEF EdgeLooked, Reading
  <2> QED
    BY <1>1, <2>1, ReapFacts, EdgeKept
<1>5. HeadInv'
  BY <1>1 DEF HeadInv
<1> QED
  BY <1>1, <1>3, <1>4, <1>5, ReapKeeps

LEMMA EraseEndsWatch ==
  ASSUME WatchInv, EraseEnds
  PROVE  Watch'
<1> USE DEF WatchInv, Watch
<1>1. /\ step = "erasing" /\ step' = "release"
      /\ conn_manager_' = [conn_manager_ EXCEPT ![fd_[running.conn]] = None]
      /\ UNCHANGED <<oneshot, armed, batch, local, taskQueue_, running, dropped>>
      /\ Reap
  BY DEF EraseEnds, Erase, poolVars
<1>2. PICK e \in Fd, c \in Conn : e = fd_[c] /\ c = running.conn /\ fdTable[e] = c
  BY <1>1, InTask
<1>3. ~Registered(c)'
  BY <1>1, <1>2, ErasedIsOut
<1>4. ASSUME NEW d \in Conn, Open(d)', Looked(d)
      PROVE  Looked(d)'
  <2>1. Active(d) => Active(d)' \/ d = c
    BY <1>1, <1>2 DEF Active, Local, Queued, Runs
  <2>2. Registered(d)' => Registered(d)
    BY <1>1, EpollNekoAssumption DEF Registered, OwnInv, TypeInv, TypeOK
  <2>3. Reportable(d) => Reportable(d)'
    BY <1>1, <1>4, ReapKeeps DEF Reportable
  <2> QED
    BY <1>3, <1>4, <2>1, <2>2, <2>3 DEF Looked
<1>5. LookedInv'
  BY <1>1, <1>4, ReapKeeps, LookedKept
<1>6. EdgeInv'
  <2>1. /\ conn_manager_'[e] = None
        /\ \A f \in Fd : f # e => conn_manager_'[f] = conn_manager_[f]
    BY <1>1, <1>2 DEF OwnInv, TypeInv, TypeOK
  <2>2. ASSUME NEW f \in Fd, f # e, conn_manager_[f] # None, EdgeLooked(f)
        PROVE  EdgeLooked(f)'
    <3>1. PICK d \in Conn : d = conn_manager_[f] /\ d # c
      BY <1>1, <1>2, <2>2, InTask, Owners
    <3>2. Reading(d) => Reading(d)'
      BY <1>1, <1>2, <3>1 DEF Reading, Reads
    <3> QED
      BY <1>1, <2>1, <2>2, <3>1, <3>2 DEF EdgeLooked
  <2> QED
    BY <1>1, <2>1, <2>2, ReapFacts, EdgeKept
<1>7. HeadInv'
  BY <1>1 DEF HeadInv
<1> QED
  BY <1>1, <1>5, <1>6, <1>7, ReapKeeps

-----------------------------------------------------------------------------
(* The clients, and the theorem.                                           *)

LEMMA ClientWatch ==
  ASSUME WatchInv, Clients
  PROVE  Watch'
<1> USE DEF WatchInv, Watch
<1>1. PICK c \in Conn : Client(c)
  BY DEF Clients
<1>2. UNCHANGED <<conn_manager_, batch, local, taskQueue_, running, step, out, filer, dropped>>
  BY DEF Clients, serverVars, reactorVars, poolVars, connVars
<1>3. /\ UNCHANGED <<fdTable, oneshot, interest>>
      /\ \A f \in Fd : armed[f] => armed'[f]
      /\ \A d \in Conn : Open(d)' => Open(d)
  BY <1>1 DEF Client, Connect, SendRequest, Drain, Leave, Edge, Open,
              OwnInv, TypeInv, TypeOK, KernelTypeOK
<1>4. \A d \in Conn : Looked(d) => Looked(d)'
  BY <1>2, <1>3 DEF Looked, Reportable, Active, Local, Queued, Runs, Registered
<1>5. \A f \in Fd : EdgeLooked(f) => EdgeLooked(f)'
  BY <1>2, <1>3 DEF EdgeLooked, Reading
<1>6. SocketInv'
  BY <1>3 DEF SocketInv
<1>7. EdgeInv'
  BY <1>2, <1>3, <1>5, EdgeKept
<1>8. HeadInv'
  BY <1>2 DEF HeadInv
<1>9. LookedInv'
  BY <1>2, <1>3, <1>4 DEF LookedInv, Forgotten, Parked, Answered, Unregistered
<1> QED
  BY <1>6, <1>7, <1>8, <1>9

LEMMA WatchStep == WatchInv /\ [Next]_vars => WatchInv'
<1> SUFFICES ASSUME WatchInv, [Next]_vars
             PROVE  Watch'
  BY OwnStep DEF WatchInv
<1>1. CASE Reactor
  <2>1. CASE \E f \in Fd : \/ HandleHup(f) \/ HandleRdHup(f)
                          \/ HandleMissing(f) \/ HandleLookup(f)
                          \/ \E c \in Conn : Accept(c, f)
    BY <2>1, HangUpWatch, MissingWatch, LookupWatch, AcceptWatch
  <2> QED
    BY <1>1, <2>1, WaitWatch, ListenerWatch, EnqueueWatch, RejectedWatch DEF Reactor
<1>2. CASE Worker
  <2>1. CASE \E c \in Conn : AssertFails(c) \/ Read(c) \/ Write(c)
    BY <2>1, AssertWatch, ReadWatch, WriteWatch, NoBodyWatch DEF Write
  <2> QED
    BY <1>2, <2>1, BeginWatch, EraseBeginsWatch, EraseEndsWatch, ReleaseWatch, RearmWatch
       DEF Worker
<1>3. CASE Clients
  BY <1>3, ClientWatch
<1>4. CASE UNCHANGED vars
  <2>1. UNCHANGED <<phase, fdTable, oneshot, interest, armed, batch, conn_manager_, local,
                    taskQueue_, running, step, out, filer, dropped>>
    BY <1>4 DEF vars, kernelVars, serverVars, reactorVars, poolVars, connVars
  <2>2. \A c \in Conn : Looked(c) => Looked(c)'
    BY <2>1 DEF Looked, Reportable, Active, Local, Queued, Runs, Registered
  <2>3. \A f \in Fd : EdgeLooked(f) => EdgeLooked(f)'
    BY <2>1 DEF EdgeLooked, Reading
  <2> QED
    BY <2>1, <2>2, <2>3, QuietWatch
<1> QED
  BY <1>1, <1>2, <1>3, <1>4 DEF Next

(* Whatever clients send and when, every open connection is armed in epoll *)
(* or has an event or a task that will look at it, except after a response *)
(* without a file (HylChan.cpp:104), a dropped task (HylChan.cpp:70, 75)   *)
(* and a registration that failed (HylChan.cpp:43-46).                     *)
THEOREM NoneIsForgotten == SafetySpec => []NeverForgotten
<1>1. SafetySpec => []WatchInv
  BY WatchInit, WatchStep, PTL DEF SafetySpec
<1> QED
  BY <1>1, WatchIsEnough, PTL

=============================================================================
