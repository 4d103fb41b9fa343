# Verification of the HylChan server

HylChan is a small HTTP server in C++: one reactor thread waits on epoll, accepts
connections and hands reads and writes to a pool of worker threads, which parse
requests, fill buffers, send files and re-arm the connection's descriptor. This
directory holds TLA+ models of it, TLC configurations that check them on small
instances, and TLAPS proofs.

    tlc -config MCThreadPoll.cfg MCThreadPoll      # likewise the other .cfg files
    tlapm ThreadPollProofs.tla                     # likewise the other ...Proofs modules

Paths below are relative to `src/`.

## 1. Inventory

| Component | State | Operations | Talks to |
|---|---|---|---|
| `ThreadPoll` (`utils/ThreadPoll.*`) | `state_`, `mutex_`, `cv`, `taskQueue_`, threads | constructor, destructor, `enqueueTask`, worker loop | called by `HylChan::loop`; runs its lambdas |
| `HylChan` (`hy0chan/HylChan.*`) | the loop's `channelList`, inherited `conn_manager_` | `loop`, `processRead`, `processWrite` | `Reactor`, `ThreadPoll`, `HttpServer`, `HttpConn` |
| `HttpServer` (`utils/HttpServer.*`) | `conn_manager_`, `conn_count`, `listen_sk_` | `accept_client`, `start`, own `loop` (overridden) | `Socket`, `HttpConn` |
| `EpollNeko`, `Channel`, `Reactor` | the epoll instance | `addSocket`, `modifySocket`, `poll`, `fillChannelList` | kernel |
| `Socket`, `SocketOpt` | `fd_`, `state_` | `close`, `shutdownWrite`, `send`, `readv`, `accept` | kernel |
| `HttpConn` (`utils/HttpConn.*`) | `state_`, `client_sk_`, two buffers, parser, response, filer | `http_go`, `onRequest`, `send`, `sendBody`, `shutdownWrite`, `close_conn`, destructor | everything below it |
| `Buffer` (`utils/Buffer.*`) | vector, `readerIndex_`, `writerIndex_` | `append`, `ensureWritable`, `readFD`, `retrieve*`, `undoWrite` | `HttpConn`, `HttpContext`, `Response` |
| `HttpContext`, `Request` | parse state, request | `parseRequest`, `reset` | `Buffer` |
| `Response` | status, body, `closeConnection_`, `fileSize_` | setters, `append2Buffer`, `reset` | `Buffer` |
| `Filer` (`utils/Filer.*`) | `offset_`, `left_`, `size_`, callback | `exchange`, `send` | `Mmaper`, kernel |
| `Mmaper`, `MmapManager` | cache of mapped files | `getFiler`, `init`, `getMap`, `getFd` | file system |
| `main` | the `HylChan` object | start-up, `start`, destruction at its end | `HylChan` |
| `ServerParams`, `State`, `NonCopyable`, `Formater` | settings, helpers | | |

What is hard here:

* **Two kinds of threads, one map.** `conn_manager_` is used without a lock by the
  reactor and, on one path, by a worker. Connection objects live as long as a
  `shared_ptr` does: in the map, in a queued lambda, in a local variable.
* **Descriptor numbers are reused** as soon as the last `shared_ptr` goes away, while
  events of the same `epoll_wait` are still being handled.
* **The re-arming protocol.** A one-shot descriptor that nobody re-arms is a connection
  nobody looks at again; a descriptor that is not one-shot yields several tasks.
* **The pool's mutex is held while a task runs** (`ThreadPoll.cpp:25-32`). All tasks are
  serialised and the reactor waits for the running task in `enqueueTask`. That is what
  makes much of the rest correct, and a task that does not return stops the server.
* **Partial sends, hang-ups at any time, a full queue, limits.**
* **Index arithmetic** of the buffer, and of `left_` against `sendfile`.
* **State that outlives a request**: parser, `Response` and `Filer` are used again and again
  for one connection, and each is reset only partly. Requests come cut and bundled.
* **A cache that is never refreshed**, over files that others change.
* **Destruction while workers run**: tasks use the server through raw pointers.

What makes each component correct: the pool runs accepted tasks once, in order, one at a
time, and can be closed; the server uses descriptors only while they belong to the
connection it means, keeps watching every open connection, answers and releases
connections, respects its limit, and can be taken down at any moment; a buffer is a queue of
bytes; the parser is never left where it loops; responses come in the order of the requests,
each with what belongs to it and nothing of an earlier one; what follows a response is the file
it announced, from its first byte on; descriptors of files are accounted for.

`PROJECT.json` lists the hazards by line, with the properties about each, and the
components that are only partly modelled or not at all.

## 2. Modules

    SerialExecutor <---refines--- ThreadPoll <--- MCThreadPoll, ThreadPollProofs
          ^
          | INSTANCE
    EpollNeko <--- HylChan <--- MCHylChan, HylChanProofs <--- PoliteProofs <--- WatchProofs
                      ^-------- ServerLife <--- MCServerLife, ServerLifeProofs
    ByteQueue <---refines--- Buffer <--- MCBuffer, BufferProofs
    HttpContext <--- ParseLoop <--- HttpConn <--- MCHttpConn, HttpConnProofs
    MmapManager <--- Filer <--- MCFiler, FilerProofs

(`<---` is EXTENDS, unless it says otherwise.) The last three lines look inside what HylChan
takes as one step or as a free choice. They are tied to it by properties: `MatchesHylChan`
says that HttpConn's `http_go` is one of HylChan's `ReadRequest`, `ReadNothing` and `ReadSpins`;
`AnswersAreFinal` of Filer is why HttpConn can give a url one answer; `FileIsCompleted` is why
HylChan can assume that a file which is tried again and again is sent.

**SerialExecutor** is what the pool promises to the reactor: a bounded queue, one task at
a time, and no submission while a task runs.

**ThreadPoll** is `ThreadPoll.{h,cpp}` with every critical section one action. `mutex_` is
only visible as taken while a task runs (`Take` to `Finish`); all other sections are
atomic because every access in them is protected. The unprotected steps are separate:
`NotifyOne` after the unlock, `NotifyAll`, and `Started`, the constructor's write of
`kStart` without the mutex (formally a race with the workers' reads; modelled as an atomic
write at any moment after the threads have started). `Sleep`, `Exit` and `Take` are the
three outcomes of evaluating `cv.wait`'s predicate; spurious wake-ups are included.

**EpollNeko** is the environment: connections (`phase`, receive queue, send queue,
client's half), the descriptor table, and epoll as the kernel implements it.
`Reported` is `tcp_poll` masked by the registration; reporting disarms a descriptor until
the next `EPOLL_CTL_MOD` (one-shot) or the next change of the socket (edge-triggered).
`AddSocket` may fail, as `epoll_ctl` may; `interest` is then `None`, and a later `ModifySocket` fails too.
Clients connect, send, read, close and reset when they like.

**HylChan** is the server: `EpollWait` fills `batch` (the `channelList`); its events are
handled in any order by `Accept`, `AcceptFails`, `Refuse`, `HandleHup`, `HandleRdHup`,
`HandleMissing` and `HandleLookup` + `Enqueue`/`EnqueueRejected`, which are the branches of
`HylChan::loop`. `Accept` ends with `AddListen`, whose failure the loop tests and ignores
(`HylChan.cpp:43-46`). The pool appears as an instance of SerialExecutor, which is why the
proof that ThreadPoll implements it matters: a task starts with `Begin` and ends with
`Release`, and `Enqueue` waits for the running task. In between are the steps of
`processRead` (`ReadRequest`, `ReadNothing`, `ReadSpins`) and `processWrite` (`WriteHead`,
`WriteNoBody`, `WriteEmptyBody`, `WriteFile`, the two `...Stops`, `ShutdownWrite`,
`EraseBegins`, `EraseEnds`), the re-arming call `Rearm`, and the assertion. After every
step that drops a `shared_ptr`, `Reap` destroys the objects that nobody holds
and closes their descriptors, as `~HttpConn` and `~Socket` do.

| variable | code |
|---|---|
| `conn_manager_`, `conn_count` | the members of `HttpServer`; the placeholder under key -1 never changes and is left out |
| `batch`, `local` | `channelList`, and the local `conn` captured by the lambda about to be enqueued |
| `taskQueue_`, `running`, `step` | the pool's queue, the running task, and where its worker is |
| `fd_`, `state_` | of `client_sk_` and of `HttpConn` |
| `rbuf`, `ctx`, `out`, `filer`, `closing` | `readBuffer_` (requests in it), `context.state_`, whether `writeBuffer_` is empty, `filerPtr_`, `response->closeConnection_` |
| `dropped` | history (HylChan and HttpConn): the connection's last task was dropped because the queue was full |
| `halted` | an assertion failed, or a data race happened |
| `serverState`, `reactor_`, `threadPoll_`, `listen_sk_` | (ServerLife) `HttpServer::state_` and the states of the members, with "none" and "gone" before and after their life |
| `readBuffer_`, `writeBuffer_`, `context`, `closing`, `fileSize_`, `filer` | (HttpConn) members of `HttpConn`, `Response` and `Filer` |
| `asked`, `unsent`, `cuts`, `patient`, `wire` | (HttpConn) the client, and what it was sent |
| `interest`, `edge`, `tasks` | (HttpConn) registration in epoll, and this connection's tasks in the pool |
| `mmaper_`, `size_`, `offset_`, `left_`, `cpFd` | (Filer) its members |
| `mmap_manager_`, `openFiles`, `touched` | (MmapManager) the cache, the descriptors the process has open, and the names whose file changed since |
| `names`, `length`, `changes` | (MmapManager) the file system |

**ServerLife** puts the main thread around HylChan: `life` says which constructor, call or
destructor comes next. Each call of the start-up can fail (`ConstructServer`,
`ConstructReactor`, `Start`), and the constructors go on all the same, as in the code.
`LoopReturns` is an error of `epoll_wait` or of the listening socket, possible between any two
events. `DestroyHylChan`, `ClosePool`, `Join`, `DestroyReactor` and `DestroyServer` are the
destructors in the order of the members; `Work` goes on meanwhile until the pool is closed.

**Buffer** has the vector's bytes, both indices and the assertions; `This`, `Ensured`,
`Topped`, `Grown` and `Written` are the private functions as operators on a buffer as a value,
so that `ReadFD` is the composition the code has. **ByteQueue** is the queue of numbered bytes it
implements.

**HttpContext** is the parser as a function of a context and the data, **ParseLoop** the loop of
`parseRequest`, iteration by iteration; `LoopComputes` says that the two agree (proved by
`LoopEndsAsSaid`), so that proofs about connections only need the first. Text is a sequence of tokens: a request line named for its url, a
header, CRLF, a piece of a body.

**HttpConn** is one connection with a client that sends whole or cut requests whenever it
likes. The connection is one that was registered. `Enqueue` and `EnqueueRejected` (the tasks of other
connections fill the queue) are the reactor, `HttpGo` and `HttpGoFails` are `processRead`; `SendPart` and
`SendAll` are `processWrite`, which stopped early or got to `sendBody`. Buffers are sequences of
tokens and of responses, so order and ownership of what is sent can be seen.

**MmapManager** is the cache and `Mmaper` over a file system in which names change their meaning
and files their length; **Filer** (a byte on the wire is the file it comes from, or `None` for a zero of
a mapping that is longer than its file, and its position) is the sending of files on one connection after another:
`Request` (with `exchange`), `SendSmallFile`, `SendBigFile`, `SendNothing`, and `Reconnect`
(`~Filer`).

The `MC...` modules only give constants their values. Definitions such as
`ResetForgotten`, next to the definition they are a variation of, are plausible slips of
the code; each property is known to notice one (`mutants` in `PROJECT.json`).

### Abstractions

* In HylChan data is counted. A request is one unit, arrives in one segment, is complete and has
  no body; its outcome (a file, an empty file, a page without a file, 400) and whether it asks
  to close are chosen freely. Of a malformed request the parser takes one line or all (`Taken`).
  HttpConn has the data; requests in pieces and bodies occur there only.
* `accept4` may fail at any time, `send` may stop with or without room in the send queue (an `open` or
  `mmap` that failed leaves it as it is), and `epoll_ctl(EPOLL_CTL_ADD)` may fail for any connection.
* `closing` is decided by the request: `HttpConn.cpp:149` also compares `getKeepAliveTimeout()` with -1, but the
  setting is 60000 (`ServerParams.cpp:12`) and nobody changes it.
* In HttpConn data can be cut between tokens, at no more than `MaxCuts` places; lengths are
  numbers of tokens. Responses leave whole. A file is one item, and a file that is sent once more
  leaves no trace in `wire`; its bytes are the subject of Filer.
* `http_go` is one step, and so is one call of `send` or `sendBody` with its loop. They use
  only objects of the connection and its socket; what the client does meanwhile commutes
  with them or is one of their outcomes.
* A new connection may get any closed descriptor number, not only the lowest.
* What belonged to a destroyed object goes back to its initial value; nobody reads it.
* A worker's `erase` takes two steps. An access of the reactor to the map in between is a
  data race; the model then either stops or goes on as if the calls had been ordered.
* In Filer one connection is served at a time; the pool serialises the calls of all connections,
  and the Filers share nothing but the cache.
* The server is edge-triggered, as `main.cpp:29` sets it; SIGPIPE is ignored.

## 3. Runs

| run | instance | shows |
|---|---|---|
| `thread_poll` | 3 workers, queue 2, 4 submissions | type and state invariants, `ImplementsSerialExecutor`, `AcceptedTasksRun`, `DestructorReturns` |
| `polite` | 2 connections, 2 descriptors, 2 requests each, no pipelining, queue 2 | `DescriptorOwnership`, `NeverForgotten`, `OneTaskPerConnection`, `AssertionsHold`, `NeverSpins` |
| `pipelined` | 2 connections, 1 descriptor, pipelining, 3 requests of one of them for empty files, queue 1 | `TypeOK`, `NeverForgotten`, `LeaversAreReleased` |
| `live` | 2 connections, 2 descriptors, 1 request each for a file or a page, queue 1 | `LeaversAreReleased`, `FirstRequestAnswered` |
| `life` | 2 connections, 2 descriptors, limit 1, 1 request each, queue 1 | `ConnectionLimit`, `TasksFindTheServer`, `NothingStaysOpen`, `ShutdownCompletes` |
| `buffer` | initial size 3, appends up to 3, 9 bytes | `TypeOK`, `SpaceIsMade`, `ImplementsByteQueue`, `GrowsOnlyWhenFull` |
| `http` | up to 3 requests of 5 kinds, 1 cut, tasks accepted or refused | `TypeOK`, `LoopComputes`, `AnswersInOrder`, `Framing`, `NoInheritedHeaders`, `AnswersFollowLines`, `LoopsOnlyAfterEmptyRead`, `AbortsOnlyForLateBody`, `MatchesHylChan`, `EachIsAnswered` |
| `filer` | 2 names, 2 files up to 4 bytes, big from 3 on, `size_t` modulo 8, 1 change | `TypeOK`, `WireIsFile`, `FilesAreOwned`, `AnswersAreFinal`, `FileIsCompleted` |
| `asserts`, `limit`, `close`, `buffer_spill` | see below | disagreements with the repository |

Why the bounds suffice. *Pool*: with a queue of two and four submissions the queue fills,
rejects, drains and is closed at every point; three workers allow one that runs, one that
sleeps and one in between. *Server*: two connections are enough for every conflict over a
descriptor, an event or a queue place between an old and a new one; one descriptor forces
reuse; two requests reach the state left behind by the first (parser, Filer, registration).
A queue of one is filled by the task of one connection, so that the task of the other is refused: that
happens in `pipelined`, `live` and `life`, and in `polite` a queue of two holds a task of each. In `pipelined` the
three requests are what it takes for two tasks of one connection to meet a third event: `step = "spin"`,
`halted = "assert"` and `dropped` are all reached; its requests are for empty files, whose responses are complete at once, so that
connections also get to their end. In every run a registration may fail.
`live` has the two kinds of response that are not finished there: a file, and a page that leaves
the connection parked. *Life*: a limit of one makes the second connection the one too many; one open
connection can have a task in hand, queued or running at each step of the shutdown, and the
theorems extend the safety properties to any number. *Buffer*: nine bytes take a vector of
three through two doublings with topping at every offset. *HttpConn*: three requests are one
before, one in the middle and one after; the five kinds are each kind of answer, with and
without keep-alive, with one header and with two, one body, one malformed request; one cut reaches every place of a request,
and requests also arrive in any bundling. *Filer*: sizes on both sides of `BIG_FILE_SIZE` with
at least two bytes each, so that a file is sent in pieces; with one change a file grows, shrinks,
vanishes or is replaced at any moment, and eight values of `left_` are enough for it to wrap. A
second file shows what would remain of the first. Runs about the server do not check for deadlock: a
server without clients rests in `epoll_wait`, and `life` ends. `buffer` and `buffer_spill` stop
at `MaxBytes`, `http` and `filer` when the bounds are used up.

Symmetry of connections and of descriptors is used in the safety runs only.

### Fairness

`ThreadPoll`: the main thread finishes what it has begun, a free mutex is taken by one of
those that want it, a task returns. Nothing forces `enqueueTask` or the destructor to be
called. `HylChan`: the reactor thread and the worker that holds the mutex keep running (weak
fairness), a client that stays reads what it is sent (weak fairness of `Drain`), and for each
connection the sending of what is left (`WriteHead` with something in the buffer, or `WriteFile`) is
strongly fair: each `send` that finds room takes some bytes, a response is finite, and an `open` or `mmap` that failed
succeeds when it is tried often enough, so a response that is tried again and again is completed. Clients need not send,
leave or connect. `ServerLife`: outside the loop the main thread goes on, and so do the workers.
`HttpConn`: reactor and workers go on (weak fairness of `HttpGo` and of a report, whether its task is
accepted or not), and a response
that is tried again and again leaves (strong fairness of `SendAll`). `Filer`: `processWrite` is called as
long as it re-arms (weak fairness of `Send`), and sends that make progress happen again and again if
they are possible again and again (strong fairness).

### Disagreements with the repository

* `asserts`: a second request before the first is answered can make two tasks of one
  connection, because the first registration is not one-shot (`HylChan.cpp:39-43`); the second
  finds the connection shut down and `assert(conn->isAlive())` (`HylChan.cpp:86, 94`) ends the
  process. `polite` shows that this needs such a client.
* `limit`: `conn_count` is not decremented when a connection closes or an accept fails, so
  `max_connections` (`ServerParams.cpp:9`) is a limit on connections ever accepted.
* `close`: `Filer::send` resets `left_` before it tests it (`Filer.h:77-80`); a non-empty file is
  never finished, is sent again and again, and the connection that the response said would be
  closed is not.
* `buffer_spill`: `makeSpace` (`Buffer.h:184-190`) makes too little room when the rest of a large
  read has to be appended to a full vector, and its own assertion fails. `buffer`
  shows that nothing fails as long as neither an append nor `tmpBuf` is larger than the initial size.

No line of the repository contradicts the following, so no run is about them; the properties name
them as their exceptions or preconditions.

* `NeverForgotten` and `LeaversAreReleased`: three kinds of connections are `Forgotten`. `Parked`, a response without a file is
  never followed by a re-arm (`HylChan.cpp:104`); `dropped`, a task was refused by a full queue
  (`HylChan.cpp:70, 75`); `Unregistered`, `addListen` failed (`HylChan.cpp:43-46`). `Parked` asks for a registration
  that only a task makes: a connection that no task has answered yet is no exception. A forgotten
  connection is no exception either as long as something still looks at it (`Watched`).
* `LeaversAreReleased` and `FirstRequestAnswered` also name `Stuck`: a failed assertion, a data race, and a worker that
  loops in `parseRequest` with the pool's mutex held, for which the reactor waits in `enqueueTask` for
  ever. `FirstRequestAnswered` has `dropped` and `Unregistered` as exceptions, `EachIsAnswered` of HttpConn `dropped`.
* `AbortsOnlyForLateBody`: a body that arrives after its head breaks the assertion of `Buffer.h:129`
  (called from `HttpContext.cpp:53`).
* `AnswersInOrder` and `Framing` need a client that waits (`WellBehaved`): with a second request
  before the first response is written, the file of the one follows the page of the other, and a
  request that is cut inside its headers passes for a complete one.
* `LoopsOnlyAfterEmptyRead`: a read that finds nothing can leave the parser in `kGotAll`, where its next
  call never returns, with the pool's mutex held.
* `WireIsFile`: a mapped file that has become shorter is sent with zeros behind its end, up to the cached size
  (`Mmaper.cpp:55`, `Filer.cpp:31`). A big file is opened again by its name (`Mmaper.cpp:67`), and `sendfile` does not stop where the
  cached size ends; `left_` then wraps around (`Filer.cpp:60`). Hence `Steady`: with it every byte is the file's, without
  it a mapped file has its own bytes or zeros at their places.
* `AnswersAreFinal`: also the answer 503, given because a descriptor was lacking for a moment, is
  final.

## 4. Proofs

**ThreadPollProofs**, for any non-empty set of workers, any positive capacity and any number of
submissions. `IInv` is the conjunction of the types, `MutexInv` (the mutex is held exactly by the
worker that is in a task), `OwnerInv` (how far the main thread has come determines `state_`)
and the three state invariants, which are not inductive alone: `NoLostWakeup` needs
`OwnerInv` to know that workers exist, `NoSleeperLeft` needs that the queue and
`state_` decide who may sleep. From it follow `TypeCorrect`, `WakeupsAreNotLost`,
`NobodySleepsPastClose`, `WorkersStayUntilClose`, and `Refinement`: each step of the pool is a step
of SerialExecutor or a stutter.

**HylChanProofs**, for any number of connections, descriptors and requests, pipelined
or not, any capacity and limit.

* `TypeCorrect`, from `TypeInv` (types, and a worker is inside a task exactly when there is one).
* `DescriptorsAreOwned`: `DescriptorOwnership` is inductive together with `TypeInv` and
  `OpenAccepted` (descriptors are open for accepted connections only), which excludes that a
  connection from the backlog already has one. `OwnInv` also has `UnknownSilent` (a descriptor whose registration failed
  is never armed), which the modules that build on it need. The lemmas follow the code: `ReapOwn` for steps
  that give up pointers, `KeepOwn` for steps that leave them or pass them on, `AcceptOwn` for the
  new connection.
* `LimitIsKept`, from `Counted`: the open connections are finitely many and no more than
  `conn_count`.

**PoliteProofs**, for the same constants and clients that wait for each response
(`~Pipelining`): `PoliteHasOneTask`, `PoliteAssertionsHold`, `PoliteNeverSpins`. The three properties
only look at the end of a long chain, so that the invariant `PoliteInv` has to say what the
re-arming protocol keeps, in seven parts on top of the ownership of descriptors:

* `SoleTask` and `TokenInv`: a connection in the map has one token, which is its armed
  descriptor, a data event of it in `channelList`, or one task (`Active`: about to be enqueued,
  queued, or running and not yet re-armed). While there is an event or a task the
  descriptor is `Silent`; as long as the first registration, which lacks EPOLLONESHOT, is in force, only
  the client's waiting keeps it so, which is where `~Pipelining` is needed.
* `StaleInv`: what is left of a connection that is no longer in the map. No data event of it is left,
  so that its successor on the same descriptor cannot get one; a hang-up may be left, and
  may close the successor, but never one that has a task.
* `FirstInv`, `OpInv`: data on the first registration is a request the client waits on; a read finds
  something to read, and a write comes after a re-arming.
* `CloseInv`: a connection that was shut down is only held by the task that erases it.
* `ParserInv`: the parser is between requests.

There is one lemma per action; steps that destroy connections share `GivenUp`, steps that
pass a task on `PassedOn`, steps inside a task `Inside`. `NeverMissing` and `NeverTaken` show that the four
branches for things gone wrong (a missing entry, a dead connection, an empty read, the loop) are never taken.

**WatchProofs**, for the constants of HylChanProofs, so with pipelining too: `NoneIsForgotten`. There a
connection may have several tasks, some of which were begun for an earlier connection on its
descriptor, and no token can be followed. It is enough to follow the last of them.
`EdgeInv`: as long as a connection has its first registration, either that is armed, or an event without
EPOLLOUT is in `channelList`, or a read task is on its way (or was dropped); a write task, which does
not re-arm if there is no file, cannot be the one that counts. A read task always re-arms, and then
`LookedInv` takes over: what looks at a connection is passed from the descriptor to
`channelList`, to a task and back, and a task ends without re-arming only after it has erased the
connection or sent a response without a file, whose head is out (`HeadInv`). A connection that could not be
registered stays so (`Unregistered`), because a re-arm of it fails.

**ServerLifeProofs**, for the same constants. `LifeInvariance` is the invariant of start-up and
shutdown; besides the types and its three properties it has to say that the main thread has no task in hand
outside the loop, that a pool is closed before it goes and takes the queue with it, and that
without a reactor the queue stays empty and the loop does not run. `TasksAlwaysFindTheServer` and `NothingIsLeftOpen` follow. `OwnedToTheEnd` and `LimitToTheEnd` extend
the invariants of HylChanProofs over the three steps of the main thread that HylChan does not
have; the others are steps of HylChan or stutters of it (`NewSteps`).

**FilerProofs**, for any names, files, sizes, word size and number of changes. The invariant adds
to `TypeOK` and `FilesAreOwned`: `CacheInv` (an entry whose name was not touched agrees with the file system),
`FilerInv` (a Filer that is started holds an entry of the cache and its size; between responses that size is
0, because the code never finishes a file that has any bytes, so `exchange` finds `offset_` at 0 without resetting it), and
`ProgressInv` (`offset_ + left_ = size_`, and the first `offset_` bytes are on the wire, as long as the file is
mapped or has not changed). From it `TypesAreCorrect`,
`FileFollowsResponse`, `NoFileIsLost` and `AnswersStay`.

**BufferProofs**, for any initial size and any number of bytes. `TypeCorrect`; `BufferIsQueue`, the
refinement of ByteQueue (each of `append`, `readFD`, `retrieve` and `undoWrite` is one step of the
queue: topping and growing move the readable bytes and keep their order); `GrowthIsNeeded` for
`GrowsOnlyWhenFull`. That space is always made is not a theorem: with the sizes of the code, 1024 and a
`tmpBuf` of 65536, it is false (`buffer_spill`). What holds is `AbortsAreForMore`: an assertion only ever fails
when a call asks at once for more bytes than the vector is long.

**HttpConnProofs**, for any set of requests, any number of them, cut anywhere and any number of
times. All safety and action properties of the run `http` are proved.

* `TypeCorrect`, `HeadersAreNotInherited`, `OnlyEmptyReadsLoop`: `ParsedContext` says in which states
  `ParseRequest` can leave a context; with it the properties are inductive together with the types.
* `LoopEndsAsSaid`: the iterations of `parseRequest` end as `ParseRequest` says (`LoopIsParseRequest`, by
  induction on what is left to consume).
* `NoLineIsAnsweredTwice`, from `LinesAnswered`: what was put out, and the lines that are still to come (in
  `readBuffer_`, in the socket, at the client), can be assigned to requests in their order, the
  former before the latter, each request to at most one. Parsing takes the first line away and adds an answer to it.
* `AbortsForLateBody`, from `BodyInv`: without bodies there is nothing to wait for; a client that sends whole
  requests leaves no head without its end or its body at hand (`Closed`), neither in what was
  received nor in what is unsent.
* `ReadsAreAsInHylChan`: empty lines in front of a request are the one place where `http_go` consumes less than a
  request; it takes one of them at a time (`OneBlankIsTaken`).
* `EachGetsItsAnswer` and `FilesFollowTheirHeads`, from `WellInv`, for clients that wait and send what
  they should (`WellBehaved`): the connection is between two requests, or the one request that is not
  answered is in one place; there is `OneTask`, which knows by `interest` what it is for; and `Framed`
  relates `fileSize_` and the filer to the last head.

Induction is done with sets: the least number with a property exists (from
`NatLessThanWellFounded`), so that a smallest counterexample can be picked, and a maximum in the same
way. No theorem with an operator as parameter is needed for that.

Assumptions are the named ones of the constants (`ThreadPollAssumption`,
`EpollNekoAssumption`, `HylChanAssumption`, `MmapManagerAssumption`, `FilerAssumption`,
`HttpContextAssumption`, `HttpConnAssumption`, `RequestAssumption`, `BufferAssumption`), which the runs
evaluate. `RequestAssumption` says what a request is: a line, headers each with its CRLF,
an empty line, and a body if there is one.

Only model-checked: the liveness properties (`AcceptedTasksRun`, `DestructorReturns`,
`LeaversAreReleased`, `FirstRequestAnswered`, `ShutdownCompletes`, `EachIsAnswered`, `FileIsCompleted`), which
are out of the prover's reach. Every invariant, every action property and every refinement
that a passing run checks is also a theorem; `OneTaskPerConnection`, `AssertionsHold` and `NeverSpins` for
clients that wait, as in the run. The exception is `SpaceIsMade`, which holds in the run `buffer` only because of its bound on
appends and on `tmpBuf`.

## 5. Not modelled

The base class's own `loop`, which `HylChan` overrides; `deleteSocket`, `create_clientfd`,
`connect`, `Buffer::swap` and `shrink`, `HttpConn::shutdown`, which nobody calls; the growth of
the events array, which only limits how much one `epoll_wait` reports; the profiler and its signal
handler; the wording of heads and pages. `ServerParams`, `State`, `NonCopyable` and
`Formater` have no behaviour of their own. Of the time-outs of `ServerParams` only the keep-alive one is read, to compare it
with -1 (`HttpConn.cpp:149`); no time is ever measured.

## 6. Plan

Nothing is left of the plan of modules, runs and theorems. What could be added are safety
parts of the liveness arguments, as invariants: that `Watched` connections get closer to being
looked at, and that a response gets shorter.
