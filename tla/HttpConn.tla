------------------------------ MODULE HttpConn ------------------------------
(***************************************************************************)
(* One connection in detail: utils/HttpConn.{h,cpp} and utils/Response.*   *)
(* over the parser (module HttpContext), driven by the tasks that          *)
(* HylChan::loop, processRead and processWrite make of its events.  What   *)
(* module HylChan leaves open is decided here by the data: what a read     *)
(* finds, what is answered, in which order, and which file follows.        *)
(*                                                                         *)
(* A url has one answer, because the cache gives the same one for ever     *)
(* (AnswersAreFinal of module Filer).  The connection is one that          *)
(* addListen has registered; the others get no task (HylChan.Unregistered).*)
(***************************************************************************)
EXTENDS ParseLoop, SequencesExt

CONSTANTS
  Request,      \* what clients send, each a sequence of tokens
  Answer,       \* of each url: "file", "empty" (a file), "page" or "nothing"
  None,         \* no file
  MaxRequests,  \* bound: requests of the client
  MaxCuts       \* bound: places where a request is cut on its way

(* A line, n lines of headers, an empty line, and the body they announce.  *)
IsRequest(r) ==
  \E n \in 0 .. Len(r) :
    /\ r[1] \in Url \cup Header
    /\ \A k \in 1 .. n : r[2 * k + 1] \in Header
    /\ \A k \in 1 .. n + 1 : r[2 * k] = CRLF
    /\ r[2 * n + 3] = CRLF
    /\ \A i \in 2 * n + 4 .. Len(r) : r[i] = Body
    /\ Len(r) = 2 * n + 3 + (IF "Content-Length" \in ToSet(r) THEN BodySize ELSE 0)

ASSUME RequestAssumption == \A r \in Request : IsRequest(r)

ASSUME HttpConnAssumption ==
  /\ Request \subseteq Seq(Token)
  /\ Answer \in [Url \cup {"unknown"} -> {"file", "empty", "page", "nothing"}]
  /\ Answer["unknown"] = "nothing"
  /\ None \notin Url
  /\ MaxRequests \in Nat
  /\ MaxCuts \in Nat

VARIABLES
  asked,        \* history: the requests of the client
  unsent,       \* the part of them that is still to be sent
  cuts,         \* requests cut so far
  patient,      \* history: has each request waited for the response before?
  rx,           \* receive queue of the socket
  interest,     \* epoll: "first" (IN, not one-shot), "IN", "OUT" or "none"
  edge,         \* has data arrived since "first" was last reported?
  tasks,        \* tasks of this connection in the pool's queue
  dropped,      \* history: was one refused since the last re-arm?
  state,        \* "kStart", "kClose", or "aborted" or "spins" in a task
  readBuffer_,
  context,
  closing,      \* response->closeConnection_
  fileSize_,    \* response->fileSize_: how many files it counts for, 0 or 1
  writeBuffer_, \* responses
  filer,        \* the file Filer holds, or None
  wire          \* history: responses and files the client was sent

clientVars == <<asked, unsent, cuts, patient>>
taskVars == <<interest, edge, tasks, dropped>>
responseVars == <<closing, fileSize_>>
vars == <<clientVars, rx, taskVars, state, readBuffer_, context, responseVars,
          writeBuffer_, filer, wire>>

(* A head with the page behind it, if there is one: "connection: close",   *)
(* or a content-length that announces so many files besides.               *)
Response == [status : {"200", "page", "0", "400", "503"},
             url : Url \cup {"unknown", None},
             close : BOOLEAN,
             announced : {0, 1}]
File == [file : Url]

TypeOK ==
  /\ asked \in Seq(Request)
  /\ unsent \in Seq(Token)
  /\ cuts \in 0 .. MaxCuts
  /\ patient \in BOOLEAN
  /\ rx \in Seq(Token)
  /\ interest \in {"first", "IN", "OUT", "none"}
  /\ edge \in BOOLEAN
  /\ tasks \in Seq({"read", "write"})
  /\ dropped \in BOOLEAN
  /\ state \in {"kStart", "kClose", "aborted", "spins"}
  /\ readBuffer_ \in Seq(Token)
  /\ context \in Context
  /\ closing \in BOOLEAN
  /\ fileSize_ \in {0, 1}
  /\ writeBuffer_ \in Seq(Response)
  /\ filer \in Url \cup {None}
  /\ wire \in Seq(Response \cup File)

Init ==
  /\ asked = <<>>
  /\ unsent = <<>>
  /\ cuts = 0
  /\ patient = TRUE
  /\ rx = <<>>
  /\ interest = "first"
  /\ edge = FALSE
  /\ tasks = <<>>
  /\ dropped = FALSE
  /\ state = "kStart"
  /\ readBuffer_ = <<>>
  /\ context = NewContext
  /\ closing = FALSE
  /\ fileSize_ = 0
  /\ writeBuffer_ = <<>>
  /\ filer = None
  /\ wire = <<>>

-----------------------------------------------------------------------------
(* The client and the reactor.                                             *)

IsResponse(item) == "status" \in DOMAIN item
Responses(items) == {i \in DOMAIN items : IsResponse(items[i])}

Ask(r) ==
  /\ Len(asked) < MaxRequests
  /\ unsent = <<>>
  /\ asked' = Append(asked, r)
  /\ unsent' = r
  /\ patient' = (patient /\ Cardinality(Responses(wire)) >= Len(asked))
  /\ UNCHANGED <<cuts, rx, taskVars, state, readBuffer_, context, responseVars,
                 writeBuffer_, filer, wire>>

(* The next n tokens arrive.                                               *)
Arrive(n) ==
  /\ n \in 1 .. Len(unsent)
  /\ IF n = Len(unsent) THEN UNCHANGED cuts ELSE cuts < MaxCuts /\ cuts' = cuts + 1
  /\ rx' = rx \o SubSeq(unsent, 1, n)
  /\ unsent' = Consumed(unsent, n)
  /\ edge' = (interest = "first")
  /\ UNCHANGED <<asked, patient, interest, tasks, dropped, state, readBuffer_, context, responseVars,
                 writeBuffer_, filer, wire>>

(* epoll_wait reports the connection, which disarms it.  Only the first    *)
(* registration, by addListen, is not one-shot.                            *)
Report ==
  /\ \/ interest = "first" /\ edge
     \/ interest = "IN" /\ rx # <<>>
     \/ interest = "OUT"
  /\ interest' = IF interest = "first" THEN "first" ELSE "none"
  /\ edge' = FALSE
  /\ UNCHANGED <<clientVars, rx, state, readBuffer_, context, responseVars,
                 writeBuffer_, filer, wire>>

Enqueue ==
  /\ Report
  /\ tasks' = Append(tasks, IF interest = "OUT" THEN "write" ELSE "read")
  /\ UNCHANGED dropped

(* The tasks of other connections fill the queue, and the loop ignores     *)
(* that enqueueTask has refused this one.                                  *)
EnqueueRejected ==
  /\ Report
  /\ dropped' = TRUE
  /\ UNCHANGED tasks

(* A task of the connection, up to its end.                                *)
Runs(task) == state = "kStart" /\ tasks # <<>> /\ Head(tasks) = task
ModifyListen(events) == interest' = events /\ edge' = FALSE /\ dropped' = FALSE

-----------------------------------------------------------------------------
(* processRead: http_go, onRequest and clientError.                        *)

ErrorPage(status) == [status |-> status, url |-> None, close |-> FALSE, announced |-> 0]

(* Response::reset leaves fileSize_ as it is.                              *)
FileSizeStale(url) == fileSize_
FileSizeSum(url) == fileSize_ + (IF Answer[url] = "file" THEN 1 ELSE 0)
FileSize(url) ==
  CASE Answer[url] = "file"  -> 1
    [] Answer[url] = "empty" -> 0
    [] OTHER                 -> fileSize_

AnswerTo(request) ==
  LET answer == Answer[request.url]
  IN  [status |-> IF answer \in {"file", "empty"} THEN "200"
                  ELSE IF answer = "page" THEN "page" ELSE "0",
       url |-> request.url,
       close |-> "keep-alive" \notin request.dict,
       announced |-> IF answer = "page" THEN 0 ELSE FileSize(request.url)]

(* A request was read and is complete, as far as the parser can tell.      *)
OnRequest(request) ==
  /\ writeBuffer_' = Append(writeBuffer_, AnswerTo(request))
  /\ closing' = ("keep-alive" \notin request.dict)
  /\ fileSize_' = FileSize(request.url)
  /\ filer' = IF Answer[request.url] \in {"file", "empty"} THEN request.url ELSE filer
  /\ context' = ResetContext(request)

(* One page for a read that found nothing, one when parseRequest fails,    *)
(* and one because there is no request to answer.                          *)
ErrorPages(nothing, ok) ==
  (IF nothing THEN <<ErrorPage("503")>> ELSE <<>>)
  \o (IF ok THEN <<>> ELSE <<ErrorPage("400")>>)
  \o <<ErrorPage("400")>>

ClientErrors(nothing, ok) ==
  /\ writeBuffer_' = writeBuffer_ \o ErrorPages(nothing, ok)
  /\ UNCHANGED <<responseVars, filer>>

(* What retrieve leaves in readBuffer_.                                    *)
LeftAll(result, data) == data
Left(result, data) == result.buf

HttpGo ==
  /\ Runs("read")
  /\ \E result \in {ParseRequest(context, readBuffer_ \o rx)} :
       /\ result.how = "returns"
       /\ readBuffer_' = Left(result, readBuffer_ \o rx)
       /\ IF rx # <<>> /\ result.ok /\ result.context.state_ = "kGotAll"
            THEN OnRequest(result.context)
            ELSE ClientErrors(rx = <<>>, result.ok) /\ context' = result.context
  /\ rx' = <<>>
  /\ tasks' = Tail(tasks)
  /\ ModifyListen("OUT")
  /\ UNCHANGED <<clientVars, state, wire>>

(* The worker ends in an assertion or in a loop.                           *)
HttpGoFails ==
  /\ Runs("read")
  /\ \E result \in {ParseRequest(context, readBuffer_ \o rx)} :
       /\ result.how # "returns"
       /\ state' = IF result.how = "aborts" THEN "aborted" ELSE "spins"
  /\ UNCHANGED <<clientVars, rx, taskVars, readBuffer_, context, responseVars,
                 writeBuffer_, filer, wire>>

-----------------------------------------------------------------------------
(* processWrite: send, sendBody and what comes after the response.         *)

(* send: the first n responses leave; when there are more, EPOLLOUT again. *)
SendPart(n) ==
  /\ Runs("write")
  /\ n < Len(writeBuffer_)
  /\ wire' = wire \o SubSeq(writeBuffer_, 1, n)
  /\ writeBuffer_' = Consumed(writeBuffer_, n)
  /\ tasks' = Tail(tasks)
  /\ ModifyListen("OUT")
  /\ UNCHANGED <<clientVars, rx, state, readBuffer_, context, responseVars, filer>>

(* sendBody: nothing (-1), an empty file (0), or the file, of which all or *)
(* only a part is sent (1).  A file that is sent once more leaves no trace *)
(* in wire.                                                                *)
SendBody ==
  LET sent == wire \o writeBuffer_
      file == [file |-> filer]
  IN  \/ wire' = sent
      \/ /\ filer # None /\ Answer[filer] = "file"
         /\ wire' = IF sent # <<>> /\ Last(sent) = file THEN sent ELSE Append(sent, file)

(* The events to wait for next, if any.                                    *)
NextEventsForgotten ==
  IF filer # None /\ Answer[filer] = "file" THEN "OUT" ELSE "none"
NextEvents ==
  IF filer = None THEN "none"
  ELSE IF Answer[filer] = "file" THEN "OUT"
  ELSE IF closing THEN "none" ELSE "IN"

SendAll ==
  /\ Runs("write")
  /\ SendBody
  /\ writeBuffer_' = <<>>
  /\ tasks' = Tail(tasks)
  /\ IF NextEvents = "none" THEN UNCHANGED <<interest, edge, dropped>> ELSE ModifyListen(NextEvents)
  /\ state' = IF filer # None /\ Answer[filer] = "empty" /\ closing THEN "kClose" ELSE state
  /\ UNCHANGED <<clientVars, rx, readBuffer_, context, responseVars, filer>>

-----------------------------------------------------------------------------

Client == (\E r \in Request : Ask(r)) \/ (\E n \in 1 .. Len(unsent) : Arrive(n))

Server ==
  \/ Enqueue \/ EnqueueRejected
  \/ HttpGo \/ HttpGoFails
  \/ \E n \in 0 .. Len(writeBuffer_) : SendPart(n)
  \/ SendAll

Next == Client \/ Server

(* The reactor and the workers go on, and a client that stays reads what   *)
(* it is sent, so that no response is tried for ever.                      *)
Fairness == WF_vars(Enqueue \/ EnqueueRejected) /\ WF_vars(HttpGo) /\ SF_vars(SendAll)

Spec == Init /\ [][Next]_vars /\ Fairness

-----------------------------------------------------------------------------
(* Properties.                                                             *)

(* What the server has sent or is about to send; the number, counting from *)
(* 1, of the response that is item i of it.                                *)
Output == wire \o writeBuffer_
Number(i) == Cardinality(Responses(Output) \cap 1 .. i)

(* The client has only sent whole requests; they had no body; and it has   *)
(* waited for each response and kept to the form of a request line.        *)
Whole == cuts = 0
NoBodies == \A k \in DOMAIN asked : "Content-Length" \notin ToSet(asked[k])
WellBehaved ==
  Whole /\ NoBodies /\ patient /\ \A k \in DOMAIN asked : Head(asked[k]) \in Url

(* In every state, the loop of parseRequest would do to the context and    *)
(* the data at hand what ParseRequest says; that is, it consumes, changes  *)
(* the state or ends in each iteration, and goes on for ever in kGotAll    *)
(* only (HttpContext.cpp:13-58).                                           *)
LoopComputes ==
  LET data == readBuffer_ \o rx IN Loop(context, data) = ParseRequest(context, data)

(* A well-behaved client gets one response for each request, in order,     *)
(* that belongs to its request line and its own headers: nothing of an     *)
(* earlier request is left in the buffers, the context or the response     *)
(* (HttpConn.cpp:131-135, 149-150, HttpContext.h:42).                      *)
AnswersInOrder ==
  WellBehaved =>
    \A i \in Responses(Output) :
      /\ Number(i) <= Len(asked)
      /\ Output[i].url = Head(asked[Number(i)])
      /\ Output[i].close <=> "keep-alive" \notin ToSet(asked[Number(i)])

(* What a well-behaved client finds behind a response is the file it       *)
(* announces, and nothing when it announces none, although Filer and       *)
(* fileSize_ are those of an earlier response then (HylChan.cpp:95-100,    *)
(* HttpConn.cpp:170, Response.cpp:53-58).                                  *)
Framing ==
  WellBehaved =>
    /\ wire # <<>> => IsResponse(wire[1])
    /\ \A i \in DOMAIN wire :
         LET followed == i < Len(wire) /\ ~IsResponse(wire[i + 1])
         IN  IsResponse(wire[i]) =>
               /\ followed => wire[i].status = "200" /\ wire[i + 1].file = wire[i].url
               /\ i < Len(wire) /\ ~wire[i].close =>
                    wire[i].announced = (IF followed THEN 1 ELSE 0)

(* Each request of a well-behaved client is answered, unless a response    *)
(* stopped the connection (one without a file is not followed by a re-arm, *)
(* a file is never finished, and the connection may have been closed:      *)
(* HylChan.cpp:90, 97, 104-112) or the task that its event should have led *)
(* to was refused by a full queue (HylChan.cpp:70, 75).                    *)
EachIsAnswered ==
  (WellBehaved /\ asked # <<>> /\ unsent = <<>>) ~>
    \/ ~WellBehaved
    \/ Cardinality(Responses(wire)) >= Len(asked)
    \/ wire # <<>> /\ (filer = None \/ Answer[filer] = "file" \/ closing)
    \/ dropped

Blanks(buf) == Cardinality({i \in Ends(buf) : i = 1 \/ buf[i - 1] = CRLF})

(* With whole requests that have no body, http_go does to a connection     *)
(* what ReadRequest, ReadNothing and ReadSpins of module HylChan say; the  *)
(* requests counted there are the empty lines in the buffers.              *)
MatchesHylChan ==
  [][LET old == Blanks(readBuffer_)
         all == old + Blanks(rx)
         new == Blanks(readBuffer_')
     IN  Whole /\ NoBodies =>
         /\ HttpGo => context.state_ = "kExpectRequestLine"
         /\ HttpGo /\ rx # <<>> =>
              /\ context'.state_ = "kExpectRequestLine"
              /\ \/ new = all - 1
                 \/ new = all /\ UNCHANGED <<filer, closing>>
         /\ HttpGo /\ rx = <<>> =>
              /\ UNCHANGED <<filer, closing>>
              /\ \/ new \in {old, old - 1} /\ UNCHANGED context
                 \/ new = old - 1 /\ context'.state_ = "kGotAll"
         /\ HttpGoFails => context.state_ = "kGotAll" /\ state' = "spins"]_vars

(* However requests are cut into pieces, and whatever was answered before, *)
(* the parser expects a request line only with the headers of earlier      *)
(* requests gone (HttpConn.cpp:135, HttpContext.h:42-45).                  *)
NoInheritedHeaders ==
  context.state_ = "kExpectRequestLine" => context.dict = {}

(* However they are cut, and however many arrive at once, no request line  *)
(* is answered twice or before an earlier one (Buffer.h:124-174 and        *)
(* HttpContext.cpp:19-25): the pages and files are those of some of the    *)
(* request lines, in their order.                                          *)
AnswersFollowLines ==
  LET known == {i \in Responses(Output) : Output[i].status \in {"200", "page"}}
  IN  \E f \in [known -> DOMAIN asked] :
        \A i \in known :
          /\ Output[i].url = Head(asked[f[i]])
          /\ \A j \in known : j < i => f[j] < f[i]

(* Only a read that finds nothing leaves the parser where its next call    *)
(* does not return (HttpConn.cpp:117-137, HttpContext.cpp:55-57).          *)
LoopsOnlyAfterEmptyRead ==
  context.state_ = "kGotAll" =>
    \E r \in ToSet(wire) \cup ToSet(writeBuffer_) : IsResponse(r) /\ r.status = "503"

(* assert(len <= readableBytes()) in Buffer.h:129 holds as long as each    *)
(* body arrives with its head; after a body that did, the parser takes     *)
(* the next data for another one (HttpContext.cpp:53).                     *)
AbortsOnlyForLateBody ==
  state = "aborted" => ~NoBodies /\ (~Whole \/ context.state_ = "kExpectBody")

=============================================================================
