----------------------------- MODULE EpollNeko ------------------------------
(***************************************************************************)
(* The kernel objects the server works on, as far as utils/EpollNeko.cpp   *)
(* and the socket calls depend on them: TCP connections and their clients, *)
(* the table of descriptors, and one epoll instance.  A connection is one  *)
(* element of Conn for its whole life; a descriptor number of Fd is used   *)
(* again as soon as it has been closed.                                    *)
(*                                                                         *)
(* Data is counted, not carried: the unit is one request, and a client     *)
(* sends each request in one segment.                                      *)
(***************************************************************************)
EXTENDS Naturals, Sequences, FiniteSets

CONSTANTS
  Conn,         \* connections
  Fd,           \* descriptor numbers available to them
  None,         \* no connection, no task, no interest
  MaxRequests,  \* bound: requests the client of each connection sends
  Pipelining,   \* may a client send a request before the last is answered?
  Departure     \* ways in which clients leave

ASSUME EpollNekoAssumption ==
  /\ None \notin Conn
  /\ None \notin {"IN", "OUT"}
  /\ MaxRequests \in [Conn -> Nat]
  /\ Pipelining \in BOOLEAN
  /\ Departure \subseteq {"fin", "rst"}

VARIABLES
  phase,     \* "new", "backlog" (not yet accepted), "accepted", "closed"
  rx,        \* requests in the receive queue of the socket
  sent,      \* requests the client has sent
  awaits,    \* is the client waiting for a response?
  peer,      \* "up", "fin" (client has closed its side), "rst" (reset)
  room,      \* is there room in the send queue of the socket?
  wshut,     \* has the server called shutdown(SHUT_WR)?
  fdTable,   \* the connection behind each descriptor
  interest,  \* epoll: "IN" or "OUT", besides ERR, HUP and RDHUP
  oneshot,   \* epoll: EPOLLONESHOT (else EPOLLET)
  armed      \* epoll: can the descriptor be reported?

kernelVars == <<phase, rx, sent, awaits, peer, room, wshut,
                fdTable, interest, oneshot, armed>>

Event == {"IN", "OUT", "RDHUP", "HUP", "ERR"}

KernelTypeOK ==
  /\ phase \in [Conn -> {"new", "backlog", "accepted", "closed"}]
  /\ rx \in [Conn -> Nat]
  /\ sent \in [Conn -> Nat]
  /\ awaits \in [Conn -> BOOLEAN]
  /\ peer \in [Conn -> {"up", "fin", "rst"}]
  /\ room \in [Conn -> BOOLEAN]
  /\ wshut \in [Conn -> BOOLEAN]
  /\ fdTable \in [Fd -> Conn \cup {None}]
  /\ interest \in [Fd -> {"IN", "OUT", None}]
  /\ oneshot \in [Fd -> BOOLEAN]
  /\ armed \in [Fd -> BOOLEAN]

KernelInit ==
  /\ phase = [c \in Conn |-> "new"]
  /\ rx = [c \in Conn |-> 0]
  /\ sent = [c \in Conn |-> 0]
  /\ awaits = [c \in Conn |-> FALSE]
  /\ peer = [c \in Conn |-> "up"]
  /\ room = [c \in Conn |-> TRUE]
  /\ wshut = [c \in Conn |-> FALSE]
  /\ fdTable = [f \in Fd |-> None]
  /\ interest = [f \in Fd |-> None]
  /\ oneshot = [f \in Fd |-> FALSE]
  /\ armed = [f \in Fd |-> FALSE]

-----------------------------------------------------------------------------
(* Readiness and epoll.                                                    *)

(* What poll() reports of a TCP socket.                                    *)
SocketEvents(c) ==
  {e \in Event :
     \/ e = "IN"    /\ (rx[c] > 0 \/ peer[c] # "up")
     \/ e = "OUT"   /\ (room[c] \/ wshut[c] \/ peer[c] = "rst")
     \/ e = "RDHUP" /\ peer[c] # "up"
     \/ e = "HUP"   /\ (peer[c] = "rst" \/ (peer[c] = "fin" /\ wshut[c]))
     \/ e = "ERR"   /\ peer[c] = "rst"}

(* What epoll_wait reports of descriptor f.  Every registration asks for   *)
(* ERR (Channel.h), that is for HUP, RDHUP and ERR.                        *)
Reported(f) ==
  IF fdTable[f] # None /\ armed[f]
    THEN SocketEvents(fdTable[f]) \cap {interest[f], "RDHUP", "HUP", "ERR"}
    ELSE {}

(* A report disarms the descriptor: until EPOLL_CTL_MOD when it is         *)
(* EPOLLONESHOT, until the next change of the socket when it is EPOLLET.   *)
Report == armed' = [f \in Fd |-> armed[f] /\ Reported(f) = {}]

(* The socket of c changes: an edge for an edge-triggered registration.    *)
Edge(c) ==
  armed' = [f \in Fd |->
              armed[f] \/ (fdTable[f] = c /\ interest[f] # None /\ ~oneshot[f])]

(* addSocket, edge-triggered; epoll_ctl can fail (ENOMEM, ENOSPC), and f   *)
(* is then an open descriptor that epoll does not know.                    *)
AddSocket(f, ok) ==
  /\ interest' = [interest EXCEPT ![f] = IF ok THEN "IN" ELSE None]
  /\ oneshot' = [oneshot EXCEPT ![f] = FALSE]
  /\ armed' = [armed EXCEPT ![f] = ok]

ModifySocketNoOneshot(f, mask) ==
  IF interest[f] = None
    THEN UNCHANGED <<interest, oneshot, armed>>
    ELSE /\ interest' = [interest EXCEPT ![f] = mask]
         /\ oneshot' = [oneshot EXCEPT ![f] = FALSE]
         /\ armed' = [armed EXCEPT ![f] = TRUE]

(* modifySocket; epoll_ctl fails when epoll does not know f: it is closed, *)
(* or was not added.                                                       *)
ModifySocket(f, mask) ==
  IF interest[f] = None
    THEN UNCHANGED <<interest, oneshot, armed>>
    ELSE /\ interest' = [interest EXCEPT ![f] = mask]
         /\ oneshot' = [oneshot EXCEPT ![f] = TRUE]
         /\ armed' = [armed EXCEPT ![f] = TRUE]

(* What f says of the connections in gone goes back to the value it had:   *)
(* the object or the socket no longer exists, and nobody looks at it.      *)
Forget(f, gone, init) == [c \in Conn |-> IF c \in gone THEN init ELSE f[c]]

(* close() of the descriptors of the connections in gone; epoll forgets    *)
(* them, and the data that was not read or sent is lost.                   *)
CloseDescriptors(gone) ==
  /\ phase' = Forget(phase, gone, "closed")
  /\ fdTable' = [f \in Fd |-> IF fdTable[f] \in gone THEN None ELSE fdTable[f]]
  /\ interest' = [f \in Fd |-> IF fdTable[f] \in gone THEN None ELSE interest[f]]
  /\ rx' = Forget(rx, gone, 0)
  /\ awaits' = Forget(awaits, gone, FALSE)
  /\ peer' = Forget(peer, gone, "up")
  /\ room' = Forget(room, gone, TRUE)

-----------------------------------------------------------------------------
(* The clients.                                                            *)

Connect(c) ==
  /\ phase[c] = "new"
  /\ phase' = [phase EXCEPT ![c] = "backlog"]
  /\ UNCHANGED <<rx, sent, awaits, peer, room, wshut, fdTable, interest, oneshot, armed>>

Connected(c) == phase[c] \in {"backlog", "accepted"} /\ peer[c] = "up"

SendRequest(c) ==
  /\ Connected(c)
  /\ sent[c] < MaxRequests[c]
  /\ Pipelining \/ ~awaits[c]
  /\ sent' = [sent EXCEPT ![c] = @ + 1]
  /\ rx' = [rx EXCEPT ![c] = @ + 1]
  /\ awaits' = [awaits EXCEPT ![c] = TRUE]
  /\ Edge(c)
  /\ UNCHANGED <<phase, peer, room, wshut, fdTable, interest, oneshot>>

(* The client reads what was sent to it.                                   *)
Drain(c) ==
  /\ ~room[c]
  /\ phase[c] # "closed"
  /\ room' = [room EXCEPT ![c] = TRUE]
  /\ UNCHANGED <<phase, rx, sent, awaits, peer, wshut, fdTable, interest, oneshot, armed>>

(* The client closes its side, or resets the connection.                   *)
Leave(c, how) ==
  /\ Connected(c)
  /\ peer' = [peer EXCEPT ![c] = how]
  /\ Edge(c)
  /\ UNCHANGED <<phase, rx, sent, awaits, room, wshut, fdTable, interest, oneshot>>

Client(c) == Connect(c) \/ SendRequest(c) \/ Drain(c) \/ \E how \in Departure : Leave(c, how)

=============================================================================
