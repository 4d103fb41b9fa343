----------------------------- MODULE ByteQueue ------------------------------
(***************************************************************************)
(* What a Buffer is to HttpContext and HttpConn: a first-in first-out      *)
(* queue of bytes.  Bytes are numbered in the order in which they are put  *)
(* in, so a byte that is lost, repeated or moved shows.                    *)
(***************************************************************************)
EXTENDS Naturals, Sequences

CONSTANT MaxBytes  \* bound: bytes put into the queue in a behaviour

VARIABLES
  queue,  \* the readable bytes, oldest first
  given   \* number of bytes put in so far

vars == <<queue, given>>

Fresh(n) == [i \in 1 .. n |-> given + i]

Init == queue = <<>> /\ given = 0

Put(n) ==
  /\ queue' = queue \o Fresh(n)
  /\ given' = given + n

Take(n) ==
  /\ n <= Len(queue)
  /\ queue' = SubSeq(queue, n + 1, Len(queue))
  /\ UNCHANGED given

Unput(n) ==
  /\ n <= Len(queue)
  /\ queue' = SubSeq(queue, 1, Len(queue) - n)
  /\ UNCHANGED given

Next ==
  \/ \E n \in 1 .. MaxBytes - given : Put(n)
  \/ \E n \in 1 .. Len(queue) : Take(n) \/ Unput(n)

Spec == Init /\ [][Next]_vars

=============================================================================
