---------------------------- MODULE MCThreadPoll ----------------------------
(* ThreadPoll with three workers, a queue of two and four submissions: the *)
(* queue fills up, is rejected from, drains, and is closed at every point. *)
EXTENDS ThreadPoll

CONSTANTS w1, w2, w3

MCWorker == {w1, w2, w3}

=============================================================================
