---------------------------- MODULE MCHylChan -------------------------------
(* Instances of HylChan: the values of its constants for the .cfg files.   *)
(* Connections are interchangeable where all clients may send the same,    *)
(* and so are descriptor numbers; the runs that check liveness do not use  *)
(* that.                                                                   *)
EXTENDS HylChan, TLC

CONSTANTS c1, c2, f1, f2, listener

OneConn == {c1}
TwoConns == {c1, c2}
OneFd == {f1}
TwoFds == {f1, f2}

OneEach == [c \in Conn |-> 1]
TwoEach == [c \in Conn |-> 2]
ThreeOfFirst == [c \in Conn |-> IF c = c1 THEN 3 ELSE 0]

AnyRequest == [kind : Kind, close : BOOLEAN]
EmptyFiles == [kind : {"empty"}, close : BOOLEAN]
FilesAndPages == [kind : {"file", "page"}, close : {FALSE}]

Symmetry == Permutations(Conn) \cup Permutations(Fd)

=============================================================================
