---------------------------- MODULE MCServerLife ----------------------------
(* Instances of ServerLife: the values of its constants for the .cfg file. *)
(* There is no symmetry, because the run checks a liveness property.       *)
EXTENDS ServerLife

CONSTANTS c1, c2, f1, f2, listener

TwoConns == {c1, c2}
TwoFds == {f1, f2}
OneEach == [c \in Conn |-> 1]
AnyRequest == [kind : Kind, close : BOOLEAN]

=============================================================================
