------------------------------ MODULE MCBuffer ------------------------------
(* Buffer with a small vector; the .cfg files say how much is read or      *)
(* appended at once.                                                       *)
EXTENDS Buffer

=============================================================================
