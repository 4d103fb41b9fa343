------------------------------ MODULE MCFiler -------------------------------
(* Instances of Filer: the values of its constants for the .cfg files.     *)
EXTENDS Filer

CONSTANTS p1, p2, i1, i2

OnePath == {p1}
TwoPaths == {p1, p2}
TwoInodes == {i1, i2}

=============================================================================
