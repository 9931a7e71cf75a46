------------------------------ MODULE MCIntake ------------------------------
(* Small instances of Intake for TLC: one upload of two files, or two. *)
EXTENDS Intake, TLC

CONSTANTS u1, u2, f1, f2, f3

TwoUploads == [u \in Uploads |-> IF u = u1 THEN {f1, f2} ELSE {f3}]

Symmetry == Permutations(Requests)

=============================================================================
