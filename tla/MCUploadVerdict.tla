--------------------------- MODULE MCUploadVerdict ---------------------------
(* Small instances of UploadVerdict for TLC: one upload of two files. *)
EXTENDS UploadVerdict, TLC

CONSTANTS u1, f1, f2

OneUpload == [u \in Uploads |-> {f1, f2}]

Symmetry == Permutations(Requests) \cup Permutations(Polls)

=============================================================================
