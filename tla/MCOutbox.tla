------------------------------ MODULE MCOutbox ------------------------------
(* Small instances of Outbox for TLC. *)
EXTENDS Outbox, TLC

\* Synchronised clocks.
NoSkew == [w \in Workers |-> 0]

\* Entries are interchangeable, and so are workers whose clocks agree.
Symmetry == Permutations(Entries) \cup Permutations(Workers)

=============================================================================
