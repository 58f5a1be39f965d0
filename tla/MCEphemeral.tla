---------------------------- MODULE MCEphemeral ----------------------------
(* Instances of EphemeralApprovals for TLC. *)
EXTENDS EphemeralApprovals, TLC

\* Tasks are interchangeable; so are valid ids where a run has two of them.
TaskSymmetry == Permutations(Task)
Symmetry == Permutations(Task) \cup Permutations(ValidId)
=============================================================================
