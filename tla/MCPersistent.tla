---------------------------- MODULE MCPersistent ----------------------------
(* An instance of PersistentAllow for TLC. *)
EXTENDS PersistentAllow, TLC

CONSTANTS b1, b2, k1, k2

\* A baseline signed with one of two keys, and one that is not signed.
MCBaseline == {b1, b2}
MCKey == {k1, k2}
MCSigner == (b1 :> k1) @@ (b2 :> None)

\* The files of the rules are interchangeable, and so are the names of the keys.
Symmetry == Permutations(Inode) \cup Permutations(Name)
=============================================================================
