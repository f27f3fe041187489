-------------------------- MODULE MCArchiveCleanup --------------------------
(* An instance of ArchiveCleanup for TLC: three uploads of one name.        *)
EXTENDS ArchiveCleanup, TLC

CONSTANTS a, b, c

MCNameOf == [u \in {a, b, c} |-> "scene"]

Symmetry == Permutations({a, b, c})

=============================================================================
