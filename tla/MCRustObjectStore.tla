------------------------- MODULE MCRustObjectStore -------------------------
(***************************************************************************)
(* TLC instance of RustObjectStore: one object nobody deletes, one that    *)
(* may be deleted.                                                         *)
(***************************************************************************)
EXTENDS RustObjectStore, TLC

CONSTANTS kept, evicted, v1

MCObject == {kept, evicted}
MCDeletable == {evicted}
MCValue == {v1}

Symmetry == Permutations(Thread)
=============================================================================
