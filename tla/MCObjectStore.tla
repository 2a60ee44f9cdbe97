--------------------------- MODULE MCObjectStore ---------------------------
(***************************************************************************)
(* TLC instance of ObjectStoreThreads: an object somebody deletes and one  *)
(* nobody does, and two values.                                            *)
(***************************************************************************)
EXTENDS ObjectStoreThreads, TLC

CONSTANTS Kept, Dropped, v1, v2

MCObject == {Kept, Dropped}
MCDeletable == {Dropped}
MCValue == {v1, v2}
=============================================================================
