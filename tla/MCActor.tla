------------------------------ MODULE MCActor ------------------------------
(***************************************************************************)
(* TLC instance of Actor: three threads, four calls, and the one submitted *)
(* third raises.                                                           *)
(***************************************************************************)
EXTENDS Actor

MCCaller == {"u1", "u2", "u3"}
MCRaises == {3}
=============================================================================
