------------------------------ MODULE MCStartup ------------------------------
(***************************************************************************)
(* An instance of Startup for TLC: every configuration of up to two        *)
(* listeners.                                                              *)
(***************************************************************************)
EXTENDS Startup

UpToTwo == UNION {[1 .. n -> Elements] : n \in 0 .. 2}
=============================================================================
