--------------------------- MODULE MCTimingWheel ---------------------------
(***************************************************************************)
(* An instance of TimingWheel for TLC.                                     *)
(***************************************************************************)
EXTENDS TimingWheel
=============================================================================
