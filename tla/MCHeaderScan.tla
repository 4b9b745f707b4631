---------------------------- MODULE MCHeaderScan ----------------------------
(***************************************************************************)
(* An instance of HeaderScan for TLC: every stream of Length bytes, cut in *)
(* every way.                                                              *)
(***************************************************************************)
EXTENDS HeaderScan
=============================================================================
