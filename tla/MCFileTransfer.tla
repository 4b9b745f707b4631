--------------------------- MODULE MCFileTransfer ---------------------------
(***************************************************************************)
(* An instance of FileTransfer for TLC.                                    *)
(***************************************************************************)
EXTENDS FileTransfer
=============================================================================
