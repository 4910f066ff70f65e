---------------------------- MODULE MCFileTransfer ----------------------------
(* Instances of FileTransfer for TLC.                                         *)
EXTENDS FileTransfer, TLC

CONSTANTS f1, f2, c1, c2
=============================================================================
