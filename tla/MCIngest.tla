------------------------------ MODULE MCIngest ------------------------------
(***************************************************************************)
(* Small instances of Ingest.                                              *)
(***************************************************************************)
EXTENDS Ingest

CONSTANTS w1, w2
=============================================================================
