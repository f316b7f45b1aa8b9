----------------------------- MODULE MCTransfer -----------------------------
(***************************************************************************)
(* Model checking of Transfer: the runs differ in the size of the file and *)
(* in what may go wrong.                                                   *)
(***************************************************************************)
EXTENDS Transfer
=============================================================================
