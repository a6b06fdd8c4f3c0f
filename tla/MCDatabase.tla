------------------------------ MODULE MCDatabase ------------------------------
(***************************************************************************)
(* A small instance of Database.                                           *)
(***************************************************************************)
EXTENDS Database
=============================================================================
