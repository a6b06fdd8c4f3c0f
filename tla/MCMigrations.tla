----------------------------- MODULE MCMigrations -----------------------------
(***************************************************************************)
(* The migrations from a database of one chosen version.                   *)
(***************************************************************************)
EXTENDS Migrations
===============================================================================
