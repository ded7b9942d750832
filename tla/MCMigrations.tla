----------------------------- MODULE MCMigrations -----------------------------
(* A small instance of Migrations. *)
EXTENDS Migrations, TLC
===============================================================================
