---------------------------- MODULE MCMigrations ----------------------------
(* Migrations on a small instance. *)
EXTENDS Migrations

\* The api as it starts, and somebody at the command line.
Both == {"api", "migrate"}
=============================================================================
