------------------------------ MODULE MCMigrations -----------------------------
(* Migrations for TLC: two migrators that race, one job, and enough        *)
(* downgrades to go from the last revision to the empty schema.            *)
EXTENDS Migrations

MCDowngrades == Head
===============================================================================
