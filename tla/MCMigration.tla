------------------------------ MODULE MCMigration ------------------------------
(* Two requests for one job and two possible targets.                      *)
EXTENDS Migration
================================================================================
