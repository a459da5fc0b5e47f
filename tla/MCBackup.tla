------------------------------ MODULE MCBackup ------------------------------
(* Backup on a small instance.                                             *)
EXTENDS Backup, TLC
=============================================================================
