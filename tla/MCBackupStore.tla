--------------------------- MODULE MCBackupStore ----------------------------
(* TLC instance of BackupStore: two threads, two configurations, two seconds,  *)
(* and two names for each second.                                              *)
EXTENDS BackupStore, TLC

Symmetry == Permutations(Configs) \cup Permutations(Threads)
=============================================================================
