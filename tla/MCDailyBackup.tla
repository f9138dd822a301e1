---------------------------- MODULE MCDailyBackup ------------------------------
(***************************************************************************)
(* An instance of DailyBackup for TLC: the timer's run and one by hand are *)
(* the same script, so they are interchangeable.                           *)
(***************************************************************************)
EXTENDS DailyBackup, TLC

Symmetric == Permutations(Procs)
=============================================================================
