---------------------------- MODULE MCDeployment ------------------------------
(***************************************************************************)
(* Instances of Deployment for TLC. Release 2 keeps the schema of          *)
(* release 1, release 3 changes it.                                        *)
(***************************************************************************)
EXTENDS Deployment

Schemas == <<1, 1, 2, 2>>
Either == {TRUE, FALSE}
Installed == {FALSE}
Empties == {TRUE}
\* Faults and kills come together in the first run only; the runs that follow it, over
\* what it left behind, see one failure or one kill. In the third run the health check
\* starts the panel, but a panel that runs is not restarted.
Bounded ==
  /\ count.runs > 1 => count.faults + count.kills <= 1
  /\ count.runs > 2 => sysd.proc # Restarting
=============================================================================
