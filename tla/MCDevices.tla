----------------------------- MODULE MCDevices -----------------------------
(* Devices for TLC: two clients of the disk with the timer on, and one     *)
(* client beside the echo of the console.                                  *)
EXTENDS Devices, TLC

CONSTANTS c1, c2, echo

MCWorkloads ==
    {[clients |-> <<c1, c2>>, console |-> FALSE, timer |-> TRUE],
     [clients |-> <<c1>>, console |-> TRUE, timer |-> FALSE]}
=============================================================================
