------------------------------ MODULE MCKernel ------------------------------
(* Small instances of NachosKernel for TLC. *)
EXTENDS NachosKernel

(* One mutex-like semaphore; every other semaphore starts at 0. *)
MCInitialValue == [s \in Semaphores |-> IF s \in Devices THEN 0 ELSE 1]
=============================================================================
