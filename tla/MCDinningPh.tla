----------------------------- MODULE MCDinningPh -----------------------------
(* Instances of DinningPh for TLC. *)
EXTENDS DinningPh

MCCallers == 0..N-1
MCInside == {"hungry", "testSelf", "grantSelf", "ifHungry", "woken",
             "thinking", "testLeft", "grantLeft", "testRight", "grantRight", "leave"}
MCOutside == {"think", "eat"}
=============================================================================
