---------------------------- MODULE MCPostOffice ----------------------------
(* Two machines, one with two threads that use the post office.            *)
EXTENDS PostOffice

CONSTANTS m1, m2, c1, c2, c3

MCMachine == [c \in Clients |-> IF c = c3 THEN m2 ELSE m1]

MCDestinations == {<<m2, 0>>}
=============================================================================
