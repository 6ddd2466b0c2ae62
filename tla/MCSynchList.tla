----------------------------- MODULE MCSynchList -----------------------------
(* Small instances of SynchList for TLC. *)
EXTENDS SynchList

MCConditions == {listEmpty}
MCInside == {"append", "signal", "test", "remove", "apply"}
MCOutside == {"idle"}
=============================================================================
