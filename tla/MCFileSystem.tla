---------------------------- MODULE MCFileSystem ----------------------------
(* A disk with room for two small files, or for one that spans sectors.    *)
EXTENDS FsTest, TLC

CONSTANTS a, b, c, x, y

Symmetry == Permutations({a, b})

MCUnixFiles == {<<x>>, <<x, y, x, x, y>>}
MCContents == <<x, y>>

(* What a free sector holds makes no difference: a new file's cells may    *)
(* have any value.                                                         *)
View ==
    <<IF mounted = NULL \/ op = NULL THEN data
      ELSE LET map == FreeMap IN [s \in Sectors |-> IF s \in map THEN data[s] ELSE <<>>],
      IF Idle /\ op # NULL
      THEN LET map == FreeMap IN [s \in Sectors |-> IF s \in map THEN header[s] ELSE NULL]
      ELSE header,
      mounted, todo, writes, openFile, op, files, command>>
=============================================================================
