------------------------------ MODULE MC_MemFile ------------------------------
(***************************************************************************)
(* Two memory files of a few bytes, every command in every append mode.    *)
(***************************************************************************)
EXTENDS MemFile, TLC

CONSTANTS m1, m2, x     \* two files, a byte that is not 0

Strings  == {<<>>} \cup {<<b>> : b \in Byte} \cup {<<b, c>> : b, c \in Byte}
Around0  == -2 .. 3
AnyOrder == Permutations(Files)
=============================================================================
