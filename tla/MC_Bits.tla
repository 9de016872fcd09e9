-------------------------------- MODULE MC_Bits --------------------------------
(***************************************************************************)
(* Bytes of two bits.  A string of three bits is a piece of a whole byte   *)
(* and a shorter one; it crosses one border of bytes, or two with the bit  *)
(* of a byte that was begun before.                                        *)
(***************************************************************************)
EXTENDS BitFile
===============================================================================
