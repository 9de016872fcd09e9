------------------------------- MODULE MC_Array -------------------------------
(***************************************************************************)
(* Two arrays of up to three elements; numbers on both sides of 0 and a    *)
(* text between them in alphabetical order.                                *)
(***************************************************************************)
EXTENDS BmsArray, TLC

CONSTANT t      \* a text

Ranks   == (Hole :> 0) @@ (-1 :> 1) @@ (t :> 2) @@ (5 :> 3)
Numbers == {-1, 5}
Around0 == -3 .. 2
===============================================================================
