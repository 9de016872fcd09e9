-------------------------------- MODULE MC_Cond --------------------------------
(***************************************************************************)
(* Every compound condition of up to five conditions, one more than the    *)
(* manual allows, with operators of each sort: two that mix well, one that *)
(* does not (^) and one that reads its sides differently (<).              *)
(***************************************************************************)
EXTENDS BmsCond
===============================================================================
