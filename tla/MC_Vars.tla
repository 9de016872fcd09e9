-------------------------------- MODULE MC_Vars --------------------------------
(***************************************************************************)
(* A function f whose first argument the script names, so that f can pass  *)
(* it on and change it, while its second one, and that of g, are created   *)
(* by the calls: the table has room for one of them only.                  *)
(***************************************************************************)
EXTENDS BmsCall

Arg(f, i) == IF f = "g" THEN "g_arg1" ELSE IF i = 1 THEN "f_arg1" ELSE "f_arg2"

TwoOne == [f \in Func |-> IF f = "f" THEN 2 ELSE 1]

Names == <<"123", "f_arg1">>
Text  == {[of |-> "a", more |-> FALSE]}
================================================================================
