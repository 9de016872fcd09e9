------------------------------- MODULE MC_Jumps -------------------------------
(***************************************************************************)
(* A script whose jump does not do what the readme says.                   *)
(***************************************************************************)
EXTENDS ScriptGen

CONSTANT x

\* if ... / label x / print / if ... / break x / endif / endif / print
GotoInsideIf ==
    {Line("If") \o Named("Label", x) \o Line("Stmt") \o Line("If") \o Named("Break", x)
       \o Line("EndIf") \o Line("EndIf") \o Line("Stmt")}
=============================================================================
