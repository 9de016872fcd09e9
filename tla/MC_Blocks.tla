------------------------------ MODULE MC_Blocks ------------------------------
(***************************************************************************)
(* Every script, up to a size, made of statements, loops, If chains, Break *)
(* and Continue, alone and as the body of a loop; and every function body, *)
(* two sizes shorter, which may call itself and break or continue the loop *)
(* of its caller: the function stands in the flow of the script, which     *)
(* calls it from a loop and once more after it.                            *)
(***************************************************************************)
EXTENDS ScriptGen

CONSTANT fn

FlatScripts ==
    LET bodies == Bodies({Line("Stmt"), Line("Break"), Line("Continue")}, MaxSize)
    IN  bodies \cup {Line("Do") \o b \o Line("While") \o Line("Stmt") : b \in bodies}

Call == Named("CallFunction", fn)

FunctionBodies ==
    Bodies({Line("Stmt"), Line("Break"), Line("Continue"), Line("CleanExit"),
            Line("If") \o Call \o Line("EndIf")}, MaxSize - 2)

FunctionScripts ==
    {Line("Do") \o Call \o Line("Stmt") \o Line("While")
       \o Named("StartFunction", fn) \o b \o Line("EndFunction") \o Call : b \in FunctionBodies}

\* Scripts the parser accepts and start_bms() ends the process for: a function
\* that is missing, one inside another, one without an end, and a goto that
\* walks into a loop without a command.
Unfinished ==
    { Call,
      Named("StartFunction", fn) \o Named("StartFunction", fn) \o Line("EndFunction"),
      Line("Stmt") \o Named("StartFunction", fn) \o Line("Stmt"),
      Line("Stmt") \o Named("Break", fn) \o Args("For", 0) }

\* The other words: loops without a condition, with and without a first value,
\* an If after an Else, a Case, and the names of older scripts.
OtherWords ==
    { Args("For", 0) \o Line("Stmt") \o Line("If") \o Line("Break") \o Line("EndIf") \o Line("Prev"),
      Args("For", 3) \o Line("IfLower") \o Line("Break") \o Args("Else", 4) \o Line("Continue")
        \o Line("EndIf") \o Line("Stmt") \o Line("Next"),
      Line("Loop") \o Line("Case") \o Line("Stmt") \o Line("Case") \o Line("Break") \o Line("EndLoop"),
      Line("IfEqual") \o Line("Stmt") \o Args("ElseIf", 3) \o Line("Exit") \o Line("EndIf") \o Line("Stmt") }

Scripts == Unfinished \cup OtherWords \cup {p \in FlatScripts \cup FunctionScripts : ~ContinueBeforeLoop(p)}

\* ContinueSkipsRestAlways speaks of all of them whose blocks end.
ASSUME CoveredAssumption == \A p \in Scripts \ Unfinished : BranchesEnd(p) => Covered(p)
=============================================================================
