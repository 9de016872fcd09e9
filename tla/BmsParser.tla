------------------------------ MODULE BmsParser ------------------------------
(***************************************************************************)
(* The words of a script that move its flow, and the commands that         *)
(* parse_bms() makes of each line (bms.c:1713-2906): some lines become     *)
(* two commands or three, and many words are another name of one.  The     *)
(* parser does not look at blocks: lines become commands one by one.       *)
(*                                                                         *)
(* A line is a word, the number of arguments and, for jumps, labels and    *)
(* functions, a name.                                                      *)
(***************************************************************************)
EXTENDS BmsScript

Cmd(type) == <<[type |-> type, name |-> NoName]>>

\* Words that become one command each.
TypeOf(word) ==
    CASE word \in {"Do", "Loop"}                             -> "Do"
      [] word \in {"While", "EndLoop"}                       -> "While"
      [] word \in {"Next", "Prev"}                           -> "Next"
      [] word \in {"If", "IfEqual", "IfGreater", "IfLower"}  -> "If"
      [] word \in {"CleanExit", "Exit", "ExitIfNoFilesOpen"} -> "CleanExit"
      [] word \in {"EndIf", "Break", "Continue", "Label", "StartFunction",
                   "CallFunction", "EndFunction"}            -> word
      [] OTHER                                               -> "Stmt"

\* For T OP VALUE COND LIMIT: the first value is set in front of the loop, the
\* condition stands in it.
ForCommands(args) ==
    (IF args >= 3 THEN Cmd("Stmt") ELSE <<>>) \o Cmd("For") \o
    (IF args >= 5 THEN Cmd("ForTo") ELSE <<>>)

\* Mutant: the branch in front of an Else has no end.
BranchCommands_open(word, args) ==
    IF word = "Else" /\ args < 4 THEN Cmd("Else") ELSE Cmd("If_Return") \o Cmd("Elif")

\* Elif, ElseIf, Else and Else If end the branch in front of them.
BranchCommands(word, args) ==
    Cmd("If_Return") \o (IF word = "Else" /\ args < 4 THEN Cmd("Else") ELSE Cmd("Elif"))

\* A Case is a whole If, without a command in it.
CaseCommands == Cmd("If") \o Cmd("EndIf")

Commands(line) ==
    CASE line.word = "For"                        -> ForCommands(line.args)
      [] line.word \in {"Elif", "ElseIf", "Else"} -> BranchCommands(line.word, line.args)
      [] line.word = "Case"                       -> CaseCommands
      [] OTHER -> <<[type |-> TypeOf(line.word), name |-> line.name]>>
=============================================================================
