------------------------------- MODULE MC_Goto -------------------------------
(***************************************************************************)
(* Every script, up to a size, with one label and jumps to it by Break     *)
(* NAME and Continue NAME, as far as start_bms() supports the jump: the    *)
(* label's block surrounds the jump, and a jump backwards stays in a loop  *)
(* or goes to the outermost level of the script.                           *)
(***************************************************************************)
EXTENDS ScriptGen

CONSTANT x

Opens(c)  == c.type \in {"For", "Do", "If", "Elif", "Else"}
Closes(c) == c.type \in {"Next", "While", "If_Return", "EndIf"}

\* The commands that open a block around position i.
Around(p, i) ==
    {o \in 1 .. i - 1 :
        Opens(p[o]) /\ \A q \in o + 1 .. i - 1 :
            Cardinality({k \in o .. q : Opens(p[k])}) > Cardinality({k \in o .. q : Closes(p[k])})}

Supported(p) ==
    \A l, j \in DOMAIN p :
        p[l].type = "Label" /\ p[j].type \in {"Break", "Continue"} /\ p[j].name = x =>
            /\ Around(p, l) \subseteq Around(p, j)
            /\ l < j /\ Around(p, l) # {} => p[Last(Around(p, l))].type \in {"For", "Do"}

Scripts ==
    {p \in Bodies({Line("Stmt"), Line("Break"), Named("Break", x), Named("Continue", x), Named("Label", x)}, MaxSize) :
        /\ Cardinality({l \in DOMAIN p : p[l].type = "Label"}) <= 1
        /\ \E j \in DOMAIN p : p[j].type # "Label" /\ p[j].name = x
        /\ Supported(p)}

\* JumpLandsForGoodAlways and JumpFindsLabelAlways speak of all of them.
ASSUME CoveredAssumption == \A p \in Scripts : Covered(p)
=============================================================================
