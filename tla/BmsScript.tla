------------------------------ MODULE BmsScript ------------------------------
(***************************************************************************)
(* A parsed script: the array g_command[] that parse_bms() of              *)
(* src/src/bms.c fills, and the blocks its text is made of.                *)
(***************************************************************************)
EXTENDS Integers, Sequences, FiniteSets

CONSTANTS
    Programs,   \* the scripts: sequences of commands
    Names,      \* names of labels and functions
    NoName      \* the NULL name

OpenLoop  == {"For", "Do"}
CloseLoop == {"Next", "While"}          \* Prev differs from Next in data only
Branch    == {"If", "Elif", "Else"}
Jump      == {"Break", "Continue"}

CmdType == OpenLoop \cup CloseLoop \cup Branch \cup Jump \cup
    { "Stmt",           \* any command that only has effects outside the interpreter
      "ForTo",          \* the condition of a For, right behind it
      "If_Return",      \* end of a branch that Elif or Else follows
      "EndIf", "Label", "StartFunction", "CallFunction", "EndFunction",
      "CleanExit" }

Command == [type : CmdType, name : Names \cup {NoName}]

ASSUME ProgramsAssumption == Programs \subseteq Seq(Command)
ASSUME NoNameAssumption   == NoName \notin Names

VARIABLE prog   \* g_command[], which running does not change

TypeAt(p) == IF p \in DOMAIN prog THEN prog[p].type ELSE "None"
NameAt(p) == prog[p].name
End       == Len(prog) + 1

-----------------------------------------------------------------------------
(* The blocks of the script, found in its text *)

Count(types, p, q) == Cardinality({i \in p .. q : TypeAt(i) \in types})
First(S) == CHOOSE p \in S : \A q \in S : p <= q
Last(S)  == CHOOSE p \in S : \A q \in S : p >= q

\* The command that closes the loop opened at p.
Closer(p) == First({q \in p + 1 .. Len(prog) :
                       Count(OpenLoop, p, q) = Count(CloseLoop, p, q)})

\* The loops whose text surrounds p, inside the same function.
LoopsAround(p) == {o \in 1 .. p - 1 :
                      /\ TypeAt(o) \in OpenLoop
                      /\ Closer(o) >= p
                      /\ \A i \in o .. p : TypeAt(i) # "StartFunction"}

\* The EndIf of the chain that the branch command or If_Return at p is part of.
ChainEnd(p) == First({q \in p + 1 .. Len(prog) :
                         Count({"If"}, p + 1, q) = Count({"EndIf"}, p + 1, q) - 1})

\* Where an If or Elif at p goes when its condition is false: to the next
\* branch of its chain, or behind it.
NextBranch(p) ==
    First({q \in p + 1 .. ChainEnd(p) :
              \/ q = ChainEnd(p)
              \/ TypeAt(q) = "If_Return" /\ Count({"If"}, p + 1, q) = Count({"EndIf"}, p + 1, q)}) + 1

Body(name)     == First({p \in DOMAIN prog : TypeAt(p) = "StartFunction" /\ NameAt(p) = name}) + 1
EndOfBody(p)   == First({q \in p + 1 .. Len(prog) : TypeAt(q) = "EndFunction"})
LabelPos(name) == First({p \in DOMAIN prog : TypeAt(p) = "Label" /\ NameAt(p) = name} \cup {End})
=============================================================================
