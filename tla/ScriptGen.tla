------------------------------ MODULE ScriptGen ------------------------------
(***************************************************************************)
(* Enumerates well-formed scripts for the model checker: blocks built from *)
(* given one-line leaves, loops and If chains, of a bounded size, as the   *)
(* parser delivers them.                                                   *)
(***************************************************************************)
EXTENDS BmsRefine, BmsParser

CONSTANT MaxSize    \* of a body: a leaf counts 1, a pair of brackets 2

\* The commands of a line of the script.
Args(word, n)     == Commands([word |-> word, args |-> n, name |-> NoName])
Line(word)        == Args(word, IF word = "For" THEN 5 ELSE 0)
Named(word, name) == Commands([word |-> word, args |-> 1, name |-> name])

\* What stands before and after a block.
Brackets ==
    { <<Line("For"), Line("Next")>>,
      <<Line("Do"), Line("While")>>,
      <<Line("If"), Line("EndIf")>>,
      <<Line("If"), Line("Else") \o Line("EndIf")>>,
      <<Line("If") \o Line("Stmt") \o Line("Else"), Line("EndIf")>>,
      <<Line("If") \o Line("Elif"), Line("Else") \o Line("Stmt") \o Line("EndIf")>> }

\* The bodies of size n, from the shorter ones: bodies[k] holds those of size k - 1.
Longer(leaves, bodies, n) ==
    {l \o b : l \in leaves, b \in bodies[n]}
    \cup UNION {{w[1] \o a \o w[2] \o b : w \in Brackets, a \in bodies[k], b \in bodies[n - k]}
                   : k \in 1 .. n - 1}

RECURSIVE Grow(_, _, _, _)
Grow(leaves, bodies, n, size) ==
    IF n > size THEN bodies
    ELSE Grow(leaves, Append(bodies, Longer(leaves, bodies, n)), n + 1, size)

\* Those of size 1 to size.
Bodies(leaves, size) ==
    LET sized == Grow(leaves, <<{<<>>}>>, 1, size) IN UNION {sized[n] : n \in DOMAIN sized} \ {<<>>}

-----------------------------------------------------------------------------
(* Shapes of scripts that decide what is expected of them *)

\* A Continue with a loop behind it, in the loop that it continues.
ContinueBeforeLoop(p) ==
    \E i, j \in DOMAIN p :
        /\ i < j
        /\ p[i].type = "Continue" /\ p[j].type \in {"For", "Do"}
        /\ \A q \in i .. j - 1 : p[q].type \notin {"Next", "While"}

\* What the parser sees to: the branch in front of an Elif or Else ends.
BranchesEnd(p) ==
    \A i \in DOMAIN p : p[i].type \in {"Elif", "Else"} => i > 1 /\ p[i - 1].type = "If_Return"
=============================================================================
