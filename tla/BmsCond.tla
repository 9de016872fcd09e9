------------------------------- MODULE BmsCond -------------------------------
(***************************************************************************)
(* The compound condition of an If, Elif or For (check_condition, cmd.c):  *)
(* the conditions are judged one by one, then their results and the        *)
(* operators between them are reduced in place, in passes that each make   *)
(* both lists one shorter.  One action per turn of a loop.                 *)
(*                                                                         *)
(* How a single condition comes to its truth value, 0 or 1, is abstracted; *)
(* what the operators make of two of them is not.                          *)
(***************************************************************************)
EXTENDS Integers, Sequences

CONSTANTS
    Joins,      \* the operators that scripts put between two conditions
    MaxConds    \* conditions of a command: as many as its MAX_ARGS arguments hold

\* Every condition that may stand between two others, by its first name.
Operator == {"<", ">", "!=", "==", ">=", "<=", "&", "^", "|", "%", "/", "<<", ">>", "!", "!!", "~",
             "strncmp", "ext"}

Truth == {0, 1}     \* FALSE, TRUE

ASSUME JoinsAssumption == Joins \subseteq Operator
ASSUME BoundAssumption == MaxConds \in Nat \ {0}

VARIABLES
    truths,     \* the command: what its conditions amount to
    joins,      \*              the operators between them
    pc,         \* "judge", "reduce", "done"
    ifs, i,     \* the counters of the loops
    res_db,     \* the results
    cond_db,    \* the operators; a shorter list instead of NULL
    res,        \* the value to return
    left        \* history: what the conditions judged so far amount to, taken from left to right

vars == <<truths, joins, pc, ifs, i, res_db, cond_db, res, left>>

TypeOK ==
    /\ truths \in Seq(Truth) /\ Len(truths) \in 1 .. MaxConds
    /\ joins \in Seq(Joins) /\ Len(joins) = Len(truths) - 1
    /\ pc \in {"judge", "reduce", "done"}
    /\ ifs \in 0 .. Len(joins) /\ i \in 0 .. ifs
    /\ res_db \in Seq(Truth) /\ cond_db \in Seq(Joins)
    /\ res \in Truth
    /\ left \in Seq(Truth)

\* check_condition(-1, a, op, b) is TRUE: the condition `a op b` between numbers.
Holds(a, op, b) ==
    \/ op = "<" /\ a < b
    \/ op \in {">", ">>"} /\ a > b
    \/ op \in {"!=", "^"} /\ a # b
    \/ op = "==" /\ a = b
    \/ op \in {">=", "/", "strncmp"} /\ a >= b
    \/ op = "<=" /\ a <= b
    \/ op = "&" /\ a = 1 /\ b = 1
    \/ op = "|" /\ (a = 1 \/ b = 1)
    \/ op = "%" /\ b = 0
    \/ op \in {"<<", "!!"} /\ a = 1
    \/ op = "!" /\ a = 0
    \/ op \in {"~", "ext"}

Combine(a, op, b) == IF Holds(a, op, b) THEN 1 ELSE 0

-----------------------------------------------------------------------------

Init ==
    /\ \E n \in 1 .. MaxConds :
          /\ truths \in [1 .. n -> Truth]
          /\ joins \in [1 .. n - 1 -> Joins]
    /\ pc = "judge" /\ ifs = 0 /\ i = 0
    /\ res_db = <<>> /\ cond_db = <<>> /\ left = <<>>
    /\ res = 0

\* A turn of the first loop: the next condition and the operator behind it.
\* The loop ends in front of ifs++, so ifs then is the number of operators.
Judge ==
    /\ pc = "judge"
    /\ LET t == truths[ifs + 1]
       IN  /\ res' = t
           /\ res_db' = Append(res_db, t)
           /\ left' = Append(left, IF ifs = 0 THEN t ELSE Combine(left[ifs], joins[ifs], t))
    /\ IF ifs < Len(joins)
       THEN /\ cond_db' = Append(cond_db, joins[ifs + 1])
            /\ ifs' = ifs + 1
            /\ UNCHANGED pc
       ELSE /\ pc' = "reduce"
            /\ UNCHANGED <<cond_db, ifs>>
    /\ UNCHANGED <<truths, joins, i>>

\* Bug: the result of a turn is not stored for the next one.
Reduce_forgets ==
    /\ pc = "reduce" /\ i < ifs
    /\ res' = Combine(res_db[i + 1], cond_db[i + 1], res_db[i + 2])
    /\ i' = i + 1
    /\ UNCHANGED <<truths, joins, pc, ifs, res_db, cond_db, left>>

\* A turn of the inner loop: current and next become next.
Reduce ==
    /\ pc = "reduce" /\ i < ifs
    /\ res' = Combine(res_db[i + 1], cond_db[i + 1], res_db[i + 2])
    /\ res_db' = [res_db EXCEPT ![i + 2] = res']
    /\ i' = i + 1
    /\ UNCHANGED <<truths, joins, pc, ifs, cond_db, left>>

\* Bug: the operators do not move up with the results.
Shift_resultsOnly ==
    /\ pc = "reduce" /\ ifs > 0 /\ i = ifs
    /\ res_db' = Tail(res_db)
    /\ cond_db' = SubSeq(cond_db, 1, ifs - 1)
    /\ ifs' = ifs - 1
    /\ i' = 0
    /\ UNCHANGED <<truths, joins, pc, res, left>>

\* The end of a pass: both lists move up by one.
Shift ==
    /\ pc = "reduce" /\ ifs > 0 /\ i = ifs
    /\ res_db' = Tail(res_db)
    /\ cond_db' = Tail(cond_db)
    /\ ifs' = ifs - 1
    /\ i' = 0
    /\ UNCHANGED <<truths, joins, pc, res, left>>

Return ==
    /\ pc = "reduce" /\ ifs = 0
    /\ pc' = "done"
    /\ UNCHANGED <<truths, joins, ifs, i, res_db, cond_db, res, left>>

Next == Judge \/ Reduce \/ Shift \/ Return

Spec == Init /\ [][Next]_vars

-----------------------------------------------------------------------------
(* Properties *)

\* Operators for which repeating the last operation changes nothing.
Absorbing(op) ==
    \A a, b \in Truth : Combine(a, op, Combine(a, op, b)) = Combine(a, op, b)

Mild == \A k \in 1 .. Len(joins) : Absorbing(joins[k])

\* An If of several conditions takes the branch that reading them from left to
\* right decides, although the passes of check_condition() combine results that
\* they have overwritten: with `&` and `|`, and every operator like them.
LeftToRight == pc = "done" /\ Mild => res = left[Len(truths)]

\* What the conditions amount to from left to right, as far as they are judged.
LeftInv ==
    /\ \A k \in 2 .. Len(left) : left[k] = Combine(left[k - 1], joins[k - 1], truths[k])
    /\ pc = "judge" => Len(left) = ifs
    /\ pc # "judge" => Len(left) = Len(truths)
    /\ Len(left) > 0 => left[1] = truths[1]

\* While conditions are judged, the lists are those of the command.
JudgeInv ==
    pc = "judge" =>
        /\ i = 0 /\ Len(res_db) = ifs /\ Len(cond_db) = ifs
        /\ \A k \in 1 .. ifs : res_db[k] = truths[k] /\ cond_db[k] = joins[k]

\* In a pass, the operator k is the one of the command behind as many as there
\* were passes, and a result holds what the conditions up to its own amount to;
\* those the first pass has not reached hold their own condition.
PassInv ==
    pc = "reduce" =>
        LET s == Len(joins) - ifs
        IN  /\ Len(res_db) = ifs + 1 /\ Len(cond_db) = ifs
            /\ \A k \in 1 .. ifs : cond_db[k] = joins[k + s]
            /\ Mild =>
                  /\ \A k \in 1 .. ifs + 1 : s > 0 \/ k <= i + 1 => res_db[k] = left[k + s]
                  /\ \A k \in 1 .. ifs + 1 : s = 0 /\ k > i + 1 => res_db[k] = truths[k]
                  /\ ifs = 0 \/ i > 0 => res = left[i + s + 1]
=============================================================================
