---------------------------- MODULE BmsCond_proofs ----------------------------
(***************************************************************************)
(* A compound condition of any length whose operators are absorbing (`&`,  *)
(* `|` and others) amounts to what reading it from left to right yields.   *)
(***************************************************************************)
EXTENDS BmsCond, TLAPS, SequenceTheorems

\* The inductive invariant.
IInv == TypeOK /\ LeftInv /\ JudgeInv /\ PassInv /\ LeftToRight

\* What an operator makes of two truth values is one.
LEMMA CombineType ==
    ASSUME NEW a, NEW op, NEW b
    PROVE  Combine(a, op, b) \in Truth
BY DEF Combine, Truth

\* The operators by which the manual joins conditions are absorbing.
THEOREM AndOrAbsorbing == Absorbing("&") /\ Absorbing("|")
BY DEF Absorbing, Combine, Holds, Truth

LEMMA InitInv == Init => IInv
<1> SUFFICES ASSUME Init PROVE IInv
    OBVIOUS
<1>1. PICK n \in 1 .. MaxConds : truths \in [1 .. n -> Truth] /\ joins \in [1 .. n - 1 -> Joins]
    BY DEF Init
<1>2. /\ truths \in Seq(Truth) /\ Len(truths) = n
      /\ joins \in Seq(Joins) /\ Len(joins) = n - 1
    BY <1>1, BoundAssumption
<1>3. /\ pc = "judge" /\ ifs = 0 /\ i = 0 /\ res = 0
      /\ res_db = <<>> /\ cond_db = <<>> /\ left = <<>>
    BY DEF Init
<1>4. TypeOK
    BY <1>2, <1>3, BoundAssumption DEF TypeOK, Truth
<1>5. LeftInv /\ JudgeInv /\ PassInv /\ LeftToRight
    BY <1>2, <1>3 DEF LeftInv, JudgeInv, PassInv, LeftToRight
<1> QED BY <1>4, <1>5 DEF IInv

LEMMA JudgeStep == IInv /\ Judge => IInv'
<1> SUFFICES ASSUME IInv, Judge PROVE IInv'
    OBVIOUS
<1> DEFINE t == truths[ifs + 1]
           c == IF ifs = 0 THEN t ELSE Combine(left[ifs], joins[ifs], t)
<1>1. /\ truths \in Seq(Truth) /\ joins \in Seq(Joins) /\ Len(joins) = Len(truths) - 1
      /\ Len(truths) \in 1 .. MaxConds
      /\ ifs \in 0 .. Len(joins) /\ i = 0
      /\ res_db \in Seq(Truth) /\ cond_db \in Seq(Joins) /\ left \in Seq(Truth)
      /\ Len(left) = ifs /\ Len(res_db) = ifs /\ Len(cond_db) = ifs
    BY DEF IInv, TypeOK, LeftInv, JudgeInv, Judge
<1>2. t \in Truth /\ c \in Truth
    BY <1>1, CombineType, ElementOfSeq
<1>3. /\ res' = t /\ res_db' = Append(res_db, t) /\ left' = Append(left, c)
      /\ truths' = truths /\ joins' = joins /\ i' = i
    BY DEF Judge
<1>4. (ifs = 0 => c = t) /\ (ifs # 0 => c = Combine(left[ifs], joins[ifs], t))
    OBVIOUS
<1>5. /\ \A k \in 1 .. ifs : res_db[k] = truths[k] /\ cond_db[k] = joins[k]
      /\ \A k \in 2 .. ifs : left[k] = Combine(left[k - 1], joins[k - 1], truths[k])
      /\ ifs > 0 => left[1] = truths[1]
    BY <1>1 DEF IInv, JudgeInv, LeftInv, Judge
<1> HIDE DEF c
<1>6. /\ left' \in Seq(Truth) /\ Len(left') = ifs + 1 /\ left'[ifs + 1] = c
      /\ \A k \in 1 .. ifs : left'[k] = left[k]
    BY <1>1, <1>2, <1>3
<1>7. /\ res_db' \in Seq(Truth) /\ Len(res_db') = ifs + 1
      /\ \A k \in 1 .. ifs + 1 : res_db'[k] = truths[k]
    BY <1>1, <1>2, <1>3, <1>5
<1>8. left'[1] = truths[1]
    BY <1>1, <1>4, <1>5, <1>6
<1>9. \A k \in 2 .. ifs + 1 : left'[k] = Combine(left'[k - 1], joins[k - 1], truths[k])
  <2> SUFFICES ASSUME NEW k \in 2 .. ifs + 1
               PROVE  left'[k] = Combine(left'[k - 1], joins[k - 1], truths[k])
    OBVIOUS
  <2>1. k - 1 \in 1 .. ifs /\ left'[k - 1] = left[k - 1]
    BY <1>1, <1>6
  <2>2. CASE k <= ifs
    BY <1>1, <1>5, <1>6, <2>1, <2>2
  <2>3. CASE k = ifs + 1
    <3>1. k - 1 = ifs /\ ifs # 0
      BY <1>1, <2>3
    <3> QED BY <1>4, <1>6, <2>1, <2>3, <3>1
  <2> QED BY <1>1, <2>2, <2>3
<1>10. CASE ifs < Len(joins)
  <2>1. /\ cond_db' = Append(cond_db, joins[ifs + 1]) /\ ifs' = ifs + 1 /\ pc' = "judge"
    BY <1>10 DEF Judge
  <2>2. joins[ifs + 1] \in Joins
    BY <1>1, <1>10, ElementOfSeq
  <2>3. cond_db' \in Seq(Joins) /\ Len(cond_db') = ifs + 1 /\ \A k \in 1 .. ifs + 1 : cond_db'[k] = joins[k]
    BY <1>1, <1>5, <2>1, <2>2
  <2>4. TypeOK'
    BY <1>1, <1>2, <1>3, <1>6, <1>7, <1>10, <2>1, <2>3 DEF TypeOK
  <2>5. LeftInv'
    BY <1>3, <1>6, <1>8, <1>9, <2>1 DEF LeftInv
  <2>6. JudgeInv'
    BY <1>1, <1>3, <1>7, <2>1, <2>3 DEF JudgeInv
  <2> QED BY <2>1, <2>4, <2>5, <2>6 DEF IInv, PassInv, LeftToRight
<1>11. CASE ~(ifs < Len(joins))
  <2>1. cond_db' = cond_db /\ ifs' = ifs /\ pc' = "reduce"
    BY <1>11 DEF Judge
  <2>2. ifs = Len(joins) /\ Len(truths) = ifs + 1
    BY <1>1, <1>11
  <2>3. TypeOK'
    BY <1>1, <1>2, <1>3, <1>6, <1>7, <2>1, <2>2 DEF TypeOK
  <2>4. LeftInv'
    BY <1>3, <1>6, <1>8, <1>9, <2>1, <2>2 DEF LeftInv
  <2>5. PassInv'
    <3>1. Len(joins') - ifs' = 0 /\ \A k \in Int : k + 0 = k
      BY <1>1, <1>3, <2>1, <2>2
    <3>2. \A k \in 1 .. ifs + 1 : k <= i + 1 => res_db'[k] = left'[k]
      BY <1>1, <1>7, <1>8
    <3>3. ifs = 0 => res' = left'[1]
      BY <1>3, <1>8
    <3>4. /\ Len(cond_db') = ifs' /\ Len(res_db') = ifs' + 1 /\ i' = 0
          /\ \A k \in 1 .. ifs' : cond_db'[k] = joins'[k + 0]
          /\ \A k \in 1 .. ifs' + 1 : k <= i' + 1 => res_db'[k] = left'[k + 0]
          /\ \A k \in 1 .. ifs' + 1 : k > i' + 1 => res_db'[k] = truths'[k]
          /\ ifs' = 0 => res' = left'[i' + 0 + 1]
      BY <1>1, <1>3, <1>5, <1>7, <2>1, <3>1, <3>2, <3>3
    <3> QED BY <3>1, <3>4 DEF PassInv
  <2> QED BY <2>1, <2>3, <2>4, <2>5 DEF IInv, JudgeInv, LeftToRight
<1> QED BY <1>10, <1>11

LEMMA ReduceStep == IInv /\ Reduce => IInv'
<1> SUFFICES ASSUME IInv, Reduce PROVE IInv'
    OBVIOUS
<1> DEFINE s == Len(joins) - ifs
           x == i + s + 2
           c == Combine(res_db[i + 1], cond_db[i + 1], res_db[i + 2])
<1>1. /\ truths \in Seq(Truth) /\ joins \in Seq(Joins) /\ Len(joins) = Len(truths) - 1
      /\ Len(truths) \in 1 .. MaxConds
      /\ ifs \in 0 .. Len(joins) /\ i \in 0 .. ifs /\ i < ifs
      /\ res_db \in Seq(Truth) /\ cond_db \in Seq(Joins) /\ left \in Seq(Truth)
      /\ Len(left) = Len(truths) /\ Len(res_db) = ifs + 1 /\ Len(cond_db) = ifs
      /\ pc = "reduce"
    BY DEF IInv, TypeOK, LeftInv, PassInv, Reduce
<1>2. /\ \A k \in 1 .. ifs : cond_db[k] = joins[k + s]
      /\ Mild => /\ \A k \in 1 .. ifs + 1 : s > 0 \/ k <= i + 1 => res_db[k] = left[k + s]
                 /\ \A k \in 1 .. ifs + 1 : s = 0 /\ k > i + 1 => res_db[k] = truths[k]
      /\ \A k \in 2 .. Len(left) : left[k] = Combine(left[k - 1], joins[k - 1], truths[k])
      /\ left[1] = truths[1]
    BY <1>1 DEF IInv, PassInv, LeftInv
<1>3. c \in Truth
    BY CombineType
<1>4. /\ res' = c /\ res_db' = [res_db EXCEPT ![i + 2] = c] /\ i' = i + 1
      /\ truths' = truths /\ joins' = joins /\ pc' = pc /\ ifs' = ifs
      /\ cond_db' = cond_db /\ left' = left
    BY DEF Reduce
<1>5. /\ s \in Nat /\ i \in Nat /\ x \in 2 .. Len(truths) /\ x - 1 \in 1 .. Len(joins)
      /\ (i + 1) + s = x - 1 /\ (i + 2) + s = x /\ i' + s + 1 = x
      /\ i + 1 \in 1 .. ifs /\ i + 1 \in 1 .. ifs + 1 /\ i + 2 \in 1 .. ifs + 1
    BY <1>1, <1>4
<1>6. Mild => c = left[x]
  <2> SUFFICES ASSUME Mild PROVE c = left[x]
    OBVIOUS
  <2>1. cond_db[i + 1] = joins[x - 1] /\ res_db[i + 1] = left[x - 1]
    BY <1>2, <1>5
  <2>2. left[x] = Combine(left[x - 1], joins[x - 1], truths[x])
    BY <1>1, <1>2, <1>5
  <2>3. Absorbing(joins[x - 1])
    BY <1>5 DEF Mild
  <2>4. left[x - 1] \in Truth /\ truths[x] \in Truth
    BY <1>1, <1>5, ElementOfSeq
  <2>5. CASE s > 0
    <3>1. res_db[i + 2] = left[x]
      BY <1>2, <1>5, <2>5
    <3>2. c = Combine(left[x - 1], joins[x - 1], left[x])
      BY <2>1, <3>1
    <3> HIDE DEF c, x
    <3> QED BY <2>2, <2>3, <2>4, <3>2 DEF Absorbing
  <2>6. CASE s = 0
    <3>1. x = i + 2 /\ i + 2 > i + 1
      BY <1>5, <2>6
    <3>2. res_db[i + 2] = truths[x]
      BY <1>2, <1>5, <2>6, <3>1
    <3> QED BY <2>1, <2>2, <3>2
  <2> QED BY <1>5, <2>5, <2>6
<1>12. Len(joins') - ifs' = s
    BY <1>4
<1> HIDE DEF c, s, x
<1>7. /\ res_db' \in Seq(Truth) /\ Len(res_db') = ifs + 1
      /\ res_db'[i + 2] = c /\ \A k \in 1 .. ifs + 1 : k # i + 2 => res_db'[k] = res_db[k]
    BY <1>1, <1>3, <1>4
<1>8. TypeOK'
    BY <1>1, <1>3, <1>4, <1>7 DEF TypeOK
<1>9. Mild' <=> Mild
    BY <1>4 DEF Mild
<1>10. PassInv'
  <2>1. Mild => /\ \A k \in 1 .. ifs + 1 : s > 0 \/ k <= i' + 1 => res_db'[k] = left[k + s]
                /\ \A k \in 1 .. ifs + 1 : s = 0 /\ k > i' + 1 => res_db'[k] = truths[k]
    <3> SUFFICES ASSUME Mild, NEW k \in 1 .. ifs + 1
                 PROVE  /\ s > 0 \/ k <= i' + 1 => res_db'[k] = left[k + s]
                        /\ s = 0 /\ k > i' + 1 => res_db'[k] = truths[k]
      OBVIOUS
    <3>1. CASE k = i + 2
      BY <1>4, <1>5, <1>6, <1>7, <3>1
    <3>2. CASE k # i + 2
      BY <1>2, <1>4, <1>5, <1>7, <3>2
    <3> QED BY <3>1, <3>2
  <2>2. Mild => res' = left[i' + s + 1]
    BY <1>4, <1>5, <1>6
  <2>3. i' + 1 > 0 /\ ifs' = ifs /\ \A k \in 1 .. ifs : cond_db'[k] = joins'[k + s]
    BY <1>1, <1>2, <1>4
  <2> QED BY <1>1, <1>4, <1>7, <1>9, <1>12, <2>1, <2>2, <2>3 DEF PassInv
<1>11. LeftInv' /\ JudgeInv' /\ LeftToRight'
    BY <1>1, <1>2, <1>4 DEF LeftInv, JudgeInv, LeftToRight
<1> QED BY <1>8, <1>10, <1>11 DEF IInv

LEMMA ShiftStep == IInv /\ Shift => IInv'
<1> SUFFICES ASSUME IInv, Shift PROVE IInv'
    OBVIOUS
<1> DEFINE s == Len(joins) - ifs
<1>1. /\ truths \in Seq(Truth) /\ joins \in Seq(Joins) /\ Len(joins) = Len(truths) - 1
      /\ Len(truths) \in 1 .. MaxConds
      /\ ifs \in 1 .. Len(joins) /\ i = ifs
      /\ res_db \in Seq(Truth) /\ cond_db \in Seq(Joins) /\ left \in Seq(Truth)
      /\ Len(left) = Len(truths) /\ Len(res_db) = ifs + 1 /\ Len(cond_db) = ifs
      /\ pc = "reduce" /\ res \in Truth
    BY DEF IInv, TypeOK, LeftInv, PassInv, Shift
<1>2. /\ \A k \in 1 .. ifs : cond_db[k] = joins[k + s]
      /\ Mild => /\ \A k \in 1 .. ifs + 1 : s > 0 \/ k <= i + 1 => res_db[k] = left[k + s]
                 /\ res = left[i + s + 1]
    BY <1>1 DEF IInv, PassInv
<1>3. /\ res_db' = Tail(res_db) /\ cond_db' = Tail(cond_db) /\ ifs' = ifs - 1 /\ i' = 0
      /\ truths' = truths /\ joins' = joins /\ pc' = pc /\ res' = res /\ left' = left
    BY DEF Shift
<1>4. /\ res_db' \in Seq(Truth) /\ Len(res_db') = ifs
      /\ \A k \in 1 .. ifs : res_db'[k] = res_db[k + 1]
    BY <1>1, <1>3, HeadTailProperties
<1>5. /\ cond_db' \in Seq(Joins) /\ Len(cond_db') = ifs - 1
      /\ \A k \in 1 .. ifs - 1 : cond_db'[k] = cond_db[k + 1]
    BY <1>1, <1>3, HeadTailProperties
<1>6. TypeOK'
    BY <1>1, <1>3, <1>4, <1>5 DEF TypeOK
<1>7. s \in Nat /\ Len(joins') - ifs' = s + 1 /\ i + s + 1 = ifs' + (s + 1) + 1
    BY <1>1, <1>3
<1>8. \A k \in 1 .. ifs - 1 : cond_db'[k] = joins[k + (s + 1)]
  <2> SUFFICES ASSUME NEW k \in 1 .. ifs - 1 PROVE cond_db'[k] = joins[k + (s + 1)]
    OBVIOUS
  <2>1. k + 1 \in 1 .. ifs /\ (k + 1) + s = k + (s + 1)
    BY <1>1, <1>7
  <2> QED BY <1>2, <1>5, <2>1
<1>9. Mild => \A k \in 1 .. ifs : res_db'[k] = left[k + (s + 1)]
  <2> SUFFICES ASSUME Mild, NEW k \in 1 .. ifs PROVE res_db'[k] = left[k + (s + 1)]
    OBVIOUS
  <2>1. k + 1 \in 1 .. ifs + 1 /\ (k + 1) + s = k + (s + 1) /\ k + 1 <= i + 1
    BY <1>1, <1>7
  <2> QED BY <1>2, <1>4, <2>1
<1>10. PassInv'
  <2>1. Mild' <=> Mild
    BY <1>3 DEF Mild
  <2>2. ifs' + 1 = ifs
    BY <1>1, <1>3
  <2>3. ifs' = 0 => i + s + 1 = i' + (s + 1) + 1
    BY <1>1, <1>3
  <2>4. /\ Len(joins') - ifs' = s + 1 /\ s + 1 > 0 /\ Len(cond_db') = ifs' /\ Len(res_db') = ifs' + 1
        /\ \A k \in 1 .. ifs' : cond_db'[k] = joins'[k + (s + 1)]
        /\ Mild => \A k \in 1 .. ifs' + 1 : res_db'[k] = left'[k + (s + 1)]
        /\ Mild /\ ifs' = 0 => res' = left'[i' + (s + 1) + 1]
    <3>1. Len(joins') - ifs' = s + 1 /\ s + 1 > 0 /\ Len(cond_db') = ifs' /\ Len(res_db') = ifs' + 1
      BY <1>1, <1>3, <1>4, <1>5, <1>7
    <3>2. \A k \in 1 .. ifs' : cond_db'[k] = joins'[k + (s + 1)]
      BY <1>3, <1>8
    <3>3. Mild => \A k \in 1 .. ifs' + 1 : res_db'[k] = left'[k + (s + 1)]
      BY <1>3, <1>9, <2>2
    <3>4. Mild /\ ifs' = 0 => res' = left'[i' + (s + 1) + 1]
      BY <1>2, <1>3, <2>3
    <3> QED BY <3>1, <3>2, <3>3, <3>4
  <2> HIDE DEF s
  <2> DEFINE n == Len(joins') - ifs'
  <2>5. n = s + 1 /\ n > 0 /\ Len(cond_db') = ifs' /\ Len(res_db') = ifs' + 1
    BY <2>4
  <2>6. \A k \in 1 .. ifs' : cond_db'[k] = joins'[k + n]
    BY <2>4, <2>5
  <2>7. ASSUME Mild'
        PROVE  /\ \A k \in 1 .. ifs' + 1 : n > 0 \/ k <= i' + 1 => res_db'[k] = left'[k + n]
               /\ \A k \in 1 .. ifs' + 1 : n = 0 /\ k > i' + 1 => res_db'[k] = truths'[k]
               /\ ifs' = 0 \/ i' > 0 => res' = left'[i' + n + 1]
    <3>1. \A k \in 1 .. ifs' + 1 : res_db'[k] = left'[k + n]
      BY <2>1, <2>4, <2>5, <2>7
    <3>2. n # 0 /\ ~(i' > 0)
      BY <1>3, <1>7, <2>5
    <3>3. ifs' = 0 => res' = left'[i' + n + 1]
      <4>1. i' + n + 1 = i' + (s + 1) + 1
        BY <2>5
      <4> QED BY <2>1, <2>4, <2>7, <4>1
    <3> QED BY <3>1, <3>2, <3>3
  <2> QED BY <2>5, <2>6, <2>7 DEF PassInv
<1>11. LeftInv' /\ JudgeInv' /\ LeftToRight'
  <2>1. LeftInv'
    BY <1>1, <1>3 DEF IInv, LeftInv
  <2> QED BY <1>1, <1>3, <2>1 DEF JudgeInv, LeftToRight
<1> QED BY <1>6, <1>10, <1>11 DEF IInv

LEMMA ReturnStep == IInv /\ Return => IInv'
<1> SUFFICES ASSUME IInv, Return PROVE IInv'
    OBVIOUS
<1>1. TypeOK'
    BY DEF IInv, TypeOK, Return
<1>2. Mild' <=> Mild
    BY DEF Return, Mild
<1>3. ifs = 0 /\ i = 0 /\ Len(joins) = Len(truths) - 1 /\ Len(truths) \in Nat /\ pc = "reduce"
    BY DEF IInv, TypeOK, Return
<1>4. Mild => res = left[Len(truths)]
  <2>1. i + (Len(joins) - ifs) + 1 = Len(truths)
    BY <1>3
  <2> QED BY <1>3, <2>1 DEF IInv, PassInv
<1>5. LeftInv' /\ JudgeInv' /\ PassInv' /\ LeftToRight'
    BY <1>2, <1>3, <1>4 DEF IInv, LeftInv, JudgeInv, PassInv, LeftToRight, Return
<1> QED BY <1>1, <1>5 DEF IInv

LEMMA CondInv == Spec => []IInv
<1>1. IInv /\ [Next]_vars => IInv'
  <2>1. IInv /\ UNCHANGED vars => IInv'
    BY DEF IInv, TypeOK, LeftInv, JudgeInv, PassInv, LeftToRight, Mild, vars
  <2> QED BY <2>1, JudgeStep, ReduceStep, ShiftStep, ReturnStep DEF Next
<1> QED BY <1>1, InitInv, PTL DEF Spec

\* The lists and counters of check_condition() keep their types, whatever the
\* length of the command.
THEOREM CondTypeCorrect == Spec => []TypeOK
<1>1. IInv => TypeOK
    BY DEF IInv
<1> QED BY <1>1, CondInv, PTL

\* A compound condition of any length amounts to what reading it from left to
\* right yields, if all of its operators are absorbing.
THEOREM CondLeftToRight == Spec => []LeftToRight
<1>1. IInv => LeftToRight
    BY DEF IInv
<1> QED BY <1>1, CondInv, PTL

\* What the lists hold at every turn of a pass; no turn reads behind their end.
THEOREM CondPasses == Spec => []PassInv
<1>1. IInv => PassInv
    BY DEF IInv
<1> QED BY <1>1, CondInv, PTL
=============================================================================
