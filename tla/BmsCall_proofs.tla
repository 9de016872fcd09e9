----------------------------- MODULE BmsCall_proofs -----------------------------
(***************************************************************************)
(* Proofs about BmsCall, for every script, any functions and any nesting   *)
(* of calls with and without KEEP_VAR: an index means the same variable in *)
(* every copy of the table, a copy leaves no trace, and the table          *)
(* implements an environment of names (BmsEnv), step by step.              *)
(***************************************************************************)
EXTENDS BmsCall, TLAPS, FiniteSetTheorems

-----------------------------------------------------------------------------
(* The inductive invariant *)

\* A table that the parser's indices fit.
Good(t) ==
    /\ t \in Seq(Variable) /\ Len(t) <= MAX_VARS /\ Len(Parsed) <= Len(t)
    /\ \A i \in Index : t[i].name = Parsed[i]
    /\ \A i, j \in DOMAIN t : t[i].name = t[j].name => i = j

TablesInv ==
    /\ tables \in Seq(Seq(Variable)) /\ tables # <<>>
    /\ \A n \in DOMAIN tables : Good(tables[n])

\* All arguments are bound, except while the last call binds its own.
CallInv ==
    /\ calls \in Seq(Call_)
    /\ \A k \in DOMAIN calls :
          /\ Len(calls[k].args) <= MaxArgs[calls[k].f]
          /\ Len(calls[k].at) <= Len(calls[k].args)
          /\ k < Len(calls) \/ pc \in {"body", "back"} => Len(calls[k].at) = Len(calls[k].args)

PcInv ==
    /\ back \in Nat /\ forced \in BOOLEAN
    /\ pc \in {"body", "bind", "back", "exit"}
    /\ pc = "bind" => calls # <<>> /\ Len(Top.at) < Len(Top.args)
    /\ pc = "back" => calls # <<>> /\ back <= Len(Top.args)

\* The table of a call, counted in a sequence of calls.
Lev(cs, k) == 1 + Cardinality({j \in 1 .. k : ~cs[j].keep})

LevelInv == Len(tables) = Lev(calls, Len(calls))

\* What a call has noted for its arguments are variables of its table, named
\* after them.
Noted(t, c) ==
    \A i \in DOMAIN c.at : c.at[i] \in DOMAIN t /\ t[c.at[i]].name = Formal(c.f, i)

AtInv == \A k \in DOMAIN calls : Noted(tables[Lev(calls, k)], calls[k])

\* The table below a copy is as the call has found it; only the last call that
\* has begun to return may have touched it, in what was passed.
Frozen(t, c, touched) ==
    /\ Len(t) = Len(c.old)
    /\ \A i \in DOMAIN t : t[i] = c.old[i] \/ (touched /\ i \in Range(c.args))

OldInv ==
    \A k \in DOMAIN calls :
        ~calls[k].keep => Frozen(tables[Lev(calls, k) - 1], calls[k],
                                 k = Len(calls) /\ pc \in {"back", "exit"})

IInv == TablesInv /\ CallInv /\ PcInv /\ LevelInv /\ AtInv /\ OldInv

-----------------------------------------------------------------------------
(* Counting the copies *)

LEMMA LevNat ==
    ASSUME NEW cs, NEW k \in Nat
    PROVE  Lev(cs, k) \in Nat /\ Lev(cs, k) >= 1 /\ IsFiniteSet({j \in 1 .. k : ~cs[j].keep})
<1> DEFINE S == {j \in 1 .. k : ~cs[j].keep}
<1>1. IsFiniteSet(1 .. k)
  BY FS_Interval
<1>2. S \in SUBSET (1 .. k)
  OBVIOUS
<1>3. IsFiniteSet(S)
  BY <1>1, <1>2, FS_Subset
<1>4. Cardinality(S) \in Nat
  BY <1>3, FS_CardinalityType
<1> QED  BY <1>3, <1>4 DEF Lev

LEMMA LevZero == ASSUME NEW cs PROVE Lev(cs, 0) = 1
<1>1. {j \in 1 .. 0 : ~cs[j].keep} = {}
  OBVIOUS
<1> QED  BY <1>1, FS_EmptySet DEF Lev

\* A call that copies the table is one level above the call before it.
LEMMA LevStep ==
    ASSUME NEW cs, NEW k \in Nat
    PROVE  /\ cs[k + 1].keep => Lev(cs, k + 1) = Lev(cs, k)
           /\ ~cs[k + 1].keep => Lev(cs, k + 1) = Lev(cs, k) + 1
<1> DEFINE S(n) == {j \in 1 .. n : ~cs[j].keep}
<1>1. cs[k + 1].keep => S(k + 1) = S(k)
  OBVIOUS
<1>2. ~cs[k + 1].keep => S(k + 1) = S(k) \cup {k + 1}
  OBVIOUS
<1>3. IsFiniteSet(S(k)) /\ k + 1 \notin S(k)
  BY LevNat
<1>4. Cardinality(S(k) \cup {k + 1}) = Cardinality(S(k)) + 1
  BY <1>3, FS_AddElement
<1>5. Cardinality(S(k)) \in Nat
  BY <1>3, FS_CardinalityType
<1>6. Lev(cs, k) = 1 + Cardinality(S(k)) /\ Lev(cs, k + 1) = 1 + Cardinality(S(k + 1))
  BY DEF Lev
<1> HIDE DEF S
<1>7. CASE cs[k + 1].keep
  BY <1>1, <1>6, <1>7
<1>8. CASE ~cs[k + 1].keep
  <2>1. Cardinality(S(k + 1)) = Cardinality(S(k)) + 1
    BY <1>2, <1>4, <1>8
  <2> QED  BY <2>1, <1>5, <1>6, <1>8
<1> QED  BY <1>7, <1>8

LEMMA LevMonotone ==
    ASSUME NEW cs, NEW j \in Nat, NEW k \in Nat, j <= k
    PROVE  Lev(cs, j) <= Lev(cs, k)
<1> DEFINE S(n) == {i \in 1 .. n : ~cs[i].keep}
<1>1. S(j) \in SUBSET S(k)
  OBVIOUS
<1>2. IsFiniteSet(S(k)) /\ IsFiniteSet(S(j))
  BY LevNat
<1>3. Cardinality(S(j)) <= Cardinality(S(k))
  BY <1>1, <1>2, FS_Subset
<1>4. Cardinality(S(j)) \in Nat /\ Cardinality(S(k)) \in Nat
  BY <1>2, FS_CardinalityType
<1> QED  BY <1>3, <1>4 DEF Lev

LEMMA LevSame ==
    ASSUME NEW cs, NEW ds, NEW k \in Nat, \A j \in 1 .. k : cs[j].keep = ds[j].keep
    PROVE  Lev(cs, k) = Lev(ds, k)
<1>1. {j \in 1 .. k : ~cs[j].keep} = {j \in 1 .. k : ~ds[j].keep}
  OBVIOUS
<1> QED  BY <1>1 DEF Lev

\* Every call works on a table that there is, and a copy has one below it.
LEMMA Levels ==
    ASSUME IInv, NEW k \in DOMAIN calls
    PROVE  /\ k \in 1 .. Len(calls) /\ Len(calls) \in Nat
           /\ Lev(calls, k) \in 1 .. Len(tables)
           /\ ~calls[k].keep => Lev(calls, k) - 1 \in 1 .. Len(tables) - 1
<1>1. k \in 1 .. Len(calls) /\ Len(calls) \in Nat
  BY DEF IInv, CallInv
<1>2. Lev(calls, k) <= Lev(calls, Len(calls)) /\ Lev(calls, k) \in Nat /\ Lev(calls, k) >= 1
  <2>1. k \in Nat /\ k <= Len(calls)
    BY <1>1
  <2> QED  BY <1>1, <2>1, LevMonotone, LevNat
<1>3. Lev(calls, k) \in 1 .. Len(tables)
  BY <1>2 DEF IInv, LevelInv, TablesInv
<1>4. ASSUME ~calls[k].keep PROVE Lev(calls, k) - 1 >= 1
  <2>1. k - 1 \in Nat /\ (k - 1) + 1 = k
    BY <1>1
  <2>2. Lev(calls, k) = Lev(calls, k - 1) + 1
    BY <1>4, <2>1, LevStep
  <2>3. Lev(calls, k - 1) \in Nat /\ Lev(calls, k - 1) >= 1
    BY <2>1, LevNat
  <2> QED  BY <2>2, <2>3
<1>5. Len(tables) \in Nat
  BY DEF IInv, TablesInv
<1> QED  BY <1>1, <1>2, <1>3, <1>4, <1>5

-----------------------------------------------------------------------------
(* Tables *)

LEMMA ParsedNames ==
    /\ Len(Parsed) \in Nat /\ Index = 1 .. Len(Parsed)
    /\ \A i \in Index : Parsed[i] \in Name /\ First(Parsed[i]) \in Value
<1>1. Len(Parsed) \in Nat /\ Index = 1 .. Len(Parsed)
  BY ParsedAssumption DEF Index
<1>2. ASSUME NEW i \in Index PROVE Parsed[i] \in Name
  BY DEF Index, Name, Range
<1> QED  BY <1>1, <1>2 DEF First, Value

LEMMA FormalNames ==
    ASSUME NEW f \in Func, NEW n \in 1 .. MaxArgs[f]
    PROVE  Formal(f, n) \in Name
  BY DEF Name, Formals

\* The table is as long, and every variable has its name, or there are more.
Extends(t, u) ==
    /\ DOMAIN t \subseteq DOMAIN u
    /\ \A i \in DOMAIN t : u[i].name = t[i].name

LEMMA NotedKept ==
    ASSUME NEW t, NEW u, NEW c, NEW d, Noted(t, c), Extends(t, u), d.at = c.at, d.f = c.f
    PROVE  Noted(u, d)
  BY DEF Noted, Extends

LEMMA ExtendsSelf == ASSUME NEW t PROVE Extends(t, t)
  BY DEF Extends

\* A value may be set in place.
LEMMA GoodSet ==
    ASSUME NEW t, Good(t), NEW i \in DOMAIN t, NEW x \in Variable, x.name = t[i].name
    PROVE  Good([t EXCEPT ![i] = x]) /\ Extends(t, [t EXCEPT ![i] = x])
<1> DEFINE u == [t EXCEPT ![i] = x]
<1>1. t \in Seq(Variable) /\ DOMAIN t = 1 .. Len(t) /\ Len(t) \in Nat
  BY DEF Good
<1>2. u \in Seq(Variable) /\ Len(u) = Len(t) /\ DOMAIN u = DOMAIN t
  BY <1>1
<1>3. \A j \in DOMAIN t : u[j].name = t[j].name
  BY <1>1
<1>4. \A j \in Index : j \in DOMAIN t
  BY <1>1, ParsedNames DEF Good
<1> HIDE DEF u
<1>5. Good(u)
  BY <1>2, <1>3, <1>4 DEF Good
<1>6. Extends(t, u)
  BY <1>2, <1>3 DEF Extends
<1> QED  BY <1>5, <1>6 DEF u

LEMMA GoodAppended ==
    ASSUME NEW t, Good(t), NEW x \in Variable, Len(t) < MAX_VARS,
           \A i \in DOMAIN t : t[i].name # x.name
    PROVE  Good(Append(t, x)) /\ Extends(t, Append(t, x))
<1> DEFINE u == Append(t, x)
<1>1. t \in Seq(Variable) /\ DOMAIN t = 1 .. Len(t) /\ Len(t) \in Nat /\ MAX_VARS \in Nat
  BY BoundAssumption DEF Good
<1>2. /\ u \in Seq(Variable) /\ Len(u) = Len(t) + 1 /\ DOMAIN u = DOMAIN t \cup {Len(t) + 1}
      /\ u[Len(t) + 1] = x /\ \A j \in DOMAIN t : u[j] = t[j]
  BY <1>1
<1>3. \A j \in Index : j \in DOMAIN t
  BY <1>1, ParsedNames DEF Good
<1> HIDE DEF u
<1>4. \A i, j \in DOMAIN u : u[i].name = u[j].name => i = j
  <2>1. \A i, j \in DOMAIN t : t[i].name = t[j].name => i = j
    BY DEF Good
  <2> QED  BY <1>2, <2>1
<1>5. Len(u) <= MAX_VARS /\ Len(Parsed) <= Len(u)
  BY <1>1, <1>2, ParsedNames DEF Good
<1>6. \A j \in Index : u[j].name = Parsed[j]
  BY <1>2, <1>3 DEF Good
<1>7. Extends(t, u)
  BY <1>2 DEF Extends
<1>8. Good(u)
  BY <1>2, <1>4, <1>5, <1>6 DEF Good
<1> QED  BY <1>7, <1>8 DEF u

LEMMA GoodCopied ==
    ASSUME NEW t, Good(t)
    PROVE  Good(Copied(t)) /\ Extends(t, Copied(t))
<1> DEFINE u == Copied(t)
<1>1. t \in Seq(Variable) /\ DOMAIN t = 1 .. Len(t) /\ Len(t) \in Nat
  BY DEF Good
<1>2. \A j \in DOMAIN t : u[j] = [t[j] EXCEPT !.constant = FALSE] /\ t[j] \in Variable
  BY <1>1 DEF Copied
<1>3. \A j \in DOMAIN t : u[j] \in Variable /\ u[j].name = t[j].name
  BY <1>2 DEF Variable
<1>4. DOMAIN u = DOMAIN t
  BY DEF Copied
<1>5. u = [j \in 1 .. Len(t) |-> u[j]]
  BY <1>1 DEF Copied
<1> HIDE DEF u
<1>6. u \in Seq(Variable) /\ Len(u) = Len(t)
  BY <1>1, <1>3, <1>4, <1>5
<1>7. \A j \in Index : j \in DOMAIN t
  BY <1>1, ParsedNames DEF Good
<1>8. Good(u)
  BY <1>3, <1>4, <1>6, <1>7 DEF Good
<1>9. Extends(t, u)
  BY <1>3, <1>4 DEF Extends
<1> QED  BY <1>8, <1>9 DEF u

-----------------------------------------------------------------------------
(* The steps *)

THEOREM InitIInv == ASSUME Init PROVE IInv
<1> DEFINE t == [i \in Index |-> [name |-> Parsed[i], val |-> First(Parsed[i]),
                                  constant |-> Parsed[i] \in Literals]]
<1>1. tables = <<t>> /\ calls = <<>> /\ back = 0 /\ forced = FALSE /\ pc = "body"
  BY DEF Init
<1>2. \A i \in Index : t[i] \in Variable /\ t[i].name = Parsed[i]
  BY ParsedNames DEF Variable
<1>3. t = [i \in 1 .. Len(Parsed) |-> t[i]]
  BY ParsedNames
<1>4. t \in Seq(Variable) /\ Len(t) = Len(Parsed) /\ DOMAIN t = Index
  <2>1. DOMAIN t = 1 .. Len(Parsed)
    BY ParsedNames
  <2>2. \A i \in 1 .. Len(Parsed) : t[i] \in Variable
    BY <1>2, ParsedNames
  <2> HIDE DEF t
  <2> QED  BY <1>3, <2>1, <2>2, ParsedNames
<1> HIDE DEF t
<1>5. Good(t)
  BY <1>2, <1>4, ParsedNames, ParsedAssumption, DistinctAssumption DEF Good, Index
<1>6. TablesInv
  BY <1>1, <1>4, <1>5 DEF TablesInv
<1>7. CallInv /\ PcInv
  <2>1. calls \in Seq(Call_) /\ DOMAIN calls = {}
    BY <1>1
  <2>2. CallInv
    BY <2>1 DEF CallInv
  <2>3. back \in Nat /\ forced \in BOOLEAN /\ pc = "body"
    BY <1>1
  <2>4. PcInv
    BY <2>3 DEF PcInv
  <2> QED  BY <2>2, <2>4
<1>8. LevelInv
  BY <1>1, LevZero DEF LevelInv
<1>9. AtInv /\ OldInv
  BY <1>1 DEF AtInv, OldInv
<1> QED  BY <1>6, <1>7, <1>8, <1>9 DEF IInv

\* The last table and the last call.
LEMMA TopFacts ==
    ASSUME IInv
    PROVE  /\ Len(tables) \in Nat /\ Len(tables) >= 1 /\ Len(tables) \in DOMAIN tables
           /\ DOMAIN tables = 1 .. Len(tables) /\ Good(Table)
           /\ Len(calls) \in Nat /\ DOMAIN calls = 1 .. Len(calls)
           /\ calls # <<>> => /\ Len(calls) >= 1 /\ Len(calls) \in DOMAIN calls
                              /\ Top = calls[Len(calls)] /\ Top \in Call_
                              /\ Lev(calls, Len(calls)) = Len(tables)
<1>1. Len(tables) \in Nat /\ Len(tables) >= 1 /\ DOMAIN tables = 1 .. Len(tables)
  BY DEF IInv, TablesInv
<1>2. Good(Table)
  BY <1>1 DEF IInv, TablesInv, Table
<1>3. Len(calls) \in Nat /\ DOMAIN calls = 1 .. Len(calls) /\ calls \in Seq(Call_)
  BY DEF IInv, CallInv
<1>4. calls # <<>> => Len(calls) >= 1 /\ Top = calls[Len(calls)] /\ Top \in Call_
  BY <1>3 DEF Top
<1>5. Lev(calls, Len(calls)) = Len(tables)
  BY DEF IInv, LevelInv
<1> QED  BY <1>1, <1>2, <1>3, <1>4, <1>5

\* What a step leaves when it sets or appends one variable of one table.
LEMMA TableChanged ==
    ASSUME IInv, NEW n \in DOMAIN tables, NEW u, Good(u), Extends(tables[n], u),
           tables' = [tables EXCEPT ![n] = u]
    PROVE  /\ TablesInv' /\ Len(tables') = Len(tables)
           /\ \A m \in 1 .. Len(tables) : Extends(tables[m], tables'[m])
           /\ \A m \in 1 .. Len(tables) : m # n => tables'[m] = tables[m]
           /\ tables'[n] = u
<1>1. tables \in Seq(Seq(Variable)) /\ u \in Seq(Variable) /\ tables # <<>>
  BY DEF IInv, TablesInv, Good
<1>2. /\ tables' \in Seq(Seq(Variable)) /\ Len(tables') = Len(tables)
      /\ DOMAIN tables' = DOMAIN tables /\ DOMAIN tables = 1 .. Len(tables)
      /\ tables'[n] = u /\ \A m \in 1 .. Len(tables) : m # n => tables'[m] = tables[m]
  BY <1>1
<1>3. tables' # <<>>
  BY <1>1, <1>2
<1>4. \A m \in DOMAIN tables' : Good(tables'[m])
  BY <1>2 DEF IInv, TablesInv
<1>5. TablesInv'
  BY <1>2, <1>3, <1>4 DEF TablesInv, Good
<1>6. ASSUME NEW m \in 1 .. Len(tables) PROVE Extends(tables[m], tables'[m])
  <2>1. CASE m = n
    BY <1>2, <2>1
  <2>2. CASE m # n
    BY <1>2, <2>2, ExtendsSelf
  <2> QED  BY <2>1, <2>2
<1> QED  BY <1>2, <1>5, <1>6

\* Levels and names stay while the calls stay.
LEMMA CallsStay ==
    ASSUME IInv, calls' = calls, Len(tables') = Len(tables),
           \A m \in 1 .. Len(tables) : Extends(tables[m], tables'[m])
    PROVE  LevelInv' /\ AtInv'
<1>1. LevelInv'
  BY DEF IInv, LevelInv
<1>2. ASSUME NEW k \in DOMAIN calls
      PROVE  Noted(tables'[Lev(calls, k)], calls[k])
  <2>1. Lev(calls, k) \in 1 .. Len(tables)
    BY Levels
  <2>2. Noted(tables[Lev(calls, k)], calls[k])
    BY DEF IInv, AtInv
  <2> QED  BY <2>1, <2>2, NotedKept
<1> QED  BY <1>1, <1>2 DEF AtInv

LEMMA ExitStep == ASSUME IInv, Exit PROVE IInv'
<1>1. tables' = tables /\ calls' = calls /\ back' = back /\ forced' = forced /\ pc' = "exit"
  BY DEF Exit
<1>2. TablesInv' /\ LevelInv'
  BY <1>1 DEF IInv, TablesInv, LevelInv
<1>3. AtInv'
  BY <1>1 DEF IInv, AtInv
<1>4. CallInv'
  BY <1>1 DEF IInv, CallInv
<1>5. PcInv'
  <2>1. back \in Nat /\ forced \in BOOLEAN
    BY DEF IInv, PcInv
  <2> QED  BY <1>1, <2>1 DEF PcInv
<1>6. ASSUME NEW k \in DOMAIN calls, ~calls[k].keep
      PROVE  Frozen(tables[Lev(calls, k) - 1], calls[k], k = Len(calls))
  BY <1>6 DEF IInv, OldInv, Frozen
<1>7. OldInv'
  BY <1>1, <1>6 DEF OldInv
<1> QED  BY <1>2, <1>3, <1>4, <1>5, <1>7 DEF IInv

\* A table below a copy is not written by its calls, so it stays as it was found
\* (pc stays as it is).
LEMMA FrozenStays ==
    ASSUME IInv, calls' = calls, pc' = pc \/ (pc = "bind" /\ pc' = "body"),
           \A m \in 1 .. Len(tables) : m # Len(tables) => tables'[m] = tables[m]
    PROVE  OldInv'
<1>1. ASSUME NEW k \in DOMAIN calls, ~calls[k].keep
      PROVE  tables'[Lev(calls, k) - 1] = tables[Lev(calls, k) - 1]
  <2>1. Lev(calls, k) - 1 \in 1 .. Len(tables) - 1 /\ Len(tables) \in Nat
    BY <1>1, Levels, TopFacts
  <2> QED  BY <2>1
<1> QED  BY <1>1 DEF IInv, OldInv

LEMMA WriteStep ==
    ASSUME IInv, NEW i \in Index, NEW v \in Texts, Write(i, v)
    PROVE  IInv'
<1>1. CASE Exit
  BY <1>1, ExitStep
<1>2. CASE ~Exit
  <2> DEFINE x == [Table[i] EXCEPT !.val = v]
             u == [Table EXCEPT ![i] = x]
  <2>1. /\ pc = "body" /\ pc' = pc /\ calls' = calls /\ back' = back
        /\ tables' = [tables EXCEPT ![Len(tables)] = u]
    BY <1>2 DEF Write, Table
  <2>2. forced' \in BOOLEAN
    BY <1>2 DEF Write
  <2>3. Good(Table) /\ Len(tables) \in DOMAIN tables /\ Len(tables) \in Nat
    BY TopFacts
  <2>4. i \in DOMAIN Table
    BY <2>3, ParsedNames DEF Good
  <2>5. Table[i] \in Variable
    BY <2>3, <2>4 DEF Good
  <2>6. x \in Variable /\ x.name = Table[i].name
    BY <2>5, TextAssumption DEF Variable
  <2> HIDE DEF x
  <2>7. Good(u) /\ Extends(Table, u)
    BY <2>3, <2>4, <2>6, GoodSet
  <2> HIDE DEF u
  <2>8. /\ TablesInv' /\ Len(tables') = Len(tables)
        /\ \A m \in 1 .. Len(tables) : Extends(tables[m], tables'[m])
        /\ \A m \in 1 .. Len(tables) : m # Len(tables) => tables'[m] = tables[m]
    BY <2>1, <2>3, <2>7, TableChanged DEF Table
  <2>9. LevelInv' /\ AtInv'
    BY <2>1, <2>8, CallsStay
  <2>10. OldInv'
    BY <2>1, <2>8, FrozenStays
  <2>11. CallInv'
    BY <2>1 DEF IInv, CallInv
  <2>12. PcInv'
    <3>1. back \in Nat
      BY DEF IInv, PcInv
    <3> QED  BY <2>1, <2>2, <3>1 DEF PcInv
  <2> QED  BY <2>8, <2>9, <2>10, <2>11, <2>12 DEF IInv
<1> QED  BY <1>1, <1>2

LEMMA ReturnStep == ASSUME IInv, Return PROVE IInv'
<1>1. /\ tables' = tables /\ calls' = calls /\ forced' = forced /\ back' = 0
      /\ pc = "body" /\ pc' = "back" /\ calls # <<>>
  BY DEF Return
<1>2. TablesInv' /\ LevelInv'
  BY <1>1 DEF IInv, TablesInv, LevelInv
<1>3. AtInv'
  BY <1>1 DEF IInv, AtInv
<1>4. CallInv'
  BY <1>1 DEF IInv, CallInv
<1>5. PcInv'
  <2>1. forced \in BOOLEAN
    BY DEF IInv, PcInv
  <2>2. Len(Top.args) \in Nat
    BY <1>1, TopFacts DEF Call_
  <2>3. Top' = Top
    BY <1>1 DEF Top
  <2> QED  BY <1>1, <2>1, <2>2, <2>3 DEF PcInv
<1>6. ASSUME NEW k \in DOMAIN calls, ~calls[k].keep
      PROVE  Frozen(tables[Lev(calls, k) - 1], calls[k], k = Len(calls))
  BY <1>1, <1>6 DEF IInv, OldInv, Frozen
<1>7. OldInv'
  BY <1>1, <1>6 DEF OldInv
<1> QED  BY <1>2, <1>3, <1>4, <1>5, <1>7 DEF IInv

LEMMA CallStep ==
    ASSUME IInv, NEW f \in Func, NEW keep \in BOOLEAN, NEW args \in Lists(f), Call(f, keep, args)
    PROVE  IInv'
<1> DEFINE c == [f |-> f, keep |-> keep, args |-> args, at |-> <<>>,
                 old |-> IF keep THEN <<>> ELSE Table]
<1>1. /\ tables' = (IF keep THEN tables ELSE Append(tables, Copied(Table)))
      /\ calls' = Append(calls, c)
      /\ pc = "body" /\ pc' = (IF args = <<>> THEN "body" ELSE "bind")
      /\ back' = back /\ forced' = forced
  BY DEF Call
<1>2. args \in Seq(Index) /\ Len(args) \in Nat /\ Len(args) <= MaxArgs[f]
  <2>1. PICK k \in 0 .. MaxArgs[f] : args \in [1 .. k -> Index]
    BY DEF Lists
  <2>2. MaxArgs[f] \in Nat
    BY BoundAssumption
  <2> QED  BY <2>1, <2>2
<1>3. /\ c.f = f /\ c.keep = keep /\ c.args = args /\ c.at = <<>>
      /\ c.old = (IF keep THEN <<>> ELSE Table)
  OBVIOUS
<1>4. c \in Call_
  <2>1. (IF keep THEN <<>> ELSE Table) \in Seq(Variable)
    BY TopFacts DEF Good
  <2>2. <<>> \in Seq(1 .. MAX_VARS)
    OBVIOUS
  <2> QED  BY <1>2, <2>1, <2>2 DEF Call_
<1> HIDE DEF c
<1>5. /\ calls' \in Seq(Call_) /\ Len(calls') = Len(calls) + 1 /\ calls'[Len(calls) + 1] = c
      /\ DOMAIN calls' = DOMAIN calls \cup {Len(calls) + 1}
      /\ \A k \in 1 .. Len(calls) : calls'[k] = calls[k]
      /\ calls' # <<>> /\ Len(calls) \in Nat /\ DOMAIN calls = 1 .. Len(calls)
  <2>1. calls \in Seq(Call_)
    BY DEF IInv, CallInv
  <2> QED  BY <1>1, <1>4, <2>1
<1>6. \A k \in 1 .. Len(calls) : Lev(calls', k) = Lev(calls, k) /\ Lev(calls, k) \in 1 .. Len(tables)
  <2> TAKE k \in 1 .. Len(calls)
  <2>1. \A j \in 1 .. k : calls'[j].keep = calls[j].keep
    BY <1>5
  <2>2. k \in Nat /\ k \in DOMAIN calls
    BY <1>5
  <2>3. Lev(calls', k) = Lev(calls, k)
    BY <2>1, <2>2, LevSame
  <2> QED  BY <2>2, <2>3, Levels
<1>7. Lev(calls', Len(calls)) = Len(tables)
  <2>1. \A j \in 1 .. Len(calls) : calls'[j].keep = calls[j].keep
    BY <1>5
  <2>2. Lev(calls', Len(calls)) = Lev(calls, Len(calls))
    BY <1>5, <2>1, LevSame
  <2> QED  BY <2>2 DEF IInv, LevelInv
<1>8. Lev(calls', Len(calls) + 1) = (IF keep THEN Len(tables) ELSE Len(tables) + 1)
  <2>1. CASE keep
    BY <1>3, <1>5, <1>7, <2>1, LevStep
  <2>2. CASE ~keep
    BY <1>3, <1>5, <1>7, <2>2, LevStep
  <2> QED  BY <2>1, <2>2
<1>9. /\ TablesInv' /\ Len(tables') = (IF keep THEN Len(tables) ELSE Len(tables) + 1)
      /\ \A m \in 1 .. Len(tables) : tables'[m] = tables[m]
  <2>1. Good(Copied(Table))
    BY TopFacts, GoodCopied
  <2>2. /\ tables \in Seq(Seq(Variable)) /\ tables # <<>>
        /\ \A n \in DOMAIN tables : Good(tables[n])
    BY DEF IInv, TablesInv
  <2>3. CASE keep
    BY <1>1, <2>2, <2>3 DEF TablesInv
  <2>4. CASE ~keep
    <3>1. tables' = Append(tables, Copied(Table)) /\ Copied(Table) \in Seq(Variable)
      BY <1>1, <2>1, <2>4 DEF Good
    <3>2. /\ tables' \in Seq(Seq(Variable)) /\ tables' # <<>> /\ Len(tables') = Len(tables) + 1
          /\ DOMAIN tables' = DOMAIN tables \cup {Len(tables) + 1}
          /\ tables'[Len(tables) + 1] = Copied(Table)
          /\ DOMAIN tables = 1 .. Len(tables)
          /\ \A m \in 1 .. Len(tables) : tables'[m] = tables[m]
      BY <2>2, <3>1
    <3>3. \A n \in DOMAIN tables' : Good(tables'[n])
      BY <2>1, <2>2, <3>2
    <3> QED  BY <2>4, <3>2, <3>3 DEF TablesInv
  <2> QED  BY <2>3, <2>4
<1>10. LevelInv'
  BY <1>5, <1>8, <1>9 DEF LevelInv
<1>11. AtInv'
  <2>1. ASSUME NEW k \in 1 .. Len(calls)
        PROVE  Noted(tables'[Lev(calls', k)], calls'[k])
    <3>1. Noted(tables[Lev(calls, k)], calls[k])
      BY <1>5 DEF IInv, AtInv
    <3> QED  BY <1>5, <1>6, <1>9, <3>1
  <2>2. Noted(tables'[Lev(calls', Len(calls) + 1)], c)
    BY <1>3 DEF Noted
  <2> QED  BY <1>5, <2>1, <2>2 DEF AtInv
<1>12. OldInv'
  <2>1. ASSUME NEW k \in 1 .. Len(calls), ~calls'[k].keep
        PROVE  Frozen(tables'[Lev(calls', k) - 1], calls'[k], k = Len(calls') /\ pc' \in {"back", "exit"})
    <3>1. ~calls[k].keep /\ k \in DOMAIN calls /\ calls'[k] = calls[k]
      BY <1>5, <2>1
    <3>2. Lev(calls, k) - 1 \in 1 .. Len(tables) - 1 /\ Len(tables) \in Nat
      BY <3>1, Levels, TopFacts
    <3>3. tables'[Lev(calls', k) - 1] = tables[Lev(calls, k) - 1]
      BY <1>6, <1>9, <3>2
    <3>4. Frozen(tables[Lev(calls, k) - 1], calls[k], FALSE)
      BY <1>1, <3>1 DEF IInv, OldInv, Frozen
    <3> QED  BY <3>1, <3>3, <3>4 DEF Frozen
  <2>2. ASSUME ~keep
        PROVE  Frozen(tables'[Lev(calls', Len(calls) + 1) - 1], c, FALSE)
    <3>1. Lev(calls', Len(calls) + 1) - 1 = Len(tables) /\ Len(tables) \in 1 .. Len(tables)
      BY <1>8, <2>2, TopFacts
    <3>2. tables'[Len(tables)] = Table
      BY <1>9, <3>1 DEF Table
    <3> QED  BY <1>3, <2>2, <3>1, <3>2 DEF Frozen
  <2>3. ASSUME NEW k \in DOMAIN calls', ~calls'[k].keep
        PROVE  Frozen(tables'[Lev(calls', k) - 1], calls'[k], k = Len(calls') /\ pc' \in {"back", "exit"})
    <3>1. CASE k \in 1 .. Len(calls)
      BY <2>1, <2>3, <3>1
    <3>2. CASE k = Len(calls) + 1
      <4>1. Frozen(tables'[Lev(calls', k) - 1], calls'[k], FALSE)
        BY <1>3, <1>5, <2>2, <2>3, <3>2
      <4> QED  BY <4>1 DEF Frozen
    <3> QED  BY <1>5, <3>1, <3>2
  <2> QED  BY <2>3 DEF OldInv
<1>13. CallInv'
  <2>1. ASSUME NEW k \in 1 .. Len(calls)
        PROVE  /\ Len(calls'[k].args) <= MaxArgs[calls'[k].f]
               /\ Len(calls'[k].at) <= Len(calls'[k].args)
               /\ Len(calls'[k].at) = Len(calls'[k].args)
    BY <1>1, <1>5 DEF IInv, CallInv
  <2>2. /\ Len(c.args) <= MaxArgs[c.f] /\ Len(c.at) <= Len(c.args)
        /\ pc' \in {"body", "back"} => Len(c.at) = Len(c.args)
    BY <1>1, <1>2, <1>3
  <2> QED  BY <1>5, <2>1, <2>2 DEF CallInv
<1>14. PcInv'
  <2>1. back \in Nat /\ forced \in BOOLEAN
    BY DEF IInv, PcInv
  <2>2. Top' = c
    BY <1>5 DEF Top
  <2>3. pc' = "bind" => Len(c.at) < Len(c.args)
    BY <1>1, <1>2, <1>3
  <2>4. pc' \in {"body", "bind"}
    BY <1>1
  <2> QED  BY <1>1, <1>5, <2>1, <2>2, <2>3, <2>4 DEF PcInv
<1> QED  BY <1>9, <1>10, <1>11, <1>12, <1>13, <1>14 DEF IInv

\* A name is found where it is, and nowhere else.
LEMMA SlotFound ==
    ASSUME NEW t, Good(t), NEW x
    PROVE  /\ Slot(t, x) \in DOMAIN t => t[Slot(t, x)].name = x
           /\ Slot(t, x) \notin DOMAIN t => /\ Slot(t, x) = Len(t) + 1
                                          /\ \A i \in DOMAIN t : t[i].name # x
<1>1. DOMAIN t = 1 .. Len(t) /\ Len(t) \in Nat
  BY DEF Good
<1>2. CASE \E i \in DOMAIN t : t[i].name = x
  BY <1>2 DEF Slot
<1>3. CASE ~\E i \in DOMAIN t : t[i].name = x
  BY <1>1, <1>3 DEF Slot
<1> QED  BY <1>2, <1>3

LEMMA PassedValue == ASSUME NEW v \in Value PROVE Passed(v) \in Value
  BY DEF Passed, Value

LEMMA BindStep == ASSUME IInv, Bind PROVE IInv'
<1> DEFINE n == Len(Top.at) + 1
           v == Passed(Table[Top.args[n]].val)
           x == Formal(Top.f, n)
           i == Slot(Table, x)
           u == IF i \in DOMAIN Table THEN [Table EXCEPT ![i].val = v]
                ELSE Append(Table, [name |-> x, val |-> v, constant |-> FALSE])
           L == Len(calls)
<1>1. CASE i > MAX_VARS
  <2>1. Exit
    BY <1>1 DEF Bind
  <2> QED  BY <2>1, ExitStep
<1>2. CASE ~(i > MAX_VARS)
  <2>1. /\ tables' = [tables EXCEPT ![Len(tables)] = u]
        /\ calls' = [calls EXCEPT ![L].at = Append(@, i)]
        /\ pc' = (IF n = Len(Top.args) THEN "body" ELSE "bind")
        /\ pc = "bind" /\ back' = back /\ forced' = forced
    BY <1>2 DEF Bind
  <2>2. /\ calls # <<>> /\ L \in Nat /\ L >= 1 /\ L \in DOMAIN calls /\ DOMAIN calls = 1 .. L
        /\ Top = calls[L] /\ Top \in Call_ /\ Lev(calls, L) = Len(tables)
        /\ Good(Table) /\ Len(tables) \in DOMAIN tables /\ Len(tables) \in Nat
    BY <2>1, TopFacts DEF IInv, PcInv
  <2>3. /\ Top.at \in Seq(1 .. MAX_VARS) /\ Top.args \in Seq(Index) /\ Top.f \in Func
        /\ Len(Top.at) \in Nat /\ Len(Top.args) \in Nat
    BY <2>2 DEF Call_
  <2>4. Len(Top.at) < Len(Top.args) /\ Len(Top.args) <= MaxArgs[Top.f]
    BY <2>1, <2>2 DEF IInv, PcInv, CallInv
  <2>5. n \in 1 .. Len(Top.args) /\ MaxArgs[Top.f] \in Nat /\ n \in 1 .. MaxArgs[Top.f]
    BY <2>3, <2>4, BoundAssumption
  <2>6. x \in Name
    BY <2>3, <2>5, FormalNames
  <2>7. Top.args[n] \in DOMAIN Table
    <3>1. Top.args[n] \in Index
      BY <2>3, <2>5
    <3> QED  BY <2>2, <3>1, ParsedNames DEF Good
  <2>8. v \in Value
    <3>1. Table[Top.args[n]] \in Variable
      BY <2>2, <2>7 DEF Good
    <3>2. Table[Top.args[n]].val \in Value
      BY <3>1 DEF Variable
    <3> QED  BY <3>2, PassedValue
  <2>9. Good(u) /\ Extends(Table, u) /\ i \in DOMAIN u /\ u[i].name = x /\ i \in 1 .. MAX_VARS
    <3>1. /\ Len(Table) \in Nat /\ DOMAIN Table = 1 .. Len(Table) /\ Len(Table) <= MAX_VARS
          /\ MAX_VARS \in Nat /\ Table \in Seq(Variable)
      BY <2>2, BoundAssumption DEF Good
    <3> HIDE DEF v, x, i
    <3>2. CASE i \in DOMAIN Table
      <4> DEFINE y == [Table[i] EXCEPT !.val = v]
      <4>1. u = [Table EXCEPT ![i] = y]
        BY <3>2
      <4>2. Table[i] \in Variable
        BY <3>1, <3>2
      <4>3. y \in Variable /\ y.name = Table[i].name
        BY <4>2, <2>8 DEF Variable
      <4>4. Table[i].name = x
        BY <2>2, <3>2, SlotFound DEF i
      <4> HIDE DEF y
      <4>5. Good([Table EXCEPT ![i] = y]) /\ Extends(Table, [Table EXCEPT ![i] = y])
        BY <2>2, <3>2, <4>3, GoodSet
      <4>6. i \in DOMAIN [Table EXCEPT ![i] = y] /\ [Table EXCEPT ![i] = y][i] = y
        BY <3>2
      <4> QED  BY <3>1, <3>2, <4>1, <4>3, <4>4, <4>5, <4>6
    <3>3. CASE i \notin DOMAIN Table
      <4> DEFINE y == [name |-> x, val |-> v, constant |-> FALSE]
      <4>1. i = Len(Table) + 1 /\ \A j \in DOMAIN Table : Table[j].name # x
        BY <2>2, <3>3, SlotFound DEF i
      <4>2. y \in Variable /\ y.name = x
        BY <2>6, <2>8 DEF Variable
      <4>3. u = Append(Table, y)
        BY <3>3
      <4>4. Len(Table) < MAX_VARS
        BY <1>2, <3>1, <4>1
      <4> HIDE DEF y
      <4>5. Good(Append(Table, y)) /\ Extends(Table, Append(Table, y))
        BY <2>2, <4>1, <4>2, <4>4, GoodAppended
      <4>6. i \in DOMAIN Append(Table, y) /\ Append(Table, y)[i] = y
        BY <3>1, <4>1
      <4> HIDE DEF u
      <4> QED  BY <3>1, <4>1, <4>2, <4>3, <4>4, <4>5, <4>6
    <3> QED  BY <3>2, <3>3
  <2>10. \A m \in 1 .. L : calls'[m].keep = calls[m].keep /\ calls'[m].f = calls[m].f
                          /\ calls'[m].args = calls[m].args /\ calls'[m].old = calls[m].old
    BY <2>1, <2>2
  <2>11. \A m \in 1 .. L : m # L => calls'[m] = calls[m]
    BY <2>1, <2>2
  <2>12. calls'[L].at = Append(Top.at, i)
    BY <2>1, <2>2
  <2> HIDE DEF u, i, v, x
  <2>13. /\ Len(calls'[L].at) = n /\ calls'[L].at \in Seq(1 .. MAX_VARS)
         /\ \A j \in 1 .. Len(Top.at) : calls'[L].at[j] = Top.at[j]
         /\ calls'[L].at[n] = i
    BY <2>3, <2>9, <2>12
  <2>14. calls' \in Seq(Call_) /\ Len(calls') = L /\ DOMAIN calls' = 1 .. L
    <3>1. [Top EXCEPT !.at = Append(@, i)] \in Call_
      <4>1. Append(Top.at, i) \in Seq(1 .. MAX_VARS)
        BY <2>3, <2>9
      <4> QED  BY <2>2, <4>1 DEF Call_
    <3>2. calls \in Seq(Call_)
      BY DEF IInv, CallInv
    <3>3. calls' = [calls EXCEPT ![L] = [Top EXCEPT !.at = Append(@, i)]]
      BY <2>1, <2>2
    <3> QED  BY <2>2, <3>1, <3>2, <3>3
  <2> HIDE DEF n
  <2>15. /\ TablesInv' /\ Len(tables') = Len(tables)
         /\ \A m \in 1 .. Len(tables) : Extends(tables[m], tables'[m])
         /\ \A m \in 1 .. Len(tables) : m # Len(tables) => tables'[m] = tables[m]
         /\ tables'[Len(tables)] = u
    BY <2>1, <2>2, <2>9, TableChanged DEF Table
  <2>16. \A k \in 1 .. L : Lev(calls', k) = Lev(calls, k) /\ Lev(calls, k) \in 1 .. Len(tables)
    <3> TAKE k \in 1 .. L
    <3>1. \A j \in 1 .. k : calls'[j].keep = calls[j].keep
      BY <2>2, <2>10
    <3>2. k \in Nat /\ k \in DOMAIN calls
      BY <2>2
    <3>3. Lev(calls', k) = Lev(calls, k)
      BY <3>1, <3>2, LevSame
    <3> QED  BY <3>2, <3>3, Levels
  <2>17. LevelInv'
    BY <2>2, <2>14, <2>15, <2>16 DEF LevelInv
  <2>18. AtInv'
    <3>1. ASSUME NEW k \in 1 .. L, k # L
          PROVE  Noted(tables'[Lev(calls', k)], calls'[k])
      <4>1. Noted(tables[Lev(calls, k)], calls[k])
        BY <2>2 DEF IInv, AtInv
      <4> QED  BY <2>11, <2>15, <2>16, <3>1, <4>1, NotedKept
    <3>2. Noted(u, calls'[L])
      <4>1. Noted(Table, Top)
        BY <2>2 DEF IInv, AtInv, Table
      <4>2. ASSUME NEW j \in DOMAIN Top.at
            PROVE  Top.at[j] \in DOMAIN u /\ u[Top.at[j]].name = Formal(Top.f, j)
        BY <2>9, <4>1 DEF Noted, Extends
      <4>3. u[i].name = Formal(Top.f, n) /\ i \in DOMAIN u
        BY <2>9 DEF x
      <4>4. DOMAIN calls'[L].at = 1 .. n /\ DOMAIN Top.at = 1 .. Len(Top.at) /\ n = Len(Top.at) + 1
        BY <2>3, <2>13 DEF n
      <4>5. calls'[L].f = Top.f
        BY <2>2, <2>10
      <4>6. ASSUME NEW j \in 1 .. n
            PROVE  calls'[L].at[j] \in DOMAIN u /\ u[calls'[L].at[j]].name = Formal(Top.f, j)
        <5>1. CASE j = n
          <6>1. calls'[L].at[j] = i
            BY <2>13, <5>1
          <6>2. u[i].name = Formal(Top.f, j)
            BY <4>3, <5>1
          <6> QED  BY <4>3, <6>1, <6>2
        <5>2. CASE j \in 1 .. Len(Top.at)
          BY <2>13, <4>2, <4>4, <5>2
        <5> QED  BY <2>3, <4>4, <5>1, <5>2
      <4> QED  BY <4>4, <4>5, <4>6 DEF Noted
    <3>3. Noted(tables'[Lev(calls', L)], calls'[L])
      BY <2>2, <2>15, <2>16, <3>2
    <3> QED  BY <2>14, <3>1, <3>3 DEF AtInv
  <2>19. OldInv'
    <3>1. ASSUME NEW k \in 1 .. L, ~calls'[k].keep
          PROVE  Frozen(tables'[Lev(calls', k) - 1], calls'[k], FALSE)
      <4>1. ~calls[k].keep /\ k \in DOMAIN calls
        BY <2>2, <2>10, <3>1
      <4>2. Lev(calls, k) - 1 \in 1 .. Len(tables) - 1
        BY <4>1, Levels
      <4>3. tables'[Lev(calls', k) - 1] = tables[Lev(calls, k) - 1]
        <5>1. Len(tables) \in Nat
          BY <2>2
        <5>2. /\ Lev(calls, k) - 1 \in 1 .. Len(tables)
              /\ Lev(calls, k) - 1 # Len(tables)
          BY <4>2, <5>1
        <5>3. Lev(calls', k) = Lev(calls, k)
          BY <2>16
        <5>4. tables'[Lev(calls, k) - 1] = tables[Lev(calls, k) - 1]
          BY <2>15, <5>2
        <5> QED  BY <5>3, <5>4
      <4>4. Frozen(tables[Lev(calls, k) - 1], calls[k], FALSE)
        BY <2>1, <4>1 DEF IInv, OldInv, Frozen
      <4> QED  BY <2>10, <4>3, <4>4 DEF Frozen
    <3>2. pc' \notin {"back", "exit"}
      BY <2>1
    <3> QED  BY <2>14, <3>1, <3>2 DEF OldInv, Frozen
  <2>20. CallInv'
    <3>1. ASSUME NEW k \in 1 .. L, k # L
          PROVE  /\ Len(calls'[k].args) <= MaxArgs[calls'[k].f]
                 /\ Len(calls'[k].at) <= Len(calls'[k].args)
                 /\ Len(calls'[k].at) = Len(calls'[k].args)
      <4>1. k \in DOMAIN calls /\ k < Len(calls) /\ calls'[k] = calls[k]
        <5>1. calls'[k] = calls[k]
          BY <2>11, <3>1
        <5>2. k < L
          <6>1. L \in Nat
            BY <2>2
          <6> QED  BY <3>1, <6>1
        <5> QED  BY <2>2, <5>1, <5>2
      <4>2. /\ Len(calls[k].args) <= MaxArgs[calls[k].f]
            /\ Len(calls[k].at) <= Len(calls[k].args)
            /\ Len(calls[k].at) = Len(calls[k].args)
        BY <4>1 DEF IInv, CallInv
      <4> QED  BY <4>1, <4>2
    <3>2. /\ Len(calls'[L].args) <= MaxArgs[calls'[L].f]
          /\ Len(calls'[L].at) <= Len(calls'[L].args)
          /\ pc' \in {"body", "back"} => Len(calls'[L].at) = Len(calls'[L].args)
      BY <2>1, <2>2, <2>4, <2>5, <2>10, <2>13
    <3>3. ASSUME NEW k \in DOMAIN calls'
          PROVE  /\ Len(calls'[k].args) <= MaxArgs[calls'[k].f]
                 /\ Len(calls'[k].at) <= Len(calls'[k].args)
                 /\ k < Len(calls') \/ pc' \in {"body", "back"} => Len(calls'[k].at) = Len(calls'[k].args)
      <4>1. k \in 1 .. L /\ Len(calls') = L
        BY <2>14
      <4>2. CASE k # L
        BY <3>1, <4>1, <4>2
      <4>3. CASE k = L
        <5>1. ~(k < Len(calls'))
          BY <2>2, <4>1, <4>3
        <5> QED  BY <3>2, <4>3, <5>1
      <4> QED  BY <4>2, <4>3
    <3> QED  BY <2>14, <3>3 DEF CallInv
  <2>21. PcInv'
    <3>1. back \in Nat /\ forced \in BOOLEAN
      BY DEF IInv, PcInv
    <3>2. Top' = calls'[L] /\ calls' # <<>>
      BY <2>2, <2>14 DEF Top
    <3>3. pc' = "bind" => Len(calls'[L].at) < Len(calls'[L].args)
      BY <2>1, <2>2, <2>3, <2>5, <2>10, <2>13
    <3>4. pc' \in {"body", "bind"}
      BY <2>1
    <3> QED  BY <2>1, <3>1, <3>2, <3>3, <3>4 DEF PcInv
  <2> QED  BY <2>15, <2>17, <2>18, <2>19, <2>20, <2>21 DEF IInv
<1> QED  BY <1>1, <1>2

LEMMA HandBackStep == ASSUME IInv, HandBack PROVE IInv'
<1> DEFINE n == Top.args[back + 1]
           v == Table[Top.at[back + 1]].val
           t == tables[Caller]
           x == [t[n] EXCEPT !.val = v, !.constant = FALSE]
           u == [t EXCEPT ![n] = x]
           L == Len(calls)
<1>1. /\ tables' = [tables EXCEPT ![Caller] = u]
      /\ calls' = calls /\ pc' = pc /\ pc = "back" /\ back' = back + 1 /\ forced' = forced
      /\ back < Len(Top.args)
  BY DEF HandBack
<1>2. /\ calls # <<>> /\ L \in Nat /\ L >= 1 /\ L \in DOMAIN calls /\ DOMAIN calls = 1 .. L
      /\ Top = calls[L] /\ Top \in Call_ /\ Lev(calls, L) = Len(tables)
      /\ Good(Table) /\ Len(tables) \in DOMAIN tables /\ Len(tables) \in Nat
      /\ DOMAIN tables = 1 .. Len(tables)
  BY <1>1, TopFacts DEF IInv, PcInv
<1>3. /\ Top.at \in Seq(1 .. MAX_VARS) /\ Top.args \in Seq(Index) /\ Len(Top.at) = Len(Top.args)
      /\ DOMAIN Top.at = 1 .. Len(Top.at) /\ DOMAIN Top.args = 1 .. Len(Top.args)
      /\ Len(Top.args) \in Nat /\ back \in Nat /\ back + 1 \in 1 .. Len(Top.args)
  <2>1. Top.at \in Seq(1 .. MAX_VARS) /\ Top.args \in Seq(Index)
    BY <1>2 DEF Call_
  <2>2. Len(Top.at) = Len(Top.args)
    BY <1>1, <1>2 DEF IInv, CallInv
  <2>3. back \in Nat
    BY DEF IInv, PcInv
  <2> QED  BY <1>1, <2>1, <2>2, <2>3
<1>4. Caller \in DOMAIN tables /\ Caller \in Nat /\ (Top.keep => Caller = Len(tables))
      /\ (~Top.keep => Caller = Len(tables) - 1)
  <2>1. CASE Top.keep
    BY <1>2, <2>1 DEF Caller
  <2>2. CASE ~Top.keep
    <3>1. Lev(calls, L) - 1 \in 1 .. Len(tables) - 1
      BY <1>2, <2>2, Levels
    <3> QED  BY <1>2, <2>2, <3>1 DEF Caller
  <2> QED  BY <2>1, <2>2
<1>5. Good(t)
  BY <1>4 DEF IInv, TablesInv
<1>6. n \in DOMAIN t /\ n \in Range(Top.args)
  <2>1. n \in Index /\ n \in Range(Top.args)
    BY <1>3 DEF Range
  <2> QED  BY <1>5, <2>1, ParsedNames DEF Good
<1>7. v \in Value
  <2>1. Noted(Table, Top)
    BY <1>2 DEF IInv, AtInv, Table
  <2>2. Top.at[back + 1] \in DOMAIN Table
    BY <1>3, <2>1 DEF Noted
  <2>3. Table[Top.at[back + 1]] \in Variable
    BY <1>2, <2>2 DEF Good
  <2> QED  BY <2>3 DEF Variable
<1>8. x \in Variable /\ x.name = t[n].name
  <2>1. t[n] \in Variable
    BY <1>5, <1>6 DEF Good
  <2> HIDE DEF v, n, t
  <2> QED  BY <1>7, <2>1 DEF Variable
<1> HIDE DEF x, n, v
<1>9. Good(u) /\ Extends(t, u)
  BY <1>5, <1>6, <1>8, GoodSet
<1>10. Len(u) = Len(t) /\ DOMAIN u = DOMAIN t /\ \A i \in DOMAIN t : i # n => u[i] = t[i]
  BY <1>5 DEF Good
<1> HIDE DEF u
<1>11. /\ TablesInv' /\ Len(tables') = Len(tables)
       /\ \A m \in 1 .. Len(tables) : Extends(tables[m], tables'[m])
       /\ \A m \in 1 .. Len(tables) : m # Caller => tables'[m] = tables[m]
       /\ tables'[Caller] = u
  BY <1>1, <1>4, <1>9, TableChanged
<1>12. LevelInv' /\ AtInv'
  BY <1>1, <1>11, CallsStay
<1>13. CallInv'
  BY <1>1 DEF IInv, CallInv
<1>14. PcInv'
  <2>1. forced \in BOOLEAN
    BY DEF IInv, PcInv
  <2>2. Top' = Top
    BY <1>1 DEF Top
  <2>3. back + 1 \in Nat /\ back + 1 <= Len(Top.args)
    BY <1>3
  <2> QED  BY <1>1, <1>2, <2>1, <2>2, <2>3 DEF PcInv
<1>15. OldInv'
  <2>1. ASSUME NEW k \in DOMAIN calls, ~calls[k].keep
        PROVE  Frozen(tables'[Lev(calls, k) - 1], calls[k], k = L)
    <3>1. /\ Lev(calls, k) - 1 \in 1 .. Len(tables) - 1
          /\ Frozen(tables[Lev(calls, k) - 1], calls[k], k = L)
      BY <1>1, <2>1, Levels DEF IInv, OldInv, Frozen
    <3>2. CASE k # L
      <4>1. Lev(calls, k) - 1 # Caller
        <5>1. k \in Nat /\ k <= L - 1 /\ L - 1 \in Nat /\ (L - 1) + 1 = L
          BY <1>2, <3>2
        <5>2. Lev(calls, k) <= Lev(calls, L - 1) /\ Lev(calls, k) \in Nat /\ Lev(calls, L - 1) \in Nat
          BY <5>1, LevMonotone, LevNat
        <5>3. CASE Top.keep
          BY <1>2, <1>4, <3>1, <5>3
        <5>4. CASE ~Top.keep
          <6>1. Lev(calls, L) = Lev(calls, L - 1) + 1
            BY <1>2, <5>1, <5>4, LevStep
          <6> QED  BY <1>2, <1>4, <5>2, <5>4, <6>1
        <5> QED  BY <5>3, <5>4
      <4>2. Lev(calls, k) - 1 \in 1 .. Len(tables)
        BY <1>2, <3>1
      <4> QED  BY <1>11, <3>1, <4>1, <4>2
    <3>3. CASE k = L
      <4>1. Lev(calls, k) - 1 = Caller
        BY <1>2, <1>4, <2>1, <3>3
      <4>2. Frozen(t, Top, TRUE)
        BY <1>2, <3>1, <3>3, <4>1 DEF Frozen
      <4>3. Frozen(u, Top, TRUE)
        BY <1>6, <1>10, <4>2 DEF Frozen
      <4> QED  BY <1>2, <1>11, <3>3, <4>1, <4>3 DEF Frozen
    <3> QED  BY <3>2, <3>3
  <2> QED  BY <1>1, <2>1 DEF OldInv, Frozen
<1> QED  BY <1>11, <1>12, <1>13, <1>14, <1>15 DEF IInv

LEMMA Cut ==
    ASSUME NEW S, NEW s \in Seq(S), NEW n \in 0 .. Len(s)
    PROVE  /\ SubSeq(s, 1, n) \in Seq(S) /\ Len(SubSeq(s, 1, n)) = n
           /\ \A k \in 1 .. n : SubSeq(s, 1, n)[k] = s[k]
  OBVIOUS

\* What is below the call that ends.
LEMMA LeaveFacts ==
    ASSUME IInv, Leave
    PROVE  /\ pc = "back" /\ pc' = "body" /\ back' = 0 /\ forced' = forced
           /\ calls # <<>> /\ Len(calls) \in Nat /\ Len(calls) >= 1 /\ Top = calls[Len(calls)]
           /\ calls' \in Seq(Call_) /\ Len(calls') = Len(calls) - 1
           /\ \A k \in 1 .. Len(calls) - 1 : calls'[k] = calls[k]
           /\ Caller \in 1 .. Len(tables) /\ Caller = Lev(calls, Len(calls) - 1)
           /\ tables' \in Seq(Seq(Variable)) /\ Len(tables') = Caller
           /\ \A m \in 1 .. Caller : tables'[m] = tables[m]
<1>1. /\ pc = "back" /\ pc' = "body" /\ back' = 0 /\ forced' = forced
      /\ tables' = SubSeq(tables, 1, Caller) /\ calls' = Front(calls)
  BY DEF Leave
<1>2. /\ calls # <<>> /\ Len(calls) \in Nat /\ Len(calls) >= 1 /\ Len(calls) \in DOMAIN calls
      /\ Top = calls[Len(calls)] /\ Lev(calls, Len(calls)) = Len(tables)
      /\ Len(tables) \in Nat /\ Len(tables) >= 1
  BY <1>1, TopFacts DEF IInv, PcInv
<1>3. Caller \in 1 .. Len(tables) /\ Caller = Lev(calls, Len(calls) - 1)
  <2>1. Len(calls) - 1 \in Nat /\ (Len(calls) - 1) + 1 = Len(calls)
    BY <1>2
  <2>2. CASE Top.keep
    BY <1>2, <2>1, <2>2, LevStep DEF Caller
  <2>3. CASE ~Top.keep
    <3>1. Lev(calls, Len(calls)) = Lev(calls, Len(calls) - 1) + 1
      BY <1>2, <2>1, <2>3, LevStep
    <3>2. Lev(calls, Len(calls) - 1) \in Nat /\ Lev(calls, Len(calls) - 1) >= 1
      BY <2>1, LevNat
    <3> QED  BY <1>2, <2>3, <3>1, <3>2 DEF Caller
  <2> QED  BY <2>2, <2>3
<1>4. /\ calls' \in Seq(Call_) /\ Len(calls') = Len(calls) - 1
      /\ \A k \in 1 .. Len(calls) - 1 : calls'[k] = calls[k]
  <2>1. calls \in Seq(Call_)
    BY DEF IInv, CallInv
  <2>2. calls' = SubSeq(calls, 1, Len(calls) - 1)
    BY <1>1 DEF Front
  <2>3. Len(calls) - 1 \in 0 .. Len(calls)
    BY <1>2
  <2> QED  BY <2>1, <2>2, <2>3, Cut
<1>5. /\ tables' \in Seq(Seq(Variable)) /\ Len(tables') = Caller
      /\ \A m \in 1 .. Caller : tables'[m] = tables[m]
  <2>1. tables \in Seq(Seq(Variable))
    BY DEF IInv, TablesInv
  <2>2. tables' = SubSeq(tables, 1, Caller)
    BY <1>1
  <2>3. Caller \in 0 .. Len(tables)
    BY <1>2, <1>3
  <2> QED  BY <2>1, <2>2, <2>3, Cut
<1> QED  BY <1>1, <1>2, <1>3, <1>4, <1>5

LEMMA LeaveStep == ASSUME IInv, Leave PROVE IInv'
<1> DEFINE L == Len(calls)
<1>1. /\ L \in Nat /\ L >= 1 /\ pc' = "body" /\ calls' \in Seq(Call_) /\ Len(calls') = L - 1
      /\ DOMAIN calls' = 1 .. L - 1
      /\ \A k \in 1 .. L - 1 : calls'[k] = calls[k] /\ k \in DOMAIN calls /\ k < L
  <2>1. calls \in Seq(Call_)
    BY DEF IInv, CallInv
  <2> QED  BY <2>1, LeaveFacts
<1>2. /\ Caller \in 1 .. Len(tables) /\ Len(tables) \in Nat /\ Caller = Lev(calls, L - 1)
      /\ tables' \in Seq(Seq(Variable)) /\ Len(tables') = Caller
      /\ DOMAIN tables' = 1 .. Caller
      /\ \A m \in 1 .. Caller : tables'[m] = tables[m] /\ m \in DOMAIN tables
  BY LeaveFacts, TopFacts
<1>3. TablesInv'
  <2>1. tables' # <<>>
    BY <1>2
  <2>2. \A n \in DOMAIN tables' : Good(tables'[n])
    BY <1>2 DEF IInv, TablesInv
  <2> QED  BY <1>2, <2>1, <2>2 DEF TablesInv
<1>4. \A k \in Nat : k <= L - 1 => /\ Lev(calls', k) = Lev(calls, k)
                                    /\ Lev(calls, k) \in 1 .. Caller
  <2> TAKE k \in Nat
  <2> HAVE k <= L - 1
  <2>1. \A j \in 1 .. k : calls'[j].keep = calls[j].keep
    BY <1>1
  <2>2. Lev(calls', k) = Lev(calls, k)
    BY <2>1, LevSame
  <2>3. Lev(calls, k) <= Lev(calls, L - 1)
    BY <1>1, LevMonotone
  <2>4. Lev(calls, k) \in Nat /\ Lev(calls, k) >= 1
    BY LevNat
  <2>5. Lev(calls, k) \in 1 .. Caller
    BY <1>2, <2>3, <2>4
  <2> QED  BY <2>2, <2>5
<1>5. LevelInv'
  <2>1. L - 1 \in Nat /\ L - 1 <= L - 1
    BY <1>1
  <2>2. Lev(calls', L - 1) = Lev(calls, L - 1)
    BY <1>4, <2>1
  <2>3. Len(tables') = Lev(calls', Len(calls'))
    BY <1>1, <1>2, <2>2
  <2> QED  BY <2>3 DEF LevelInv
<1>6. AtInv'
  <2>1. ASSUME NEW k \in 1 .. L - 1
        PROVE  Noted(tables'[Lev(calls', k)], calls'[k])
    <3>1. Noted(tables[Lev(calls, k)], calls[k])
      BY <1>1 DEF IInv, AtInv
    <3>2. Lev(calls', k) = Lev(calls, k) /\ Lev(calls, k) \in 1 .. Caller
      BY <1>1, <1>4
    <3> QED  BY <1>1, <1>2, <3>1, <3>2
  <2> QED  BY <1>1, <2>1 DEF AtInv
<1>7. OldInv'
  <2>1. ASSUME NEW k \in 1 .. L - 1, ~calls'[k].keep
        PROVE  Frozen(tables'[Lev(calls', k) - 1], calls'[k], FALSE)
    <3>1. k \in DOMAIN calls /\ k # Len(calls) /\ ~calls[k].keep /\ calls'[k] = calls[k]
      BY <1>1, <2>1
    <3>2. Lev(calls', k) = Lev(calls, k) /\ Lev(calls, k) \in 1 .. Caller
      BY <1>1, <1>4
    <3>3. Lev(calls, k) - 1 \in 1 .. Len(tables) - 1
      BY <3>1, Levels
    <3>4. tables'[Lev(calls', k) - 1] = tables[Lev(calls, k) - 1]
      BY <1>2, <3>2, <3>3
    <3>5. Frozen(tables[Lev(calls, k) - 1], calls[k], FALSE)
      BY <3>1 DEF IInv, OldInv, Frozen
    <3> QED  BY <3>1, <3>4, <3>5
  <2>2. pc' \notin {"back", "exit"}
    BY <1>1
  <2> QED  BY <1>1, <2>1, <2>2 DEF OldInv, Frozen
<1>8. CallInv'
  <2>1. ASSUME NEW k \in 1 .. L - 1
        PROVE  /\ Len(calls'[k].args) <= MaxArgs[calls'[k].f]
               /\ Len(calls'[k].at) <= Len(calls'[k].args)
               /\ Len(calls'[k].at) = Len(calls'[k].args)
    <3>1. k \in DOMAIN calls /\ k < Len(calls) /\ calls'[k] = calls[k]
      BY <1>1
    <3> QED  BY <3>1 DEF IInv, CallInv
  <2> QED  BY <1>1, <2>1 DEF CallInv
<1>9. PcInv'
  <2>1. back' = 0 /\ forced' = forced
    BY LeaveFacts
  <2>2. forced \in BOOLEAN
    BY DEF IInv, PcInv
  <2> QED  BY <1>1, <2>1, <2>2 DEF PcInv
<1> QED  BY <1>3, <1>5, <1>6, <1>7, <1>8, <1>9 DEF IInv

LEMMA StutterStep == ASSUME IInv, UNCHANGED vars PROVE IInv'
  BY DEF IInv, TablesInv, CallInv, PcInv, LevelInv, AtInv, OldInv, vars, Top

-----------------------------------------------------------------------------
(* The theorems *)

THEOREM NextIInv == ASSUME IInv, [Next]_vars PROVE IInv'
<1>1. CASE \E i \in Index, v \in Texts : Write(i, v)
  BY <1>1, WriteStep
<1>2. CASE \E f \in Func, keep \in BOOLEAN : \E args \in Lists(f) : Call(f, keep, args)
  BY <1>2, CallStep
<1>3. CASE Bind
  BY <1>3, BindStep
<1>4. CASE Return
  BY <1>4, ReturnStep
<1>5. CASE HandBack
  BY <1>5, HandBackStep
<1>6. CASE Leave
  BY <1>6, LeaveStep
<1>7. CASE Terminated \/ UNCHANGED vars
  BY <1>7, StutterStep DEF Terminated
<1> QED  BY <1>1, <1>2, <1>3, <1>4, <1>5, <1>6, <1>7 DEF Next, Others

THEOREM CallIInv == Spec => []IInv
  BY InitIInv, NextIInv, PTL DEF Spec

\* The table and the notes of every call are of their types, whatever the script
\* passes and however deep it calls.
THEOREM CallTypes == Spec => []TypeOK
<1>1. ASSUME IInv PROVE TypeOK
  <2>1. tables \in Seq(Seq(Variable)) /\ tables # <<>>
    BY <1>1 DEF IInv, TablesInv
  <2>2. \A t \in Range(tables) : Len(t) <= MAX_VARS
    BY <1>1 DEF IInv, TablesInv, Good, Range
  <2>3. calls \in Seq(Call_)
    BY <1>1 DEF IInv, CallInv
  <2>4. back \in Nat /\ forced \in BOOLEAN
    BY <1>1 DEF IInv, PcInv
  <2>5. /\ pc \in {"body", "bind", "back", "exit"}
        /\ pc \in {"bind", "back"} => calls # <<>>
    BY <1>1 DEF IInv, PcInv
  <2> QED  BY <2>1, <2>2, <2>3, <2>4, <2>5 DEF TypeOK
<1> QED  BY <1>1, CallIInv, PTL

\* The index that the parser gives to a name is found under that name in every
\* copy of g_variable, for every nesting of calls with and without KEEP_VAR and
\* whatever fails in them.
THEOREM CallIndicesStable == Spec => []IndicesStable
<1>1. ASSUME IInv PROVE IndicesStable
  <2>1. ASSUME NEW t \in Range(tables)
        PROVE  /\ Len(Parsed) <= Len(t)
               /\ \A i \in Index : t[i].name = Parsed[i]
               /\ \A i, j \in DOMAIN t : t[i].name = t[j].name => i = j
    <3>1. Good(t)
      BY <1>1 DEF IInv, TablesInv, Range
    <3> QED  BY <3>1 DEF Good
  <2>2. \A k : Level(k) = Lev(calls, k)
    BY DEF Level, Lev
  <2>3. Len(tables) = Level(Len(calls))
    BY <1>1, <2>2 DEF IInv, LevelInv
  <2>4. ASSUME NEW k \in DOMAIN calls, NEW i \in DOMAIN calls[k].at
        PROVE  /\ calls[k].at[i] \in DOMAIN tables[Level(k)]
               /\ tables[Level(k)][calls[k].at[i]].name = Formal(calls[k].f, i)
    BY <1>1, <2>2 DEF IInv, AtInv, Noted
  <2> QED  BY <2>1, <2>3, <2>4 DEF IndicesStable
<1> QED  BY <1>1, CallIInv, PTL

\* When a function with KEEP_VAR 0 ends, the table of its caller is as the call has found
\* it, but for what was passed (cmd.c:6478-6495).
THEOREM CallOthersRestored == Spec => OthersRestored
<1> DEFINE A == Leave /\ ~Top.keep =>
          LET t == tables'[Len(tables')]
          IN  /\ Len(t) = Len(Top.old)
              /\ \A i \in DOMAIN t : i \notin Range(Top.args) => t[i] = Top.old[i]
<1>1. ASSUME IInv, Leave, ~Top.keep
      PROVE  LET t == tables'[Len(tables')]
             IN  /\ Len(t) = Len(Top.old)
                 /\ \A i \in DOMAIN t : i \notin Range(Top.args) => t[i] = Top.old[i]
  <2>1. /\ Len(calls) \in DOMAIN calls /\ Top = calls[Len(calls)]
        /\ Lev(calls, Len(calls)) = Len(tables)
    BY <1>1, LeaveFacts, TopFacts
  <2>2. Caller = Lev(calls, Len(calls)) - 1 /\ Caller \in 1 .. Len(tables) /\ Len(tables') = Caller
    BY <1>1, <2>1, LeaveFacts DEF Caller
  <2>3. tables'[Len(tables')] = tables[Lev(calls, Len(calls)) - 1]
    BY <1>1, <2>2, LeaveFacts
  <2>4. Frozen(tables[Lev(calls, Len(calls)) - 1], Top, TRUE)
    BY <1>1, <2>1 DEF IInv, OldInv, Frozen
  <2> QED  BY <2>3, <2>4 DEF Frozen
<1>2. ASSUME IInv, [Next]_vars PROVE [A]_vars
  BY <1>1, <1>2
<1>3. Spec => [][A]_vars
  BY <1>2, CallIInv, PTL DEF Spec
<1> QED  BY <1>3 DEF OthersRestored

-----------------------------------------------------------------------------
(* Tables by names *)

\* A name that a table has is found with its value.
LEMMA EnvFound ==
    ASSUME NEW t, Good(t), NEW i \in DOMAIN t
    PROVE  t[i].name \in Name /\ EnvOf(t)[t[i].name] = t[i].val
<1>1. t[i] \in Variable /\ t[i].name \in Name
  <2>1. t[i] \in Variable
    BY DEF Good
  <2> QED  BY <2>1 DEF Variable
<1>2. Slot(t, t[i].name) \in DOMAIN t /\ t[Slot(t, t[i].name)].name = t[i].name
  BY DEF Slot
<1>3. Slot(t, t[i].name) = i
  BY <1>2 DEF Good
<1> QED  BY <1>1, <1>3 DEF EnvOf

LEMMA EnvMissing ==
    ASSUME NEW t, NEW x \in Name, \A i \in DOMAIN t : t[i].name # x
    PROVE  EnvOf(t)[x] = First(x)
  BY DEF EnvOf

LEMMA NameValue == ASSUME NEW x \in Name PROVE First(x) \in Value
  BY DEF First, Value

LEMMA EnvType ==
    ASSUME NEW t, Good(t)
    PROVE  EnvOf(t) \in [Name -> Value]
<1>1. ASSUME NEW x \in Name PROVE EnvOf(t)[x] \in Value
  <2>1. CASE \E i \in DOMAIN t : t[i].name = x
    <3>1. PICK i \in DOMAIN t : t[i].name = x
      BY <2>1
    <3>2. EnvOf(t)[x] = t[i].val
      BY <3>1, EnvFound
    <3>3. t[i] \in Variable
      BY DEF Good
    <3> QED  BY <3>2, <3>3 DEF Variable
  <2>2. CASE ~\E i \in DOMAIN t : t[i].name = x
    <3>1. EnvOf(t)[x] = First(x)
      BY <2>2, EnvMissing
    <3> QED  BY <3>1, NameValue
  <2> QED  BY <2>1, <2>2
<1>2. EnvOf(t) = [x \in Name |-> EnvOf(t)[x]]
  BY DEF EnvOf
<1> QED  BY <1>1, <1>2

\* A variable gets a value, and may be new; the others have theirs.
LEMMA EnvSet ==
    ASSUME NEW t, Good(t), NEW u, Good(u), NEW i \in DOMAIN u,
           \A j \in DOMAIN t : j # i => j \in DOMAIN u /\ u[j].name = t[j].name /\ u[j].val = t[j].val,
           \A j \in DOMAIN u : j # i => j \in DOMAIN t,
           i \in DOMAIN t => u[i].name = t[i].name
    PROVE  EnvOf(u) = [EnvOf(t) EXCEPT ![u[i].name] = u[i].val]
<1>1. u[i].name \in Name /\ EnvOf(u)[u[i].name] = u[i].val
  BY EnvFound
<1>2. EnvOf(u) \in [Name -> Value] /\ EnvOf(t) \in [Name -> Value]
  BY EnvType
<1>3. ASSUME NEW x \in Name, x # u[i].name PROVE EnvOf(u)[x] = EnvOf(t)[x]
  <2>1. CASE \E j \in DOMAIN u : u[j].name = x
    <3>1. PICK j \in DOMAIN u : u[j].name = x
      BY <2>1
    <3>2. j \in DOMAIN t /\ t[j].name = x /\ t[j].val = u[j].val
      BY <1>3, <3>1
    <3>3. EnvOf(u)[x] = u[j].val
      BY <3>1, EnvFound
    <3>4. EnvOf(t)[x] = t[j].val
      BY <3>2, EnvFound
    <3> QED  BY <3>2, <3>3, <3>4
  <2>2. CASE ~\E j \in DOMAIN u : u[j].name = x
    <3>1. \A j \in DOMAIN t : t[j].name # x
      BY <1>3, <2>2
    <3> QED  BY <2>2, <3>1, EnvMissing
  <2> QED  BY <2>1, <2>2
<1> QED  BY <1>1, <1>2, <1>3

LEMMA EnvCopied ==
    ASSUME NEW t, Good(t)
    PROVE  EnvOf(Copied(t)) = EnvOf(t)
<1> DEFINE u == Copied(t)
<1>1. Good(u) /\ DOMAIN u = DOMAIN t
  BY GoodCopied DEF Copied
<1>2. ASSUME NEW j \in DOMAIN t PROVE u[j].name = t[j].name /\ u[j].val = t[j].val
  <2>1. t[j] \in Variable
    BY DEF Good
  <2> QED  BY <2>1 DEF Copied, Variable
<1> HIDE DEF u
<1>3. EnvOf(u) \in [Name -> Value] /\ EnvOf(t) \in [Name -> Value]
  BY <1>1, EnvType
<1>4. ASSUME NEW x \in Name PROVE EnvOf(u)[x] = EnvOf(t)[x]
  <2>1. CASE \E j \in DOMAIN t : t[j].name = x
    <3>1. PICK j \in DOMAIN t : t[j].name = x
      BY <2>1
    <3>2. EnvOf(u)[x] = u[j].val
      BY <1>1, <1>2, <3>1, EnvFound
    <3>3. EnvOf(t)[x] = t[j].val
      BY <3>1, EnvFound
    <3> QED  BY <1>2, <3>2, <3>3
  <2>2. CASE ~\E j \in DOMAIN t : t[j].name = x
    BY <1>1, <1>2, <2>2, EnvMissing
  <2> QED  BY <2>1, <2>2
<1>5. EnvOf(u) = EnvOf(t)
  BY <1>3, <1>4
<1> QED  BY <1>5 DEF u

\* The copies of the table, by names, and the calls.
Envs(ts)     == [k \in DOMAIN ts |-> EnvOf(ts[k])]
FramesOf(cs) == [k \in DOMAIN cs |-> Frame(cs[k])]

AllGood(ts) == ts \in Seq(Seq(Variable)) /\ \A n \in DOMAIN ts : Good(ts[n])

LEMMA EnvsAre ==
    ASSUME NEW ts, AllGood(ts)
    PROVE  /\ Envs(ts) \in Seq([Name -> Value]) /\ Len(Envs(ts)) = Len(ts)
           /\ DOMAIN Envs(ts) = 1 .. Len(ts) /\ DOMAIN ts = 1 .. Len(ts) /\ Len(ts) \in Nat
           /\ \A k \in 1 .. Len(ts) : Envs(ts)[k] = EnvOf(ts[k])
<1> DEFINE e == Envs(ts)
<1>1. DOMAIN ts = 1 .. Len(ts) /\ Len(ts) \in Nat
  BY DEF AllGood
<1>2. DOMAIN e = 1 .. Len(ts) /\ e = [k \in 1 .. Len(ts) |-> e[k]]
  BY <1>1 DEF Envs
<1>3. \A k \in 1 .. Len(ts) : e[k] = EnvOf(ts[k]) /\ e[k] \in [Name -> Value]
  BY <1>1, EnvType DEF Envs, AllGood
<1> HIDE DEF e
<1>4. e \in Seq([Name -> Value]) /\ Len(e) = Len(ts)
  BY <1>1, <1>2, <1>3
<1> QED  BY <1>1, <1>2, <1>3, <1>4 DEF e

-----------------------------------------------------------------------------
(* Calls by names *)

\* b has the first n arguments of a call of f that passes the names as, and is e
\* elsewhere.
BoundTo(b, e, f, as, n) ==
    /\ \A i \in 1 .. n : b[Formal(f, i)] = e[as[i]]
    /\ \A x \in Name : (\A i \in 1 .. n : x # Formal(f, i)) => b[x] = e[x]

\* The last of the first n names that is x.
LastOf(as, n, x, i) == i \in 1 .. n /\ x = as[i] /\ \A j \in 1 .. n : x = as[j] => j <= i

\* h has the first n arguments of f as they are in b, and is e elsewhere.
HandedTo(h, e, b, f, as, n) ==
    \A x \in Name :
        \/ \E i \in 1 .. n : LastOf(as, n, x, i) /\ h[x] = b[Formal(f, i)]
        \/ h[x] = e[x] /\ \A i \in 1 .. n : x # as[i]

Passes(c) == [i \in DOMAIN c.args |-> Parsed[c.args[i]]]

\* No call passes one of the function's own arguments as another one.
PlainInv ==
    \A k \in DOMAIN calls : \A i, j \in DOMAIN calls[k].args :
        j # i => Parsed[calls[k].args[i]] # Formal(calls[k].f, j)

Given == EnvOf(before[Len(before)])

\* While arguments are bound, the last table is that of the call in the making; the
\* ones below it wait.
BindInv ==
    pc = "bind" =>
        /\ AllGood(before) /\ Len(before) = Caller
        /\ \A n \in 1 .. Len(before) : n # Len(tables) => tables[n] = before[n]
        /\ BoundTo(EnvOf(Table), Given, Top.f, Passes(Top), Len(Top.at))
        /\ \A i \in DOMAIN Top.args : ~Given[Parsed[Top.args[i]]].more

\* While arguments are handed back, only the table of the caller is touched.
BackInv ==
    pc = "back" =>
        /\ AllGood(before) /\ Len(before) = Len(tables)
        /\ \A n \in 1 .. Len(before) : n # Caller => tables[n] = before[n]
        /\ HandedTo(EnvOf(tables[Caller]), EnvOf(before[Caller]), Given, Top.f, Passes(Top), back)

RInv == IInv /\ PlainInv /\ BindInv /\ BackInv

\* The variables of BmsEnv.
TablesNow == IF pc = "body" THEN tables ELSE before
CallsNow  == IF Half THEN Front(calls) ELSE calls
EnvNow    == Envs(TablesNow)
FramesNow == FramesOf(CallsNow)
StNow     == IF pc = "exit" THEN "exit" ELSE "run"

LEMMA EnvStutters ==
    ASSUME EnvNow' = EnvNow, FramesNow' = FramesNow, StNow' = StNow
    PROVE  UNCHANGED Env!vars
  BY DEF Env!vars, EnvNow, Envs, TablesNow, FramesNow, FramesOf, CallsNow, StNow

LEMMA EnvSets ==
    ASSUME NEW x \in Name, NEW v \in Value, FramesNow' = FramesNow, StNow' = StNow,
           EnvNow' = [EnvNow EXCEPT ![Len(EnvNow)][x] = v]
    PROVE  Env!Next
<1>1. Env!Set
  BY DEF Env!Set, EnvNow, Envs, TablesNow, FramesNow, FramesOf, CallsNow, StNow
<1> QED  BY <1>1 DEF Env!Next

LEMMA EnvExits ==
    ASSUME EnvNow' = EnvNow, FramesNow' = FramesNow, StNow' = "exit"
    PROVE  Env!Next
<1>1. Env!Exit
  BY DEF Env!Exit, EnvNow, Envs, TablesNow, FramesNow, FramesOf, CallsNow, StNow
<1> QED  BY <1>1 DEF Env!Next

LEMMA EnvCalls ==
    ASSUME NEW f \in Func, NEW keep \in BOOLEAN, NEW as, NEW b,
           NEW k \in 0 .. MaxArgs[f], as \in [1 .. k -> Name],
           b = Env!Bound(f, as),
           FramesNow' = Append(FramesNow, [f |-> f, keep |-> keep, as |-> as]), StNow' = StNow,
           EnvNow' = IF keep THEN [EnvNow EXCEPT ![Len(EnvNow)] = b] ELSE Append(EnvNow, b)
    PROVE  Env!Next
<1>1. Env!Call(f, keep, as)
  BY DEF Env!Call, EnvNow, Envs, TablesNow, FramesNow, FramesOf, CallsNow, StNow
<1>2. as \in UNION {[1 .. m -> Name] : m \in 0 .. MaxArgs[f]}
  OBVIOUS
<1> QED  BY <1>1, <1>2 DEF Env!Next

LEMMA EnvReturns ==
    ASSUME NEW c, NEW d, NEW h, FramesNow # <<>>, c = FramesNow[Len(FramesNow)],
           d = IF c.keep THEN Len(EnvNow) ELSE Len(EnvNow) - 1,
           h = Env!Handed(EnvNow[d], c.f, c.as),
           FramesNow' = SubSeq(FramesNow, 1, Len(FramesNow) - 1), StNow' = StNow,
           EnvNow' = [SubSeq(EnvNow, 1, d) EXCEPT ![d] = h]
    PROVE  Env!Next
<1>1. Env!Return
  BY DEF Env!Return, EnvNow, Envs, TablesNow, FramesNow, FramesOf, CallsNow, StNow
<1> QED  BY <1>1 DEF Env!Next

\* All arguments are bound, one by one.
LEMMA BoundIs ==
    ASSUME NEW b \in [Name -> Value], NEW f, NEW as, NEW n \in Nat, DOMAIN as = 1 .. n,
           BoundTo(b, EnvNow[Len(EnvNow)], f, as, n)
    PROVE  b = Env!Bound(f, as)
<1> DEFINE e == EnvNow[Len(EnvNow)]
           B == [x \in Name |-> IF \E i \in DOMAIN as : x = Formal(f, i)
                    THEN e[as[CHOOSE i \in DOMAIN as : x = Formal(f, i)]]
                    ELSE e[x]]
<1>1. Env!Bound(f, as) = B
  BY DEF Env!Bound, Env!Top, EnvNow, Envs, TablesNow
<1> HIDE DEF e
<1>2. BoundTo(b, e, f, as, n)
  BY DEF e
<1>3. ASSUME NEW x \in Name PROVE b[x] = B[x]
  <2>1. CASE \E i \in DOMAIN as : x = Formal(f, i)
    <3> DEFINE i == CHOOSE i \in DOMAIN as : x = Formal(f, i)
    <3>1. i \in DOMAIN as /\ x = Formal(f, i)
      BY <2>1
    <3>2. B[x] = e[as[i]]
      BY <2>1
    <3> HIDE DEF i, B
    <3>3. b[Formal(f, i)] = e[as[i]]
      BY <1>2, <3>1 DEF BoundTo
    <3> QED  BY <3>1, <3>2, <3>3
  <2>2. CASE ~\E i \in DOMAIN as : x = Formal(f, i)
    BY <1>2, <2>2 DEF BoundTo
  <2> QED  BY <2>1, <2>2
<1>4. b = [x \in Name |-> b[x]]
  OBVIOUS
<1>5. b = B
  BY <1>3, <1>4
<1> QED  BY <1>1, <1>5

\* All arguments are handed back, one by one.
LEMMA HandedIs ==
    ASSUME NEW h \in [Name -> Value], NEW e, NEW f, NEW as, NEW n \in Nat, DOMAIN as = 1 .. n,
           HandedTo(h, e, EnvNow[Len(EnvNow)], f, as, n)
    PROVE  h = Env!Handed(e, f, as)
<1> DEFINE b == EnvNow[Len(EnvNow)]
           L(x, i) == x = as[i] /\ \A j \in DOMAIN as : x = as[j] => j <= i
           H == [x \in Name |-> IF \E i \in DOMAIN as : x = as[i]
                    THEN b[Formal(f, CHOOSE i \in DOMAIN as : L(x, i))]
                    ELSE e[x]]
<1>1. Env!Handed(e, f, as) = H
  BY DEF Env!Handed, Env!Top, EnvNow, Envs, TablesNow
<1> HIDE DEF b
<1>2. HandedTo(h, e, b, f, as, n)
  BY DEF b
<1>3. ASSUME NEW x \in Name PROVE h[x] = H[x]
  <2>1. CASE \E i \in DOMAIN as : x = as[i]
    <3>1. PICK i \in 1 .. n : LastOf(as, n, x, i) /\ h[x] = b[Formal(f, i)]
      BY <1>2, <2>1 DEF HandedTo
    <3>2. i \in DOMAIN as /\ L(x, i)
      BY <3>1 DEF LastOf
    <3> DEFINE m == CHOOSE m \in DOMAIN as : L(x, m)
    <3>3. m \in DOMAIN as /\ L(x, m)
      BY <3>2
    <3>4. H[x] = b[Formal(f, m)]
      BY <2>1
    <3> HIDE DEF m, H
    <3>5. m <= i /\ i <= m
      BY <3>2, <3>3
    <3>6. m \in Int /\ i \in Int
      BY <3>2, <3>3
    <3>7. m = i
      BY <3>5, <3>6
    <3> QED  BY <3>1, <3>4, <3>7
  <2>2. CASE ~\E i \in DOMAIN as : x = as[i]
    BY <1>2, <2>2 DEF HandedTo, LastOf
  <2> QED  BY <2>1, <2>2
<1>4. h = [x \in Name |-> h[x]]
  OBVIOUS
<1>5. h = H
  BY <1>3, <1>4
<1> QED  BY <1>1, <1>5

LEMMA SameSeq ==
    ASSUME NEW S, NEW s \in Seq(S), NEW t \in Seq(S), Len(s) = Len(t),
           \A k \in 1 .. Len(s) : s[k] = t[k]
    PROVE  s = t
  OBVIOUS

Updated(e, m, b) == [e EXCEPT ![m] = b]

\* One table is another one.
LEMMA EnvsChanged ==
    ASSUME NEW ts, AllGood(ts), NEW us, AllGood(us), Len(us) = Len(ts), NEW m \in 1 .. Len(ts),
           \A n \in 1 .. Len(ts) : n # m => us[n] = ts[n]
    PROVE  Envs(us) = Updated(Envs(ts), m, EnvOf(us[m]))
<1> DEFINE e == Envs(ts)
           b == EnvOf(us[m])
           g == [e EXCEPT ![m] = b]
<1>1. /\ Len(ts) \in Nat /\ e \in Seq([Name -> Value]) /\ Len(e) = Len(ts) /\ DOMAIN e = 1 .. Len(ts)
      /\ \A k \in 1 .. Len(ts) : e[k] = EnvOf(ts[k])
  BY EnvsAre
<1>2. /\ Envs(us) \in Seq([Name -> Value]) /\ Len(Envs(us)) = Len(ts)
      /\ \A k \in 1 .. Len(ts) : Envs(us)[k] = EnvOf(us[k])
  BY EnvsAre
<1>3. b \in [Name -> Value]
  BY <1>1, EnvType DEF AllGood
<1> HIDE DEF e, b
<1>4. g \in Seq([Name -> Value]) /\ Len(g) = Len(ts) /\ g[m] = b
      /\ \A k \in 1 .. Len(ts) : k # m => g[k] = e[k]
  BY <1>1, <1>3
<1>5. \A k \in 1 .. Len(ts) : Envs(us)[k] = g[k]
  BY <1>1, <1>2, <1>4 DEF b
<1> HIDE DEF g
<1>6. Envs(us) = g
  BY <1>2, <1>4, <1>5, SameSeq
<1> QED  BY <1>6 DEF g, e, b, Updated

LEMMA EnvsAppended ==
    ASSUME NEW ts, AllGood(ts), NEW us, AllGood(us), Len(us) = Len(ts) + 1,
           \A n \in 1 .. Len(ts) : us[n] = ts[n]
    PROVE  Envs(us) = Append(Envs(ts), EnvOf(us[Len(us)]))
<1> DEFINE e == Envs(ts)
           b == EnvOf(us[Len(us)])
           g == Append(e, b)
<1>1. /\ Len(ts) \in Nat /\ e \in Seq([Name -> Value]) /\ Len(e) = Len(ts)
      /\ \A k \in 1 .. Len(ts) : e[k] = EnvOf(ts[k])
  BY EnvsAre
<1>2. /\ Envs(us) \in Seq([Name -> Value]) /\ Len(Envs(us)) = Len(us)
      /\ DOMAIN us = 1 .. Len(us)
      /\ \A k \in 1 .. Len(us) : Envs(us)[k] = EnvOf(us[k])
  BY EnvsAre
<1>3. Len(us) \in DOMAIN us
  BY <1>1, <1>2
<1>4. b \in [Name -> Value]
  BY <1>3, EnvType DEF AllGood
<1> HIDE DEF e, b
<1>5. g \in Seq([Name -> Value]) /\ Len(g) = Len(ts) + 1 /\ g[Len(ts) + 1] = b
      /\ \A k \in 1 .. Len(ts) : g[k] = e[k]
  BY <1>1, <1>4
<1> HIDE DEF g
<1>6. ASSUME NEW k \in 1 .. Len(us) PROVE Envs(us)[k] = g[k]
  <2>1. CASE k = Len(us)
    BY <1>2, <1>5, <2>1 DEF b
  <2>2. CASE k \in 1 .. Len(ts)
    BY <1>1, <1>2, <1>5, <2>2
  <2> QED  BY <1>1, <2>1, <2>2
<1>7. Envs(us) = g
  BY <1>2, <1>5, <1>6, SameSeq
<1> QED  BY <1>7 DEF g, e, b

\* The last tables are gone, and one of them has gone into the last that is left.
LEMMA EnvsCut ==
    ASSUME NEW ts, AllGood(ts), NEW us, AllGood(us), NEW d \in 1 .. Len(ts), Len(us) = d,
           \A n \in 1 .. d : n # d => us[n] = ts[n]
    PROVE  Envs(us) = Updated(SubSeq(Envs(ts), 1, d), d, EnvOf(us[d]))
<1> DEFINE e == Envs(ts)
           b == EnvOf(us[d])
           c == SubSeq(e, 1, d)
           g == [c EXCEPT ![d] = b]
<1>1. /\ Len(ts) \in Nat /\ e \in Seq([Name -> Value]) /\ Len(e) = Len(ts)
      /\ \A k \in 1 .. Len(ts) : e[k] = EnvOf(ts[k])
  BY EnvsAre
<1>2. /\ Envs(us) \in Seq([Name -> Value]) /\ Len(Envs(us)) = d /\ DOMAIN us = 1 .. d
      /\ \A k \in 1 .. d : Envs(us)[k] = EnvOf(us[k])
  BY EnvsAre
<1>3. b \in [Name -> Value]
  BY <1>1, <1>2, EnvType DEF AllGood
<1> HIDE DEF e, b
<1>4. c \in Seq([Name -> Value]) /\ Len(c) = d /\ \A k \in 1 .. d : c[k] = e[k]
  <2>1. d \in 0 .. Len(e)
    BY <1>1
  <2> QED  BY <1>1, <2>1, Cut
<1> HIDE DEF c
<1>5. g \in Seq([Name -> Value]) /\ Len(g) = d /\ g[d] = b
      /\ \A k \in 1 .. d : k # d => g[k] = c[k]
  BY <1>1, <1>3, <1>4
<1> HIDE DEF g
<1>6. ASSUME NEW k \in 1 .. d PROVE Envs(us)[k] = g[k]
  <2>1. CASE k = d
    BY <1>2, <1>5, <2>1 DEF b
  <2>2. CASE k # d
    BY <1>1, <1>2, <1>4, <1>5, <2>2
  <2> QED  BY <2>1, <2>2
<1>7. Envs(us) = g
  BY <1>2, <1>5, <1>6, SameSeq
<1> QED  BY <1>7 DEF g, e, b, c, Updated

Framed == {Frame(c) : c \in Call_}

LEMMA FramesAre ==
    ASSUME NEW cs \in Seq(Call_)
    PROVE  /\ FramesOf(cs) \in Seq(Framed) /\ Len(FramesOf(cs)) = Len(cs) /\ Len(cs) \in Nat
           /\ \A k \in 1 .. Len(cs) : FramesOf(cs)[k] = Frame(cs[k])
<1> DEFINE e == FramesOf(cs)
<1>1. DOMAIN cs = 1 .. Len(cs) /\ Len(cs) \in Nat /\ \A k \in 1 .. Len(cs) : cs[k] \in Call_
  OBVIOUS
<1>2. DOMAIN e = 1 .. Len(cs) /\ e = [k \in 1 .. Len(cs) |-> e[k]]
  BY <1>1 DEF FramesOf
<1>3. \A k \in 1 .. Len(cs) : e[k] = Frame(cs[k]) /\ e[k] \in Framed
  BY <1>1 DEF FramesOf, Framed
<1> HIDE DEF e
<1>4. e \in Seq(Framed) /\ Len(e) = Len(cs)
  BY <1>1, <1>2, <1>3
<1> QED  BY <1>1, <1>3, <1>4 DEF e

LEMMA FramesSame ==
    ASSUME NEW cs \in Seq(Call_), NEW ds \in Seq(Call_), Len(ds) = Len(cs),
           \A k \in 1 .. Len(cs) : Frame(ds[k]) = Frame(cs[k])
    PROVE  FramesOf(ds) = FramesOf(cs)
  BY FramesAre, SameSeq

LEMMA FramesAppended ==
    ASSUME NEW cs \in Seq(Call_), NEW ds \in Seq(Call_), Len(ds) = Len(cs) + 1,
           \A k \in 1 .. Len(cs) : ds[k] = cs[k]
    PROVE  FramesOf(ds) = Append(FramesOf(cs), Frame(ds[Len(ds)]))
<1> DEFINE e == FramesOf(cs)
           b == Frame(ds[Len(ds)])
           g == Append(e, b)
<1>1. /\ Len(cs) \in Nat /\ e \in Seq(Framed) /\ Len(e) = Len(cs)
      /\ \A k \in 1 .. Len(cs) : e[k] = Frame(cs[k])
  BY FramesAre
<1>2. /\ FramesOf(ds) \in Seq(Framed) /\ Len(FramesOf(ds)) = Len(ds)
      /\ \A k \in 1 .. Len(ds) : FramesOf(ds)[k] = Frame(ds[k])
  BY FramesAre
<1>3. b \in Framed
  BY <1>1 DEF Framed
<1> HIDE DEF e, b
<1>4. g \in Seq(Framed) /\ Len(g) = Len(cs) + 1 /\ g[Len(cs) + 1] = b
      /\ \A k \in 1 .. Len(cs) : g[k] = e[k]
  BY <1>1, <1>3
<1> HIDE DEF g
<1>5. ASSUME NEW k \in 1 .. Len(ds) PROVE FramesOf(ds)[k] = g[k]
  <2>1. CASE k = Len(ds)
    BY <1>2, <1>4, <2>1 DEF b
  <2>2. CASE k \in 1 .. Len(cs)
    BY <1>1, <1>2, <1>4, <2>2
  <2> QED  BY <1>1, <2>1, <2>2
<1>6. FramesOf(ds) = g
  BY <1>2, <1>4, <1>5, SameSeq
<1> QED  BY <1>6 DEF g, e, b

LEMMA FramesCut ==
    ASSUME NEW cs \in Seq(Call_), NEW ds \in Seq(Call_), Len(ds) = Len(cs) - 1, cs # <<>>,
           \A k \in 1 .. Len(cs) - 1 : ds[k] = cs[k]
    PROVE  /\ FramesOf(ds) = SubSeq(FramesOf(cs), 1, Len(FramesOf(cs)) - 1)
           /\ FramesOf(cs) # <<>> /\ FramesOf(cs)[Len(FramesOf(cs))] = Frame(cs[Len(cs)])
<1> DEFINE e == FramesOf(cs)
           n == Len(cs) - 1
           g == SubSeq(e, 1, n)
<1>1. /\ Len(cs) \in Nat /\ e \in Seq(Framed) /\ Len(e) = Len(cs) /\ Len(cs) >= 1
      /\ \A k \in 1 .. Len(cs) : e[k] = Frame(cs[k])
  BY FramesAre
<1>2. /\ FramesOf(ds) \in Seq(Framed) /\ Len(FramesOf(ds)) = n
      /\ \A k \in 1 .. n : FramesOf(ds)[k] = Frame(ds[k])
  BY FramesAre
<1> HIDE DEF e
<1>3. n \in 0 .. Len(e)
  BY <1>1
<1>4. g \in Seq(Framed) /\ Len(g) = n /\ \A k \in 1 .. n : g[k] = e[k]
  BY <1>1, <1>3, Cut
<1> HIDE DEF g
<1>5. \A k \in 1 .. n : FramesOf(ds)[k] = g[k]
  BY <1>1, <1>2, <1>4
<1>6. FramesOf(ds) = g
  BY <1>2, <1>4, <1>5, SameSeq
<1>7. e # <<>> /\ e[Len(e)] = Frame(cs[Len(cs)]) /\ Len(e) - 1 = n
  BY <1>1
<1> QED  BY <1>6, <1>7 DEF g, e

-----------------------------------------------------------------------------
(* The steps of BmsEnv *)

LEMMA HalfFacts ==
    ASSUME IInv
    PROVE  /\ pc \in {"body", "back"} => ~Half
           /\ pc = "bind" => Half
<1>1. ASSUME pc \in {"body", "back"}, calls # <<>>
      PROVE  Len(Top.at) = Len(Top.args)
  <2>1. Len(calls) \in DOMAIN calls /\ Top = calls[Len(calls)]
    BY <1>1, TopFacts
  <2> QED  BY <1>1, <2>1 DEF IInv, CallInv
<1>2. ASSUME calls # <<>> PROVE Len(Top.at) \in Nat /\ Len(Top.args) \in Nat
  <2>1. Top \in Call_
    BY <1>2, TopFacts
  <2> QED  BY <2>1 DEF Call_
<1>3. pc \in {"body", "back"} => ~Half
  BY <1>1, <1>2 DEF Half
<1>4. pc = "bind" => Half
  BY DEF Half, IInv, PcInv
<1> QED  BY <1>3, <1>4

LEMMA TablesGood == ASSUME IInv PROVE AllGood(tables)
  BY DEF IInv, TablesInv, AllGood

LEMMA PlainKept ==
    ASSUME PlainInv,
           \A k \in DOMAIN calls' : k \in DOMAIN calls /\ calls'[k].args = calls[k].args
                                                       /\ calls'[k].f = calls[k].f
    PROVE  PlainInv'
  BY DEF PlainInv

LEMMA ExitRefines ==
    ASSUME RInv, Exit
    PROVE  RInv' /\ Env!Next
<1>1. pc' = "exit" /\ before' = TablesNow /\ calls' = calls
  BY DEF Exit, TablesNow
<1>2. IInv'
  BY ExitStep DEF RInv
<1>3. PlainInv'
  BY <1>1, PlainKept DEF RInv
<1>4. BindInv' /\ BackInv'
  BY <1>1 DEF BindInv, BackInv
<1>5. EnvNow' = EnvNow
  BY <1>1 DEF EnvNow, TablesNow
<1>6. FramesNow' = FramesNow
  BY <1>1 DEF FramesNow, CallsNow, Half, Top
<1>7. StNow' = "exit"
  BY <1>1 DEF StNow
<1> QED  BY <1>2, <1>3, <1>4, <1>5, <1>6, <1>7, EnvExits DEF RInv

LEMMA WriteRefines ==
    ASSUME RInv, NEW i \in Index, NEW v \in Texts, Write(i, v)
    PROVE  RInv' /\ Env!Next
<1>1. CASE Exit
  BY <1>1, ExitRefines
<1>2. CASE ~Exit
  <2> DEFINE u == [Table EXCEPT ![i].val = v]
  <2>1. /\ pc = "body" /\ pc' = "body" /\ calls' = calls
        /\ tables' = [tables EXCEPT ![Len(tables)] = u]
    BY <1>2 DEF Write, Table
  <2>2. IInv /\ IInv' /\ AllGood(tables) /\ AllGood(tables')
    <3>1. IInv /\ IInv'
      BY WriteStep DEF RInv
    <3>2. AllGood(tables')
      BY <3>1 DEF IInv, TablesInv, AllGood
    <3> QED  BY <3>1, <3>2, TablesGood
  <2>3. /\ Good(Table) /\ Len(tables) \in Nat /\ Len(tables) \in 1 .. Len(tables)
        /\ tables # <<>> /\ tables \in Seq(Seq(Variable))
    BY <2>2, TopFacts DEF IInv, TablesInv
  <2>4. i \in DOMAIN Table /\ Table[i].name = Parsed[i] /\ Table[i] \in Variable
    BY <2>3, ParsedNames DEF Good
  <2>5. DOMAIN u = DOMAIN Table /\ u[i].val = v /\ u[i].name = Parsed[i]
        /\ \A j \in DOMAIN Table : j # i => u[j] = Table[j]
    <3>1. u[i] = [Table[i] EXCEPT !.val = v]
      BY <2>4
    <3> QED  BY <2>4, <3>1 DEF Variable
  <2> HIDE DEF u
  <2>6. /\ tables'[Len(tables)] = u /\ Len(tables') = Len(tables)
        /\ \A n \in 1 .. Len(tables) : n # Len(tables) => tables'[n] = tables[n]
    <3>1. u \in Seq(Variable)
      <4>1. Table \in Seq(Variable) /\ DOMAIN Table = 1 .. Len(Table) /\ Len(Table) \in Nat
        BY <2>3 DEF Good
      <4>2. u[i] \in Variable
        <5>1. u[i] = [Table[i] EXCEPT !.val = v]
          BY <2>4 DEF u
        <5> QED  BY <2>4, <5>1, TextAssumption DEF Variable
      <4>3. u = [Table EXCEPT ![i] = u[i]]
        BY <2>4 DEF u
      <4> QED  BY <2>4, <4>1, <4>2, <4>3
    <3> QED  BY <2>1, <2>3, <3>1
  <2>7. Good(u)
    <3>1. Len(tables) \in DOMAIN tables'
      BY <2>2, <2>3, <2>6 DEF AllGood
    <3> QED  BY <2>2, <2>6, <3>1 DEF AllGood
  <2>8. EnvOf(u) = [EnvOf(Table) EXCEPT ![Parsed[i]] = v]
    <3>1. EnvOf(u) = [EnvOf(Table) EXCEPT ![u[i].name] = u[i].val]
      BY <2>3, <2>4, <2>5, <2>7, EnvSet
    <3> QED  BY <2>5, <3>1
  <2>9. Envs(tables') = Updated(Envs(tables), Len(tables), EnvOf(u))
    BY <2>2, <2>3, <2>6, EnvsChanged
  <2>10. Envs(tables)[Len(tables)] = EnvOf(Table) /\ Len(Envs(tables)) = Len(tables)
    BY <2>2, <2>3, EnvsAre DEF Table
  <2>11. EnvNow' = [EnvNow EXCEPT ![Len(EnvNow)][Parsed[i]] = v]
    <3>1. EnvNow = Envs(tables) /\ EnvNow' = Envs(tables')
      BY <2>1 DEF EnvNow, TablesNow
    <3> QED  BY <2>8, <2>9, <2>10, <3>1 DEF Updated
  <2>12. FramesNow' = FramesNow /\ StNow' = StNow
    BY <2>1 DEF FramesNow, CallsNow, Half, Top, StNow
  <2>13. Env!Next
    <3>1. Parsed[i] \in Name /\ v \in Value
      BY ParsedNames, TextAssumption
    <3> QED  BY <2>11, <2>12, <3>1, EnvSets
  <2>14. PlainInv' /\ BindInv' /\ BackInv'
    <3>1. PlainInv'
      BY <2>1, PlainKept DEF RInv
    <3> QED  BY <2>1, <3>1 DEF BindInv, BackInv
  <2> QED  BY <2>2, <2>13, <2>14 DEF RInv
<1> QED  BY <1>1, <1>2

\* The tables us after a call, where ts were the tables before it.
Entered(ts, us, keep) ==
    /\ AllGood(ts) /\ Len(ts) >= 1 /\ AllGood(us)
    /\ keep => Len(us) = Len(ts)
    /\ ~keep => Len(us) = Len(ts) + 1
    /\ \A k \in 1 .. Len(ts) : k # Len(us) => us[k] = ts[k]

LEMMA EnteredIs ==
    ASSUME NEW ts, NEW us, NEW keep \in BOOLEAN, Entered(ts, us, keep)
    PROVE  /\ Envs(us) = IF keep THEN Updated(Envs(ts), Len(Envs(ts)), EnvOf(us[Len(us)]))
                         ELSE Append(Envs(ts), EnvOf(us[Len(us)]))
           /\ Envs(ts)[Len(Envs(ts))] = EnvOf(ts[Len(ts)])
           /\ EnvOf(us[Len(us)]) \in [Name -> Value]
<1>1. AllGood(ts) /\ AllGood(us) /\ Len(ts) >= 1
  BY DEF Entered
<1>2. /\ Len(ts) \in Nat /\ Len(Envs(ts)) = Len(ts) /\ Len(ts) \in 1 .. Len(ts)
      /\ Envs(ts)[Len(ts)] = EnvOf(ts[Len(ts)])
  BY <1>1, EnvsAre
<1>3. DOMAIN us = 1 .. Len(us) /\ Len(us) \in Nat
  BY <1>1, EnvsAre
<1>4. Len(us) \in DOMAIN us
  <2>1. Len(us) = Len(ts) \/ Len(us) = Len(ts) + 1
    BY DEF Entered
  <2>2. Len(us) >= 1
    BY <1>1, <1>2, <2>1
  <2> QED  BY <1>3, <2>2
<1>5. EnvOf(us[Len(us)]) \in [Name -> Value]
  BY <1>1, <1>4, EnvType DEF AllGood
<1>6. CASE keep
  <2>1. Len(us) = Len(ts) /\ \A k \in 1 .. Len(ts) : k # Len(ts) => us[k] = ts[k]
    BY <1>6 DEF Entered
  <2>2. Envs(us) = Updated(Envs(ts), Len(ts), EnvOf(us[Len(ts)]))
    BY <1>1, <1>2, <2>1, EnvsChanged
  <2> QED  BY <1>2, <1>5, <1>6, <2>1, <2>2
<1>7. CASE ~keep
  <2>1. Len(us) = Len(ts) + 1
    BY <1>7 DEF Entered
  <2>2. \A k \in 1 .. Len(ts) : us[k] = ts[k]
    BY <1>2, <2>1 DEF Entered
  <2>3. Envs(us) = Append(Envs(ts), EnvOf(us[Len(us)]))
    BY <1>1, <2>1, <2>2, EnvsAppended
  <2> QED  BY <1>2, <1>5, <1>7, <2>3
<1> QED  BY <1>6, <1>7

\* A call is made when all its arguments are bound.
LEMMA CallMade ==
    ASSUME NEW f \in Func, NEW keep \in BOOLEAN, NEW as, NEW n \in 0 .. MaxArgs[f],
           as \in [1 .. n -> Name], NEW ts, NEW us, TablesNow = ts, TablesNow' = us,
           Entered(ts, us, keep),
           BoundTo(EnvOf(us[Len(us)]), EnvOf(ts[Len(ts)]), f, as, n),
           FramesNow' = Append(FramesNow, [f |-> f, keep |-> keep, as |-> as]),
           StNow' = StNow
    PROVE  Env!Next
<1> DEFINE b  == EnvOf(us[Len(us)])
<1>1. EnvNow = Envs(ts) /\ EnvNow' = Envs(us)
  BY DEF EnvNow
<1>2. /\ Envs(us) = IF keep THEN Updated(Envs(ts), Len(Envs(ts)), b) ELSE Append(Envs(ts), b)
      /\ Envs(ts)[Len(Envs(ts))] = EnvOf(ts[Len(ts)])
      /\ b \in [Name -> Value]
  BY EnteredIs
<1> HIDE DEF b
<1>3. n \in Nat /\ DOMAIN as = 1 .. n
  OBVIOUS
<1>4. BoundTo(b, EnvNow[Len(EnvNow)], f, as, n)
  BY <1>1, <1>2 DEF b
<1>5. b = Env!Bound(f, as)
  BY <1>2, <1>3, <1>4, BoundIs
<1>6. EnvNow' = IF keep THEN [EnvNow EXCEPT ![Len(EnvNow)] = b] ELSE Append(EnvNow, b)
  BY <1>1, <1>2 DEF Updated
<1> QED  BY <1>5, <1>6, EnvCalls

LEMMA FrontAppended ==
    ASSUME NEW S, NEW s \in Seq(S), NEW x \in S
    PROVE  Front(Append(s, x)) = s
<1> DEFINE t == Append(s, x)
           u == SubSeq(t, 1, Len(t) - 1)
<1>1. t \in Seq(S) /\ Len(t) = Len(s) + 1 /\ Len(s) \in Nat /\ \A k \in 1 .. Len(s) : t[k] = s[k]
  OBVIOUS
<1> HIDE DEF t
<1>2. Len(t) - 1 \in 0 .. Len(t)
  BY <1>1
<1>3. u \in Seq(S) /\ Len(u) = Len(s) /\ \A k \in 1 .. Len(s) : u[k] = t[k]
  <2>1. u \in Seq(S) /\ Len(u) = Len(t) - 1 /\ \A k \in 1 .. Len(t) - 1 : u[k] = t[k]
    BY <1>1, <1>2, Cut
  <2> QED  BY <1>1, <2>1
<1> HIDE DEF u
<1>4. u = s
  BY <1>1, <1>3, SameSeq
<1> QED  BY <1>4 DEF u, t, Front

LEMMA CallRefines ==
    ASSUME RInv, NEW f \in Func, NEW keep \in BOOLEAN, NEW args \in Lists(f),
           Plain(f, args), Call(f, keep, args)
    PROVE  RInv' /\ (Env!Next \/ UNCHANGED Env!vars)
<1> DEFINE c == [f |-> f, keep |-> keep, args |-> args, at |-> <<>>,
                 old |-> IF keep THEN <<>> ELSE Table]
<1>1. /\ tables' = (IF keep THEN tables ELSE Append(tables, Copied(Table)))
      /\ calls' = Append(calls, c)
      /\ pc = "body" /\ pc' = (IF args = <<>> THEN "body" ELSE "bind")
      /\ before' = (IF args = <<>> THEN <<>> ELSE tables)
  BY DEF Call
<1>2. IInv /\ IInv' /\ AllGood(tables) /\ AllGood(tables')
  <2>1. IInv /\ IInv'
    BY CallStep DEF RInv
  <2>2. AllGood(tables')
    BY <2>1 DEF IInv, TablesInv, AllGood
  <2> QED  BY <2>1, <2>2, TablesGood
<1>3. PICK n \in 0 .. MaxArgs[f] : args \in [1 .. n -> Index]
  BY DEF Lists
<1>4. /\ n \in Nat /\ args \in Seq(Index) /\ Len(args) = n /\ DOMAIN args = 1 .. n
      /\ (args = <<>> <=> n = 0)
  <2>1. MaxArgs[f] \in Nat
    BY BoundAssumption
  <2>2. n \in Nat /\ args \in Seq(Index) /\ Len(args) = n /\ DOMAIN args = 1 .. n
    BY <1>3, <2>1
  <2>3. args = <<>> <=> n = 0
    BY <2>2
  <2> QED  BY <2>2, <2>3
<1>5. /\ c.f = f /\ c.keep = keep /\ c.args = args /\ c.at = <<>>
  OBVIOUS
<1>6. c \in Call_
  <2>1. (IF keep THEN <<>> ELSE Table) \in Seq(Variable)
    BY <1>2, TopFacts DEF Good
  <2>2. <<>> \in Seq(1 .. MAX_VARS)
    OBVIOUS
  <2> QED  BY <1>4, <2>1, <2>2 DEF Call_
<1> HIDE DEF c
<1>7. /\ calls \in Seq(Call_) /\ Len(calls) \in Nat
      /\ calls' \in Seq(Call_) /\ Len(calls') = Len(calls) + 1 /\ calls'[Len(calls')] = c
      /\ \A k \in 1 .. Len(calls) : calls'[k] = calls[k]
      /\ calls' # <<>> /\ Top' = c /\ Front(calls') = calls
  <2>1. calls \in Seq(Call_)
    BY <1>2 DEF IInv, CallInv
  <2>2. Front(calls') = calls
    BY <1>1, <1>6, <2>1, FrontAppended
  <2> QED  BY <1>1, <1>6, <2>1, <2>2 DEF Top
<1>8. FramesOf(calls') = Append(FramesOf(calls), Frame(c))
  BY <1>7, FramesAppended
<1>9. ~Half
  BY <1>1, <1>2, HalfFacts
<1>10. Half' <=> n > 0
  <2>1. Len(c.at) = 0 /\ Len(c.args) = n
    BY <1>4, <1>5
  <2>2. Half' <=> Len(c.at) < Len(c.args)
    BY <1>7 DEF Half
  <2> QED  BY <1>4, <2>1, <2>2
<1>11. /\ Entered(tables, tables', keep) /\ Len(tables) \in Nat
       /\ EnvOf(tables'[Len(tables')]) = EnvOf(Table) /\ Good(Table)
       /\ Len(tables') = (IF keep THEN Len(tables) ELSE Len(tables) + 1)
  <2>1. Good(Table) /\ Len(tables) \in Nat /\ Len(tables) >= 1 /\ tables \in Seq(Seq(Variable))
    BY <1>2, TopFacts DEF AllGood
  <2>2. CASE keep
    <3>1. tables' = tables
      BY <1>1, <2>2
    <3> QED  BY <1>2, <2>1, <2>2, <3>1 DEF Entered, Table
  <2>3. CASE ~keep
    <3>1. tables' = Append(tables, Copied(Table)) /\ Copied(Table) \in Seq(Variable)
      BY <1>1, <2>1, <2>3, GoodCopied DEF Good
    <3>2. /\ Len(tables') = Len(tables) + 1 /\ tables'[Len(tables')] = Copied(Table)
          /\ \A m \in 1 .. Len(tables) : tables'[m] = tables[m]
      BY <2>1, <3>1
    <3>3. EnvOf(Copied(Table)) = EnvOf(Table)
      BY <2>1, EnvCopied
    <3> QED  BY <1>2, <2>1, <2>3, <3>2, <3>3 DEF Entered
  <2> QED  BY <2>2, <2>3
<1>12. PlainInv'
  <2>1. ASSUME NEW i \in DOMAIN args, NEW j \in DOMAIN args, j # i
        PROVE  Parsed[args[i]] # Formal(f, j)
    BY <2>1 DEF Plain
  <2>2. ASSUME NEW k \in DOMAIN calls', NEW i \in DOMAIN calls'[k].args, NEW j \in DOMAIN calls'[k].args, j # i
        PROVE  Parsed[calls'[k].args[i]] # Formal(calls'[k].f, j)
    <3>1. CASE k = Len(calls')
      <4>1. calls'[k].args = args /\ calls'[k].f = f
        BY <1>5, <1>7, <3>1
      <4> QED  BY <2>1, <2>2, <4>1
    <3>2. CASE k # Len(calls')
      <4>1. k \in DOMAIN calls /\ calls'[k] = calls[k]
        BY <1>7, <3>2
      <4> QED  BY <2>2, <4>1 DEF RInv, PlainInv
    <3> QED  BY <3>1, <3>2
  <2> QED  BY <2>2 DEF PlainInv
<1>13. BackInv'
  BY <1>1 DEF BackInv
<1>14. StNow' = StNow /\ TablesNow = tables /\ FramesNow = FramesOf(calls)
  BY <1>1, <1>9 DEF StNow, TablesNow, FramesNow, CallsNow
<1>15. CASE n = 0
  <2>1. pc' = "body" /\ args = <<>>
    BY <1>1, <1>4, <1>15
  <2>2. TablesNow' = tables'
    BY <2>1 DEF TablesNow
  <2>3. FramesNow' = Append(FramesNow, Frame(c))
    BY <1>8, <1>10, <1>14, <1>15 DEF FramesNow, CallsNow
  <2>4. Frame(c) = [f |-> f, keep |-> keep, as |-> Passes(c)]
    BY <1>5 DEF Frame, Passes
  <2>5. Passes(c) \in [1 .. n -> Name]
    BY <1>3, <1>5, ParsedNames DEF Passes
  <2>6. BoundTo(EnvOf(tables'[Len(tables')]), EnvOf(tables[Len(tables)]), f, Passes(c), n)
    BY <1>11, <1>15 DEF BoundTo, Table
  <2>7. Env!Next
    BY <1>11, <1>14, <2>2, <2>3, <2>4, <2>5, <2>6, CallMade
  <2>8. BindInv'
    BY <2>1 DEF BindInv
  <2> QED  BY <1>2, <1>12, <1>13, <2>7, <2>8 DEF RInv
<1>16. CASE n # 0
  <2>1. pc' = "bind" /\ before' = tables /\ n > 0
    BY <1>1, <1>4, <1>16
  <2>2. EnvNow' = EnvNow
    BY <1>14, <2>1 DEF EnvNow, TablesNow
  <2>3. FramesNow' = FramesNow
    BY <1>7, <1>10, <1>14, <2>1 DEF FramesNow, CallsNow
  <2>4. BindInv'
    <3>1. AllGood(before')
      BY <1>2, <2>1
    <3>2. Len(before') = Caller'
      BY <1>5, <1>7, <1>11, <2>1 DEF Caller
    <3>3. \A m \in 1 .. Len(before') : m # Len(tables') => tables'[m] = before'[m]
      BY <1>11, <2>1 DEF Entered
    <3>4. EnvOf(Table') = EnvOf(Table) /\ Given' = EnvOf(Table)
      BY <1>11, <2>1 DEF Table, Given
    <3>5. Len(Top'.at) = 0
      BY <1>5, <1>7
    <3>6. BoundTo(EnvOf(Table'), Given', Top'.f, Passes(Top'), Len(Top'.at))
      BY <3>4, <3>5 DEF BoundTo
    <3>7. ASSUME NEW i \in DOMAIN args PROVE ~EnvOf(Table)[Parsed[args[i]]].more
      <4>1. args[i] \in Index /\ args[i] \in DOMAIN Table
        BY <1>4, <1>11, ParsedNames DEF Good
      <4>2. Table[args[i]].name = Parsed[args[i]]
        BY <1>11, <4>1 DEF Good
      <4>3. EnvOf(Table)[Parsed[args[i]]] = Table[args[i]].val
        BY <1>11, <4>1, <4>2, EnvFound
      <4> QED  BY <4>3 DEF Plain
    <3> QED  BY <1>5, <1>7, <3>1, <3>2, <3>3, <3>4, <3>6, <3>7 DEF BindInv
  <2> QED  BY <1>2, <1>12, <1>13, <1>14, <2>2, <2>3, <2>4, EnvStutters DEF RInv
<1> QED  BY <1>15, <1>16

\* The name of what was passed has its value in the table; the formal of an argument
\* that is bound, too.
LEMMA TopNames ==
    ASSUME IInv, calls # <<>>
    PROVE  /\ Top \in Call_ /\ Top.f \in Func /\ Top.keep \in BOOLEAN /\ Top.args \in Seq(Index)
           /\ Len(Top.args) \in Nat /\ Len(Top.args) <= MaxArgs[Top.f] /\ MaxArgs[Top.f] \in Nat
           /\ Len(Top.at) \in Nat /\ DOMAIN Top.args = 1 .. Len(Top.args)
           /\ DOMAIN Top.at = 1 .. Len(Top.at)
           /\ Passes(Top) \in [1 .. Len(Top.args) -> Name]
           /\ \A i \in 1 .. Len(Top.args) : Passes(Top)[i] = Parsed[Top.args[i]] /\ Top.args[i] \in Index
           /\ \A t : Good(t) => \A i \in 1 .. Len(Top.args) :
                 /\ Top.args[i] \in DOMAIN t /\ t[Top.args[i]].name = Passes(Top)[i]
                 /\ EnvOf(t)[Passes(Top)[i]] = t[Top.args[i]].val
           /\ \A i \in 1 .. Len(Top.at) : EnvOf(Table)[Formal(Top.f, i)] = Table[Top.at[i]].val
<1>1. /\ Len(calls) \in DOMAIN calls /\ Top = calls[Len(calls)] /\ Top \in Call_ /\ Good(Table)
      /\ Lev(calls, Len(calls)) = Len(tables)
  BY TopFacts
<1>2. /\ Top.f \in Func /\ Top.keep \in BOOLEAN /\ Top.args \in Seq(Index)
      /\ Top.at \in Seq(1 .. MAX_VARS)
  BY <1>1 DEF Call_
<1>3. /\ Len(Top.args) \in Nat /\ DOMAIN Top.args = 1 .. Len(Top.args)
      /\ Len(Top.at) \in Nat /\ DOMAIN Top.at = 1 .. Len(Top.at)
  BY <1>2
<1>4. Len(Top.args) <= MaxArgs[Top.f] /\ MaxArgs[Top.f] \in Nat
  BY <1>1, <1>2, BoundAssumption DEF IInv, CallInv
<1>5. \A i \in 1 .. Len(Top.args) : Passes(Top)[i] = Parsed[Top.args[i]] /\ Top.args[i] \in Index
  BY <1>2, <1>3 DEF Passes
<1>6. Passes(Top) \in [1 .. Len(Top.args) -> Name]
  BY <1>3, <1>5, ParsedNames DEF Passes
<1>7. ASSUME NEW t, Good(t), NEW i \in 1 .. Len(Top.args)
      PROVE  /\ Top.args[i] \in DOMAIN t /\ t[Top.args[i]].name = Passes(Top)[i]
             /\ EnvOf(t)[Passes(Top)[i]] = t[Top.args[i]].val
  <2>1. Top.args[i] \in DOMAIN t /\ t[Top.args[i]].name = Passes(Top)[i]
    BY <1>5, <1>7, ParsedNames DEF Good
  <2> QED  BY <1>7, <2>1, EnvFound
<1>8. ASSUME NEW i \in 1 .. Len(Top.at)
      PROVE  EnvOf(Table)[Formal(Top.f, i)] = Table[Top.at[i]].val
  <2>1. Noted(Table, Top)
    BY <1>1 DEF IInv, AtInv, Table
  <2>2. Top.at[i] \in DOMAIN Table /\ Table[Top.at[i]].name = Formal(Top.f, i)
    BY <1>3, <2>1 DEF Noted
  <2> QED  BY <1>1, <2>2, EnvFound
<1> QED  BY <1>1, <1>2, <1>3, <1>4, <1>5, <1>6, <1>7, <1>8

\* One more argument is bound.
LEMMA BoundNext ==
    ASSUME NEW b \in [Name -> Value], NEW e, NEW f \in Func, NEW as, NEW n \in Nat,
           n + 1 <= MaxArgs[f], MaxArgs[f] \in Nat, BoundTo(b, e, f, as, n)
    PROVE  BoundTo(Updated(b, Formal(f, n + 1), e[as[n + 1]]), e, f, as, n + 1)
<1> DEFINE c == [b EXCEPT ![Formal(f, n + 1)] = e[as[n + 1]]]
<1>1. n + 1 \in 1 .. MaxArgs[f] /\ Formal(f, n + 1) \in Name
  BY FormalNames
<1>2. c[Formal(f, n + 1)] = e[as[n + 1]] /\ \A x \in Name : x # Formal(f, n + 1) => c[x] = b[x]
  BY <1>1
<1> HIDE DEF c
<1>3. ASSUME NEW i \in 1 .. n + 1 PROVE c[Formal(f, i)] = e[as[i]]
  <2>1. CASE i = n + 1
    BY <1>2, <2>1
  <2>2. CASE i # n + 1
    <3>1. i \in 1 .. n /\ i \in 1 .. MaxArgs[f]
      BY <2>2
    <3>2. Formal(f, i) \in Name /\ Formal(f, i) # Formal(f, n + 1)
      BY <1>1, <2>2, <3>1, FormalNames, FormalAssumption
    <3> QED  BY <1>2, <3>1, <3>2 DEF BoundTo
  <2> QED  BY <2>1, <2>2
<1>4. ASSUME NEW x \in Name, \A i \in 1 .. n + 1 : x # Formal(f, i) PROVE c[x] = e[x]
  <2>1. x # Formal(f, n + 1) /\ \A i \in 1 .. n : x # Formal(f, i)
    <3>1. n + 1 \in 1 .. n + 1 /\ \A i \in 1 .. n : i \in 1 .. n + 1
      OBVIOUS
    <3> QED  BY <1>4, <3>1
  <2> QED  BY <1>2, <2>1 DEF BoundTo
<1>5. BoundTo(c, e, f, as, n + 1)
  BY <1>3, <1>4 DEF BoundTo
<1> QED  BY <1>5 DEF c, Updated

\* One more argument is handed back.
LEMMA HandedNext ==
    ASSUME NEW h \in [Name -> Value], NEW e, NEW b, NEW f, NEW as, NEW n \in Nat,
           NEW m \in Nat, m = n + 1, as[m] \in Name, HandedTo(h, e, b, f, as, n)
    PROVE  HandedTo(Updated(h, as[m], b[Formal(f, m)]), e, b, f, as, m)
<1> DEFINE g == [h EXCEPT ![as[m]] = b[Formal(f, m)]]
<1>1. g[as[m]] = b[Formal(f, m)] /\ \A x \in Name : x # as[m] => g[x] = h[x]
  OBVIOUS
<1> HIDE DEF g
<1>2. /\ m \in 1 .. m /\ \A i \in 1 .. m : i <= m
      /\ \A i \in 1 .. n : i \in 1 .. m
      /\ \A i \in 1 .. m : i # m => i \in 1 .. n
  OBVIOUS
<1>3. ASSUME NEW x \in Name
      PROVE  \/ \E i \in 1 .. m : LastOf(as, m, x, i) /\ g[x] = b[Formal(f, i)]
             \/ g[x] = e[x] /\ \A i \in 1 .. m : x # as[i]
  <2>1. CASE x = as[m]
    <3>1. LastOf(as, m, x, m)
      BY <1>2, <2>1 DEF LastOf
    <3>2. g[x] = b[Formal(f, m)]
      BY <1>1, <2>1
    <3> QED  BY <1>2, <3>1, <3>2
  <2>2. CASE x # as[m]
    <3>1. g[x] = h[x] /\ \A i \in 1 .. m : x = as[i] => i \in 1 .. n
      BY <1>1, <1>2, <2>2
    <3>2. CASE \E i \in 1 .. n : LastOf(as, n, x, i) /\ h[x] = b[Formal(f, i)]
      <4>1. PICK i \in 1 .. n : LastOf(as, n, x, i) /\ h[x] = b[Formal(f, i)]
        BY <3>2
      <4>2. x = as[i] /\ \A j \in 1 .. n : x = as[j] => j <= i
        BY <4>1 DEF LastOf
      <4>3. i \in 1 .. m /\ \A j \in 1 .. m : x = as[j] => j <= i
        BY <1>2, <3>1, <4>2
      <4>4. LastOf(as, m, x, i)
        BY <4>2, <4>3 DEF LastOf
      <4> QED  BY <3>1, <4>1, <4>3, <4>4
    <3>3. CASE h[x] = e[x] /\ \A i \in 1 .. n : x # as[i]
      BY <3>1, <3>3
    <3> QED  BY <3>2, <3>3 DEF HandedTo
  <2> QED  BY <2>1, <2>2
<1>4. HandedTo(g, e, b, f, as, m)
  BY <1>3 DEF HandedTo
<1> QED  BY <1>4 DEF g, Updated

\* What Bind has done, when there was room for the variable.
LEMMA BindFacts ==
    ASSUME RInv, Bind, ~Exit, NEW n, n = Len(Top.at)
    PROVE  /\ pc = "bind" /\ calls # <<>> /\ n \in Nat /\ n + 1 <= Len(Top.args)
           /\ pc' = (IF n + 1 = Len(Top.args) THEN "body" ELSE "bind")
           /\ before' = (IF n + 1 = Len(Top.args) THEN <<>> ELSE before)
           /\ AllGood(tables) /\ AllGood(tables') /\ Len(tables') = Len(tables)
           /\ \A m \in 1 .. Len(tables) : m # Len(tables) => tables'[m] = tables[m]
           /\ EnvOf(Table') = Updated(EnvOf(Table), Formal(Top.f, n + 1), Given[Passes(Top)[n + 1]])
           /\ calls \in Seq(Call_) /\ calls' \in Seq(Call_) /\ Len(calls') = Len(calls)
           /\ \A k \in 1 .. Len(calls) - 1 : calls'[k] = calls[k]
           /\ Top'.f = Top.f /\ Top'.keep = Top.keep /\ Top'.args = Top.args /\ Len(Top'.at) = n + 1
<1> DEFINE v == Passed(Table[Top.args[n + 1]].val)
           x == Formal(Top.f, n + 1)
           i == Slot(Table, x)
           u == IF i \in DOMAIN Table THEN [Table EXCEPT ![i].val = v]
                ELSE Append(Table, [name |-> x, val |-> v, constant |-> FALSE])
<1>1. /\ pc = "bind" /\ tables' = [tables EXCEPT ![Len(tables)] = u]
      /\ calls' = [calls EXCEPT ![Len(calls)].at = Append(@, i)]
      /\ pc' = (IF n + 1 = Len(Top.args) THEN "body" ELSE "bind")
      /\ before' = (IF n + 1 = Len(Top.args) THEN <<>> ELSE before)
  BY DEF Bind
<1>2. IInv /\ IInv' /\ AllGood(tables) /\ AllGood(tables') /\ calls # <<>> /\ Len(Top.at) < Len(Top.args)
  <2>1. IInv /\ IInv'
    BY BindStep DEF RInv
  <2>2. AllGood(tables')
    BY <2>1 DEF IInv, TablesInv, AllGood
  <2> QED  BY <1>1, <2>1, <2>2, TablesGood DEF IInv, PcInv
<1>3. /\ Len(tables) \in Nat /\ Len(tables) >= 1 /\ tables \in Seq(Seq(Variable)) /\ Good(Table)
      /\ DOMAIN tables' = 1 .. Len(tables') /\ Len(tables) \in DOMAIN tables
  BY <1>2, TopFacts DEF AllGood
<1>4. /\ Top \in Call_ /\ Top.f \in Func /\ n \in Nat /\ n + 1 \in 1 .. Len(Top.args)
      /\ n + 1 \in 1 .. MaxArgs[Top.f] /\ x \in Name
      /\ Table[Top.args[n + 1]] \in Variable
      /\ EnvOf(Table)[Passes(Top)[n + 1]] = Table[Top.args[n + 1]].val
      /\ Passes(Top)[n + 1] = Parsed[Top.args[n + 1]] /\ Passes(Top)[n + 1] \in Name
      /\ Top.at \in Seq(1 .. MAX_VARS)
  <2>1. /\ Top \in Call_ /\ Top.f \in Func /\ n \in Nat /\ Len(Top.args) \in Nat
        /\ Len(Top.args) <= MaxArgs[Top.f] /\ MaxArgs[Top.f] \in Nat
    BY <1>2, TopNames
  <2>2. n + 1 \in 1 .. Len(Top.args) /\ n + 1 \in 1 .. MaxArgs[Top.f]
    BY <1>2, <2>1
  <2>3. /\ Top.args[n + 1] \in DOMAIN Table
        /\ EnvOf(Table)[Passes(Top)[n + 1]] = Table[Top.args[n + 1]].val
    BY <1>2, <1>3, <2>2, TopNames
  <2>4. Table[Top.args[n + 1]] \in Variable
    BY <1>3, <2>3 DEF Good
  <2>5. Passes(Top)[n + 1] = Parsed[Top.args[n + 1]] /\ Passes(Top)[n + 1] \in Name
    BY <1>2, <2>2, TopNames
  <2>6. x \in Name
    BY <2>1, <2>2, FormalNames
  <2> QED  BY <2>1, <2>2, <2>3, <2>4, <2>5, <2>6 DEF Call_
<1>5. v = Given[Passes(Top)[n + 1]]
  <2>1. ASSUME NEW j \in 1 .. n PROVE Passes(Top)[n + 1] # Formal(Top.f, j)
    <3>1. /\ Len(calls) \in DOMAIN calls /\ Top = calls[Len(calls)]
          /\ DOMAIN Top.args = 1 .. Len(Top.args) /\ Len(Top.args) \in Nat
      BY <1>2, TopFacts, TopNames
    <3>2. j \in DOMAIN Top.args /\ n + 1 \in DOMAIN Top.args /\ j # n + 1
      BY <1>4, <3>1
    <3> QED  BY <1>4, <3>1, <3>2 DEF RInv, PlainInv
  <2>2. EnvOf(Table)[Passes(Top)[n + 1]] = Given[Passes(Top)[n + 1]]
    BY <1>1, <1>4, <2>1 DEF RInv, BindInv, BoundTo
  <2>3. ~Given[Passes(Top)[n + 1]].more
    <3>1. n + 1 \in DOMAIN Top.args
      BY <1>2, <1>4, TopNames
    <3> QED  BY <1>1, <1>4, <3>1 DEF RInv, BindInv
  <2>4. Table[Top.args[n + 1]].val \in Value /\ ~Table[Top.args[n + 1]].val.more
    BY <1>4, <2>2, <2>3 DEF Variable
  <2>5. Passed(Table[Top.args[n + 1]].val) = Table[Top.args[n + 1]].val
    BY <2>4 DEF Passed, Value
  <2> QED  BY <1>4, <2>2, <2>5
<1>6. v \in Value
  <2>1. Table[Top.args[n + 1]].val \in Value
    BY <1>4 DEF Variable
  <2> QED  BY <2>1, PassedValue
<1>7. /\ i \in DOMAIN u /\ u[i].name = x /\ u[i].val = v /\ u \in Seq(Variable)
      /\ \A j \in DOMAIN Table : j # i => j \in DOMAIN u /\ u[j].name = Table[j].name /\ u[j].val = Table[j].val
      /\ \A j \in DOMAIN u : j # i => j \in DOMAIN Table
      /\ i \in DOMAIN Table => u[i].name = Table[i].name
      /\ i \in 1 .. MAX_VARS
  <2>1. /\ Len(Table) \in Nat /\ DOMAIN Table = 1 .. Len(Table) /\ Table \in Seq(Variable)
        /\ Len(Table) <= MAX_VARS /\ MAX_VARS \in Nat
    BY <1>3, BoundAssumption DEF Good
  <2>2. ~(i > MAX_VARS)
    BY DEF Bind
  <2> HIDE DEF v, x, i
  <2>3. CASE i \in DOMAIN Table
    <3>1. u = [Table EXCEPT ![i].val = v] /\ Table[i] \in Variable /\ Table[i].name = x
      BY <1>3, <2>1, <2>3, SlotFound DEF i
    <3>2. [Table[i] EXCEPT !.val = v] \in Variable
      BY <1>6, <3>1 DEF Variable
    <3>3. u[i] = [Table[i] EXCEPT !.val = v] /\ u[i].name = Table[i].name /\ u[i].val = v
      BY <2>3, <3>1 DEF Variable
    <3> HIDE DEF u
    <3>4. DOMAIN u = DOMAIN Table /\ \A j \in DOMAIN Table : j # i => u[j] = Table[j]
      BY <2>3, <3>1
    <3>5. u \in Seq(Variable)
      <4>1. u = [Table EXCEPT ![i] = u[i]]
        BY <3>1, <3>3
      <4> QED  BY <2>1, <2>3, <3>2, <3>3, <4>1
    <3> QED  BY <2>1, <2>3, <3>1, <3>3, <3>4, <3>5
  <2>4. CASE i \notin DOMAIN Table
    <3> DEFINE y == [name |-> x, val |-> v, constant |-> FALSE]
    <3>1. i = Len(Table) + 1 /\ u = Append(Table, y)
      BY <1>3, <2>4, SlotFound DEF i
    <3>2. y \in Variable /\ y.name = x /\ y.val = v
      BY <1>4, <1>6 DEF Variable, x
    <3> HIDE DEF u, y
    <3>3. /\ DOMAIN u = DOMAIN Table \cup {i} /\ u[i] = y /\ u \in Seq(Variable)
          /\ \A j \in DOMAIN Table : u[j] = Table[j]
      BY <2>1, <3>1, <3>2
    <3>4. i \in 1 .. MAX_VARS
      BY <2>1, <2>2, <3>1
    <3> QED  BY <2>4, <3>2, <3>3, <3>4
  <2> QED  BY <2>3, <2>4
<1> HIDE DEF u, i, v
<1>8. /\ Len(tables') = Len(tables) /\ tables'[Len(tables)] = u /\ Table' = u
      /\ \A m \in 1 .. Len(tables) : m # Len(tables) => tables'[m] = tables[m]
  <2>1. /\ Len(tables') = Len(tables) /\ tables'[Len(tables)] = u
        /\ \A m \in 1 .. Len(tables) : m # Len(tables) => tables'[m] = tables[m]
    BY <1>1, <1>3, <1>7
  <2> QED  BY <2>1 DEF Table
<1>9. Good(u)
  <2>1. Len(tables') = Len(tables)
    BY <1>8
  <2>2. Len(tables) \in DOMAIN tables'
    BY <1>3, <2>1
  <2> QED  BY <1>2, <1>8, <2>2 DEF AllGood
<1>10. EnvOf(Table') = Updated(EnvOf(Table), x, Given[Passes(Top)[n + 1]])
  <2>1. EnvOf(u) = [EnvOf(Table) EXCEPT ![u[i].name] = u[i].val]
    BY <1>3, <1>7, <1>9, EnvSet
  <2> QED  BY <1>5, <1>7, <1>8, <2>1 DEF Updated
<1>11. /\ calls \in Seq(Call_) /\ calls' \in Seq(Call_) /\ Len(calls') = Len(calls)
       /\ \A k \in 1 .. Len(calls) - 1 : calls'[k] = calls[k]
       /\ Top'.f = Top.f /\ Top'.keep = Top.keep /\ Top'.args = Top.args /\ Len(Top'.at) = n + 1
  <2> DEFINE d == [Top EXCEPT !.at = Append(@, i)]
  <2>1. calls \in Seq(Call_) /\ Len(calls) \in Nat /\ Len(calls) >= 1 /\ Top = calls[Len(calls)]
    BY <1>2, TopFacts DEF IInv, CallInv
  <2>2. calls' = [calls EXCEPT ![Len(calls)] = d]
    BY <1>1, <2>1
  <2>3. d.f = Top.f /\ d.keep = Top.keep /\ d.args = Top.args /\ d.at = Append(Top.at, i)
    BY <1>4 DEF Call_
  <2>4. d \in Call_ /\ Len(d.at) = n + 1
    <3>1. Append(Top.at, i) \in Seq(1 .. MAX_VARS) /\ Len(Append(Top.at, i)) = n + 1
      BY <1>4, <1>7
    <3> QED  BY <1>4, <2>3, <3>1 DEF Call_
  <2> HIDE DEF d
  <2>5. /\ calls' \in Seq(Call_) /\ Len(calls') = Len(calls) /\ calls'[Len(calls)] = d
        /\ \A k \in 1 .. Len(calls) - 1 : calls'[k] = calls[k]
    BY <2>1, <2>2, <2>4
  <2>6. Top' = d
    BY <2>5 DEF Top
  <2> QED  BY <2>1, <2>3, <2>4, <2>5, <2>6
<1> QED  BY <1>1, <1>2, <1>4, <1>8, <1>10, <1>11 DEF x

LEMMA BindRefines ==
    ASSUME RInv, Bind
    PROVE  RInv' /\ (Env!Next \/ UNCHANGED Env!vars)
<1>1. CASE Exit
  BY <1>1, ExitRefines
<1>2. CASE ~Exit
  <2> DEFINE n  == Len(Top.at)
             e  == Given
             as == Passes(Top)
  <2>1. IInv /\ IInv'
    BY BindStep DEF RInv
  <2>2. /\ pc = "bind" /\ calls # <<>> /\ n \in Nat /\ n + 1 <= Len(Top.args)
        /\ pc' = (IF n + 1 = Len(Top.args) THEN "body" ELSE "bind")
        /\ before' = (IF n + 1 = Len(Top.args) THEN <<>> ELSE before)
    BY <1>2, BindFacts
  <2>3. /\ AllGood(tables) /\ AllGood(tables') /\ Len(tables') = Len(tables)
        /\ \A m \in 1 .. Len(tables) : m # Len(tables) => tables'[m] = tables[m]
        /\ EnvOf(Table') = Updated(EnvOf(Table), Formal(Top.f, n + 1), e[as[n + 1]])
    BY <1>2, BindFacts
  <2>4. /\ calls \in Seq(Call_) /\ calls' \in Seq(Call_) /\ Len(calls') = Len(calls)
        /\ \A k \in 1 .. Len(calls) - 1 : calls'[k] = calls[k]
        /\ Top'.f = Top.f /\ Top'.keep = Top.keep /\ Top'.args = Top.args /\ Len(Top'.at) = n + 1
    BY <1>2, BindFacts
  <2>5. /\ AllGood(before) /\ Len(before) = Caller
        /\ \A m \in 1 .. Len(before) : m # Len(tables) => tables[m] = before[m]
        /\ BoundTo(EnvOf(Table), e, Top.f, as, n)
        /\ \A i \in DOMAIN Top.args : ~e[Parsed[Top.args[i]]].more
    BY <2>2 DEF RInv, BindInv
  <2>6. /\ Top \in Call_ /\ Top.f \in Func /\ Top.keep \in BOOLEAN
        /\ Len(Top.args) \in Nat /\ Len(Top.args) <= MaxArgs[Top.f] /\ MaxArgs[Top.f] \in Nat
        /\ as \in [1 .. Len(Top.args) -> Name]
    BY <2>1, <2>2, TopNames
  <2>7. EnvOf(Table) \in [Name -> Value] /\ Len(tables) \in Nat /\ Len(tables) >= 1
        /\ Len(calls) \in Nat /\ Len(calls) >= 1 /\ Len(calls) \in DOMAIN calls
        /\ Top = calls[Len(calls)] /\ Lev(calls, Len(calls)) = Len(tables)
    BY <2>1, <2>2, TopFacts, EnvType
  <2> HIDE DEF e, as
  <2>8. BoundTo(EnvOf(Table'), e, Top.f, as, n + 1)
    <3>1. n + 1 <= MaxArgs[Top.f]
      BY <2>2, <2>6
    <3> DEFINE b == EnvOf(Table)
               f == Top.f
    <3>2. b \in [Name -> Value] /\ f \in Func /\ n \in Nat /\ MaxArgs[f] \in Nat /\ n + 1 <= MaxArgs[f]
          /\ BoundTo(b, e, f, as, n) /\ EnvOf(Table') = Updated(b, Formal(f, n + 1), e[as[n + 1]])
      BY <2>2, <2>3, <2>5, <2>6, <2>7, <3>1
    <3> HIDE DEF n, b, f
    <3>3. BoundTo(Updated(b, Formal(f, n + 1), e[as[n + 1]]), e, f, as, n + 1)
      BY <3>2, BoundNext
    <3> QED  BY <3>2, <3>3 DEF f
  <2>9. Passes(Top') = as
    BY <2>4 DEF Passes, as
  <2>10. Half
    BY <2>1, <2>2, HalfFacts
  <2>11. FramesNow = FramesOf(Front(calls)) /\ TablesNow = before /\ StNow = "run"
    BY <2>2, <2>10 DEF FramesNow, CallsNow, TablesNow, StNow
  <2>12. PlainInv'
    <3>1. ASSUME NEW k \in DOMAIN calls'
          PROVE  k \in DOMAIN calls /\ calls'[k].args = calls[k].args /\ calls'[k].f = calls[k].f
      <4>1. k \in 1 .. Len(calls) /\ k \in DOMAIN calls /\ Top' = calls'[Len(calls)]
        BY <2>4 DEF Top
      <4>2. CASE k = Len(calls)
        BY <2>4, <2>7, <4>1, <4>2
      <4>3. CASE k # Len(calls)
        BY <2>4, <2>7, <4>1, <4>3
      <4> QED  BY <4>1, <4>2, <4>3
    <3> QED  BY <3>1, PlainKept DEF RInv
  <2>13. BackInv'
    BY <2>2 DEF BackInv
  <2>14. Caller >= 1
    <3>1. CASE Top.keep
      BY <2>7, <3>1 DEF Caller
    <3>2. CASE ~Top.keep
      <4>1. Lev(calls, Len(calls)) - 1 \in 1 .. Len(tables) - 1
        BY <2>1, <2>7, <3>2, Levels
      <4> QED  BY <2>7, <3>2, <4>1 DEF Caller
    <3> QED  BY <3>1, <3>2
  <2>15. Front(calls) \in Seq(Call_) /\ Len(Front(calls)) = Len(calls) - 1
         /\ \A k \in 1 .. Len(calls) - 1 : Front(calls)[k] = calls[k]
    <3>1. Len(calls) - 1 \in 0 .. Len(calls)
      BY <2>7
    <3> QED  BY <2>4, <3>1, Cut DEF Front
  <2>16. calls' # <<>>
    BY <2>4, <2>7
  <2>17. CASE n + 1 = Len(Top.args)
    <3>1. pc' = "body"
      BY <2>2, <2>17
    <3>2. BindInv'
      BY <3>1 DEF BindInv
    <3>3. ~Half'
      BY <2>4, <2>6, <2>17 DEF Half
    <3>4. FramesNow' = FramesOf(calls') /\ TablesNow' = tables' /\ StNow' = StNow
      BY <2>11, <3>1, <3>3 DEF FramesNow, CallsNow, TablesNow, StNow
    <3>5. FramesOf(calls') = Append(FramesOf(Front(calls)), Frame(Top'))
      <4>1. Len(calls') = Len(Front(calls)) + 1 /\ Top' = calls'[Len(calls')]
        BY <2>4, <2>7, <2>15 DEF Top
      <4>2. \A k \in 1 .. Len(Front(calls)) : calls'[k] = Front(calls)[k]
        BY <2>4, <2>15
      <4> QED  BY <2>4, <2>15, <4>1, <4>2, FramesAppended
    <3>6. Frame(Top') = [f |-> Top.f, keep |-> Top.keep, as |-> as]
      <4>1. Frame(Top') = [f |-> Top'.f, keep |-> Top'.keep, as |-> Passes(Top')]
        BY DEF Frame, Passes
      <4> QED  BY <2>4, <2>9, <4>1
    <3>7. Entered(before, tables', Top.keep)
      <4>1. Len(before) >= 1 /\ Len(before) \in Nat
        BY <2>5, <2>14, EnvsAre
      <4>2. Top.keep => Len(tables') = Len(before)
        BY <2>3, <2>5 DEF Caller
      <4>3. ~Top.keep => Len(tables') = Len(before) + 1
        BY <2>3, <2>5, <2>7 DEF Caller
      <4>4. ASSUME NEW m \in 1 .. Len(before), m # Len(tables') PROVE tables'[m] = before[m]
        <5>1. m # Len(tables) /\ m \in 1 .. Len(tables)
          BY <2>3, <2>7, <4>1, <4>2, <4>3, <4>4
        <5> QED  BY <2>3, <2>5, <4>4, <5>1
      <4> QED  BY <2>3, <2>5, <4>1, <4>2, <4>3, <4>4 DEF Entered
    <3>8. BoundTo(EnvOf(tables'[Len(tables')]), EnvOf(before[Len(before)]), Top.f, as, Len(Top.args))
      BY <2>8, <2>17 DEF Table, e, Given
    <3>9. Env!Next
      <4>1. FramesNow' = Append(FramesNow, [f |-> Top.f, keep |-> Top.keep, as |-> as])
        BY <2>11, <3>4, <3>5, <3>6
      <4>2. Len(Top.args) \in 0 .. MaxArgs[Top.f]
        BY <2>6
      <4> QED  BY <2>6, <2>11, <3>4, <3>7, <3>8, <4>1, <4>2, CallMade
    <3> QED  BY <2>1, <2>12, <2>13, <3>2, <3>9 DEF RInv
  <2>18. CASE n + 1 # Len(Top.args)
    <3>1. pc' = "bind" /\ before' = before
      BY <2>2, <2>18
    <3>2. Half'
      <4>1. Len(Top'.at) < Len(Top'.args)
        BY <2>2, <2>4, <2>6, <2>18
      <4> QED  BY <2>16, <4>1 DEF Half
    <3>3. Front(calls') = Front(calls)
      <4>1. Len(calls') - 1 \in 0 .. Len(calls')
        BY <2>4, <2>7
      <4>2. /\ Front(calls') \in Seq(Call_) /\ Len(Front(calls')) = Len(calls') - 1
            /\ \A k \in 1 .. Len(calls') - 1 : Front(calls')[k] = calls'[k]
        BY <2>4, <4>1, Cut DEF Front
      <4>3. \A k \in 1 .. Len(calls) - 1 : Front(calls')[k] = Front(calls)[k]
        BY <2>4, <2>15, <4>2
      <4> DEFINE s == Front(calls')
                 t == Front(calls)
      <4>4. s \in Seq(Call_) /\ t \in Seq(Call_) /\ Len(s) = Len(t)
        BY <2>4, <2>15, <4>2
      <4>5. \A k \in 1 .. Len(s) : s[k] = t[k]
        BY <2>4, <4>2, <4>3
      <4> HIDE DEF s, t
      <4>6. s = t
        BY <4>4, <4>5, SameSeq
      <4> QED  BY <4>6 DEF s, t
    <3>4. EnvNow' = EnvNow /\ FramesNow' = FramesNow /\ StNow' = StNow
      <4>1. TablesNow' = before /\ StNow' = "run"
        BY <3>1 DEF TablesNow, StNow
      <4>2. FramesNow' = FramesOf(Front(calls))
        BY <3>2, <3>3 DEF FramesNow, CallsNow
      <4> QED  BY <2>11, <4>1, <4>2 DEF EnvNow
    <3>5. BindInv'
      <4>1. Caller' = Caller
        BY <2>3, <2>4 DEF Caller
      <4>2. Given' = e
        BY <3>1 DEF Given, e
      <4>3. ASSUME NEW m \in 1 .. Len(before), m # Len(tables') PROVE tables'[m] = before[m]
        <5>1. Caller <= Len(tables) /\ Len(before) \in Nat
          <6>1. Len(before) \in Nat
            BY <2>5, EnvsAre
          <6> QED  BY <2>7, <6>1 DEF Caller
        <5>2. m \in 1 .. Len(tables) /\ m # Len(tables)
          BY <2>3, <2>5, <2>7, <4>3, <5>1
        <5> QED  BY <2>3, <2>5, <5>2
      <4>4. BoundTo(EnvOf(Table'), Given', Top'.f, Passes(Top'), Len(Top'.at))
        BY <2>4, <2>8, <2>9, <4>2
      <4>5. \A i \in DOMAIN Top'.args : ~Given'[Parsed[Top'.args[i]]].more
        BY <2>4, <2>5, <4>2
      <4>6. AllGood(before') /\ Len(before') = Caller'
        BY <2>5, <3>1, <4>1
      <4>7. \A m \in 1 .. Len(before') : m # Len(tables') => tables'[m] = before'[m]
        BY <3>1, <4>3
      <4> QED  BY <4>4, <4>5, <4>6, <4>7 DEF BindInv
    <3> QED  BY <2>1, <2>12, <2>13, <3>4, <3>5, EnvStutters DEF RInv
  <2> QED  BY <2>17, <2>18
<1> QED  BY <1>1, <1>2

LEMMA UpdatedSeq ==
    ASSUME NEW S, NEW s \in Seq(S), NEW n \in 1 .. Len(s), NEW x \in S
    PROVE  /\ Updated(s, n, x)[n] = x /\ Len(Updated(s, n, x)) = Len(s)
           /\ \A k \in 1 .. Len(s) : k # n => Updated(s, n, x)[k] = s[k]
  BY DEF Updated

\* The table of the caller of the last call.
LEMMA CallerIs ==
    ASSUME IInv, calls # <<>>
    PROVE  /\ Caller \in 1 .. Len(tables) /\ Len(tables) \in Nat /\ DOMAIN tables = 1 .. Len(tables)
           /\ (Top.keep => Caller = Len(tables)) /\ (~Top.keep => Caller = Len(tables) - 1)
<1>1. /\ Len(calls) \in DOMAIN calls /\ Top = calls[Len(calls)] /\ Lev(calls, Len(calls)) = Len(tables)
      /\ Len(tables) \in Nat /\ Len(tables) >= 1 /\ DOMAIN tables = 1 .. Len(tables)
  BY TopFacts
<1>2. CASE Top.keep
  BY <1>1, <1>2 DEF Caller
<1>3. CASE ~Top.keep
  <2>1. Lev(calls, Len(calls)) - 1 \in 1 .. Len(tables) - 1
    BY <1>1, <1>3, Levels
  <2> QED  BY <1>1, <1>3, <2>1 DEF Caller
<1> QED  BY <1>2, <1>3

LEMMA ReturnRefines ==
    ASSUME RInv, Return
    PROVE  RInv' /\ UNCHANGED Env!vars
<1>1. /\ tables' = tables /\ calls' = calls /\ back' = 0 /\ before' = tables
      /\ pc = "body" /\ pc' = "back" /\ calls # <<>>
  BY DEF Return
<1>2. IInv /\ IInv' /\ AllGood(tables)
  BY ReturnStep, TablesGood DEF RInv
<1>3. PlainInv'
  BY <1>1, PlainKept DEF RInv
<1>4. BindInv'
  BY <1>1 DEF BindInv
<1>5. Top' = Top /\ Caller' = Caller /\ Half' = Half
  BY <1>1 DEF Top, Caller, Half
<1>6. BackInv'
  <2>1. Caller \in 1 .. Len(tables)
    BY <1>1, <1>2, CallerIs
  <2>2. HandedTo(EnvOf(tables[Caller]), EnvOf(tables[Caller]), Given', Top.f, Passes(Top), 0)
    BY DEF HandedTo
  <2> QED  BY <1>1, <1>2, <1>5, <2>2 DEF BackInv
<1>7. EnvNow' = EnvNow /\ FramesNow' = FramesNow /\ StNow' = StNow
  BY <1>1, <1>5 DEF EnvNow, TablesNow, FramesNow, CallsNow, StNow
<1> QED  BY <1>2, <1>3, <1>4, <1>6, <1>7, EnvStutters DEF RInv

LEMMA HandBackRefines ==
    ASSUME RInv, HandBack
    PROVE  RInv' /\ UNCHANGED Env!vars
<1> DEFINE m == back + 1
           n == Top.args[m]
           v == Table[Top.at[m]].val
           t == tables[Caller]
           u == [t EXCEPT ![n] = [t[n] EXCEPT !.val = v, !.constant = FALSE]]
           b == Given
           e == EnvOf(before[Caller])
           f == Top.f
           as == Passes(Top)
<1>1. /\ pc = "back" /\ pc' = "back" /\ back < Len(Top.args)
      /\ tables' = [tables EXCEPT ![Caller] = u]
      /\ back' = m /\ calls' = calls /\ before' = before
  BY DEF HandBack
<1>2. /\ IInv /\ IInv' /\ AllGood(tables) /\ AllGood(tables') /\ calls # <<>> /\ back \in Nat
  <2>1. IInv /\ IInv'
    BY HandBackStep DEF RInv
  <2>2. AllGood(tables')
    BY <2>1 DEF IInv, TablesInv, AllGood
  <2> QED  BY <1>1, <2>1, <2>2, TablesGood DEF IInv, PcInv
<1>3. Caller \in 1 .. Len(tables) /\ Len(tables) \in Nat /\ DOMAIN tables = 1 .. Len(tables)
  BY <1>2, CallerIs
<1>4. (Top.keep => Caller = Len(tables)) /\ (~Top.keep => Caller = Len(tables) - 1)
  BY <1>2, CallerIs
<1>5. /\ AllGood(before) /\ Len(before) = Len(tables)
      /\ \A k \in 1 .. Len(before) : k # Caller => tables[k] = before[k]
      /\ HandedTo(EnvOf(t), e, b, f, as, back)
  BY <1>1 DEF RInv, BackInv
<1>6. /\ m \in Nat /\ m \in 1 .. Len(Top.args) /\ DOMAIN Top.args = 1 .. Len(Top.args)
      /\ Len(Top.args) <= MaxArgs[f] /\ Len(Top.args) \in Nat /\ f \in Func /\ MaxArgs[f] \in Nat
      /\ as \in [1 .. Len(Top.args) -> Name]
      /\ \A i \in 1 .. Len(Top.args) : as[i] = Parsed[Top.args[i]]
  <2>1. /\ Len(Top.args) \in Nat /\ DOMAIN Top.args = 1 .. Len(Top.args)
        /\ Len(Top.args) <= MaxArgs[f] /\ f \in Func /\ MaxArgs[f] \in Nat
        /\ as \in [1 .. Len(Top.args) -> Name]
        /\ \A i \in 1 .. Len(Top.args) : as[i] = Parsed[Top.args[i]]
    BY <1>2, TopNames
  <2>2. m \in Nat /\ m \in 1 .. Len(Top.args)
    BY <1>1, <1>2, <2>1
  <2> QED  BY <2>1, <2>2
<1>7. Good(t)
  BY <1>3, <1>2 DEF AllGood
<1>8. n \in DOMAIN t /\ t[n].name = as[m] /\ t[n] \in Variable
  <2>1. n \in DOMAIN t /\ t[n].name = as[m]
    BY <1>2, <1>6, <1>7, TopNames
  <2> QED  BY <1>7, <2>1 DEF Good
<1>9. v = EnvOf(Table)[Formal(f, m)]
  <2>1. Len(Top.at) = Len(Top.args)
    BY <1>1, <1>2, TopFacts DEF IInv, CallInv
  <2> QED  BY <1>2, <1>6, <2>1, TopNames
<1> HIDE DEF m, n, v, b, e, f, as
<1>10. EnvOf(Table)[Formal(f, m)] = b[Formal(f, m)]
  <2>1. CASE Top.keep
    <3>1. t = Table /\ b = e
      <4>1. Caller = Len(tables) /\ Len(before) = Len(tables)
        BY <1>5, <1>4, <2>1
      <4> QED  BY <4>1 DEF Table, b, e, Given
    <3>2. m \in 1 .. MaxArgs[f]
      BY <1>6
    <3>3. Formal(f, m) \in Name
      BY <1>6, <3>2, FormalNames
    <3>4. ASSUME NEW i \in 1 .. back PROVE Formal(f, m) # as[i]
      <4>1. i \in DOMAIN Top.args /\ m \in DOMAIN Top.args /\ m # i
        BY <1>2, <1>6 DEF m
      <4>2. Len(calls) \in DOMAIN calls /\ Top = calls[Len(calls)]
        BY <1>2, TopFacts
      <4>3. Parsed[Top.args[i]] # Formal(Top.f, m)
        BY <4>1, <4>2 DEF RInv, PlainInv
      <4> QED  BY <1>6, <4>1, <4>3 DEF f
    <3>5. EnvOf(t)[Formal(f, m)] = e[Formal(f, m)]
      BY <1>5, <3>3, <3>4 DEF HandedTo, LastOf
    <3> QED  BY <3>1, <3>5
  <2>2. CASE ~Top.keep
    <3>1. Len(tables) \in 1 .. Len(before) /\ Len(tables) # Caller
      <4>1. Len(before) = Len(tables)
        BY <1>5
      <4>2. Caller = Len(tables) - 1
        BY <1>4, <2>2
      <4>3. Len(tables) \in Nat /\ Len(tables) >= 1
        BY <1>3
      <4> HIDE DEF t, u
      <4> QED  BY <4>1, <4>2, <4>3
    <3>2. tables[Len(tables)] = before[Len(before)]
      BY <1>5, <3>1
    <3> QED  BY <3>2 DEF Table, b, Given
  <2> QED  BY <2>1, <2>2
<1>11. /\ DOMAIN u = DOMAIN t /\ u \in Seq(Variable)
       /\ u[n].name = as[m] /\ u[n].val = v
       /\ \A j \in DOMAIN t : j # n => u[j] = t[j]
  <2> DEFINE x == [t[n] EXCEPT !.val = v, !.constant = FALSE]
  <2>1. v \in Value
    <3>1. Formal(f, m) \in Name
      <4>1. m \in 1 .. MaxArgs[f]
        BY <1>6
      <4> QED  BY <1>6, <4>1, FormalNames
    <3>2. EnvOf(Table) \in [Name -> Value]
      BY <1>2, TopFacts, EnvType
    <3> QED  BY <1>9, <3>1, <3>2
  <2>2. x \in Variable /\ x.name = as[m] /\ x.val = v
    BY <1>8, <2>1 DEF Variable
  <2>3. t \in Seq(Variable) /\ DOMAIN t = 1 .. Len(t) /\ Len(t) \in Nat
    BY <1>7 DEF Good
  <2> HIDE DEF x, t
  <2>4. [t EXCEPT ![n] = x] \in Seq(Variable)
    BY <1>8, <2>2, <2>3
  <2>5. /\ DOMAIN [t EXCEPT ![n] = x] = DOMAIN t /\ [t EXCEPT ![n] = x][n] = x
        /\ \A j \in DOMAIN t : j # n => [t EXCEPT ![n] = x][j] = t[j]
    BY <1>8
  <2> QED  BY <2>2, <2>4, <2>5 DEF x
<1> HIDE DEF u
<1>12. /\ tables'[Caller] = u /\ Len(tables') = Len(tables)
       /\ \A k \in 1 .. Len(tables) : k # Caller => tables'[k] = tables[k]
  <2>1. tables' = [tables EXCEPT ![Caller] = u]
    BY <1>1
  <2>2. u \in Seq(Variable)
    BY <1>11
  <2>3. /\ Updated(tables, Caller, u)[Caller] = u /\ Len(Updated(tables, Caller, u)) = Len(tables)
        /\ \A k \in 1 .. Len(tables) : k # Caller => Updated(tables, Caller, u)[k] = tables[k]
    <3>1. tables \in Seq(Seq(Variable)) /\ Caller \in 1 .. Len(tables)
      BY <1>2, <1>3 DEF AllGood
    <3> QED  BY <2>2, <3>1, UpdatedSeq
  <2> QED  BY <2>1, <2>3 DEF Updated
<1>13. Good(u)
  <2>1. DOMAIN tables' = 1 .. Len(tables)
    BY <1>2, <1>12, EnvsAre
  <2> QED  BY <1>2, <1>3, <1>12, <2>1 DEF AllGood
<1>14. EnvOf(u) = Updated(EnvOf(t), as[m], b[Formal(f, m)])
  <2> HIDE DEF t
  <2>1. EnvOf(u) = [EnvOf(t) EXCEPT ![u[n].name] = u[n].val]
    <3>1. Good(t) /\ Good(u) /\ n \in DOMAIN u
      BY <1>7, <1>8, <1>11, <1>13
    <3>2. /\ \A j \in DOMAIN t : j # n => j \in DOMAIN u /\ u[j].name = t[j].name /\ u[j].val = t[j].val
          /\ \A j \in DOMAIN u : j # n => j \in DOMAIN t
          /\ n \in DOMAIN t => u[n].name = t[n].name
      BY <1>8, <1>11
    <3> QED  BY <3>1, <3>2, EnvSet
  <2> QED  BY <1>9, <1>10, <1>11, <2>1 DEF Updated
<1>15. HandedTo(EnvOf(u), e, b, f, as, m)
  <2> DEFINE h == EnvOf(t)
  <2>1. h \in [Name -> Value] /\ as[m] \in Name /\ m = back + 1
    BY <1>6, <1>7, EnvType DEF m
  <2>2. HandedTo(h, e, b, f, as, back)
    BY <1>5
  <2> HIDE DEF h
  <2>3. HandedTo(Updated(h, as[m], b[Formal(f, m)]), e, b, f, as, m)
    BY <1>2, <1>6, <2>1, <2>2, HandedNext
  <2> QED  BY <1>14, <2>3 DEF h
<1>16. Top' = Top /\ Caller' = Caller /\ Half' = Half
  BY <1>1, <1>12 DEF Top, Caller, Half
<1>17. BackInv'
  <2>1. HandedTo(EnvOf(tables'[Caller']), EnvOf(before'[Caller']), Given', Top'.f, Passes(Top'), back')
    BY <1>1, <1>12, <1>15, <1>16 DEF b, e, f, as, Given
  <2>2. \A k \in 1 .. Len(before') : k # Caller' => tables'[k] = before'[k]
    BY <1>1, <1>5, <1>12, <1>16
  <2>3. AllGood(before') /\ Len(before') = Len(tables')
    BY <1>1, <1>5, <1>12
  <2> QED  BY <2>1, <2>2, <2>3 DEF BackInv
<1>18. PlainInv' /\ BindInv'
  <2>1. PlainInv'
    BY <1>1, PlainKept DEF RInv
  <2> QED  BY <1>1, <2>1 DEF BindInv
<1>19. EnvNow' = EnvNow /\ FramesNow' = FramesNow /\ StNow' = StNow
  BY <1>1, <1>16 DEF EnvNow, TablesNow, FramesNow, CallsNow, StNow
<1> QED  BY <1>2, <1>17, <1>18, <1>19, EnvStutters DEF RInv

LEMMA LeaveRefines ==
    ASSUME RInv, Leave
    PROVE  RInv' /\ Env!Next
<1>1. IInv /\ IInv' /\ AllGood(tables) /\ AllGood(tables')
  <2>1. IInv /\ IInv'
    BY LeaveStep DEF RInv
  <2>2. AllGood(tables')
    BY <2>1 DEF IInv, TablesInv, AllGood
  <2> QED  BY <2>1, <2>2, TablesGood
<1>2. /\ pc = "back" /\ pc' = "body" /\ back = Len(Top.args)
      /\ calls # <<>> /\ Len(calls) \in Nat /\ Len(calls) >= 1 /\ Top = calls[Len(calls)]
      /\ calls' \in Seq(Call_) /\ Len(calls') = Len(calls) - 1
      /\ \A k \in 1 .. Len(calls) - 1 : calls'[k] = calls[k]
      /\ Caller \in 1 .. Len(tables) /\ Len(tables') = Caller
      /\ \A k \in 1 .. Caller : tables'[k] = tables[k]
      /\ calls \in Seq(Call_)
  <2>1. pc = "back" /\ back = Len(Top.args)
    BY DEF Leave
  <2>2. calls \in Seq(Call_)
    BY <1>1 DEF IInv, CallInv
  <2> QED  BY <1>1, <2>1, <2>2, LeaveFacts
<1>3. /\ AllGood(before) /\ Len(before) = Len(tables)
      /\ \A k \in 1 .. Len(before) : k # Caller => tables[k] = before[k]
      /\ HandedTo(EnvOf(tables[Caller]), EnvOf(before[Caller]), Given, Top.f, Passes(Top), Len(Top.args))
  BY <1>2 DEF RInv, BackInv
<1>4. ~Half /\ ~Half'
  <2>1. ~Half
    BY <1>1, <1>2, HalfFacts
  <2>2. ASSUME calls' # <<>> PROVE Len(Top'.at) = Len(Top'.args) /\ Len(Top'.args) \in Nat
    <3>1. Len(calls') \in DOMAIN calls' /\ Top' = calls'[Len(calls')] /\ Top' \in Call_
      BY <1>2, <2>2 DEF Top
    <3>2. pc' \in {"body", "back"} => Len(calls'[Len(calls')].at) = Len(calls'[Len(calls')].args)
      BY <1>1, <3>1 DEF IInv, CallInv
    <3>3. Top'.args \in Seq(Index)
      BY <3>1 DEF Call_
    <3> QED  BY <1>2, <3>1, <3>2, <3>3
  <2>3. ~Half'
    BY <2>2 DEF Half
  <2> QED  BY <2>1, <2>3
<1>5. /\ FramesNow = FramesOf(calls) /\ FramesNow' = FramesOf(calls')
      /\ EnvNow = Envs(before) /\ EnvNow' = Envs(tables') /\ StNow' = StNow
  BY <1>2, <1>4 DEF FramesNow, CallsNow, EnvNow, TablesNow, StNow
<1>6. /\ FramesNow' = SubSeq(FramesNow, 1, Len(FramesNow) - 1) /\ FramesNow # <<>>
      /\ FramesNow[Len(FramesNow)] = Frame(Top)
  BY <1>2, <1>5, FramesCut
<1>7. /\ Len(EnvNow) = Len(tables) /\ Len(before) \in Nat /\ EnvNow[Caller] = EnvOf(before[Caller])
      /\ EnvNow[Len(EnvNow)] = Given
  <2>1. Len(before) \in 1 .. Len(before) /\ Len(before) \in Nat
    <3>1. Len(before) \in Nat
      BY <1>3, EnvsAre
    <3> QED  BY <1>2, <1>3, <3>1
  <2> QED  BY <1>2, <1>3, <1>5, <2>1, EnvsAre DEF Given
<1> DEFINE h == EnvOf(tables[Caller])
<1>8. h = Env!Handed(EnvNow[Caller], Top.f, Passes(Top))
  <2>1. h \in [Name -> Value]
    <3>1. Caller \in DOMAIN tables
      BY <1>1, <1>2, EnvsAre
    <3> QED  BY <1>1, <3>1, EnvType DEF AllGood
  <2>2. Len(Top.args) \in Nat /\ DOMAIN Passes(Top) = 1 .. Len(Top.args)
    BY <1>1, <1>2, TopNames
  <2>3. HandedTo(h, EnvNow[Caller], EnvNow[Len(EnvNow)], Top.f, Passes(Top), Len(Top.args))
    BY <1>3, <1>7
  <2> HIDE DEF h
  <2> QED  BY <2>1, <2>2, <2>3, HandedIs
<1>9. EnvNow' = Updated(SubSeq(EnvNow, 1, Caller), Caller, h)
  <2>1. \A k \in 1 .. Caller : k # Caller => tables'[k] = before[k]
    BY <1>2, <1>3, <1>7
  <2>2. Caller \in 1 .. Len(before)
    BY <1>2, <1>3
  <2>3. Envs(tables') = Updated(SubSeq(Envs(before), 1, Caller), Caller, EnvOf(tables'[Caller]))
    BY <1>1, <1>2, <1>3, <2>1, <2>2, EnvsCut
  <2>4. tables'[Caller] = tables[Caller]
    BY <1>2
  <2> QED  BY <1>5, <2>3, <2>4
<1>10. Env!Next
  <2> DEFINE c == Frame(Top)
  <2>1. c.keep = Top.keep /\ c.f = Top.f /\ c.as = Passes(Top)
    BY DEF Frame, Passes
  <2>2. Caller = IF c.keep THEN Len(EnvNow) ELSE Len(EnvNow) - 1
    BY <1>3, <1>7, <2>1 DEF Caller
  <2> HIDE DEF c, h
  <2>3. h = Env!Handed(EnvNow[Caller], c.f, c.as)
    BY <1>8, <2>1
  <2>4. EnvNow' = [SubSeq(EnvNow, 1, Caller) EXCEPT ![Caller] = h]
    BY <1>9 DEF Updated
  <2>5. c = FramesNow[Len(FramesNow)]
    BY <1>6 DEF c
  <2> QED  BY <1>5, <1>6, <2>2, <2>3, <2>4, <2>5, EnvReturns
<1>11. PlainInv' /\ BindInv' /\ BackInv'
  <2>1. \A k \in DOMAIN calls' : k \in DOMAIN calls /\ calls'[k] = calls[k]
    BY <1>2
  <2>2. PlainInv'
    BY <2>1, PlainKept DEF RInv
  <2> QED  BY <1>2, <2>2 DEF BindInv, BackInv
<1> QED  BY <1>1, <1>10, <1>11 DEF RInv

LEMMA EnvBegins == ASSUME Init PROVE RInv /\ Env!Init
<1> DEFINE t == [i \in Index |-> [name |-> Parsed[i], val |-> First(Parsed[i]),
                                  constant |-> Parsed[i] \in Literals]]
<1>1. tables = <<t>> /\ calls = <<>> /\ pc = "body"
  BY DEF Init
<1>2. IInv /\ AllGood(tables)
  BY InitIInv, TablesGood
<1>3. PlainInv /\ BindInv /\ BackInv
  BY <1>1 DEF PlainInv, BindInv, BackInv
<1>4. EnvOf(t) = [x \in Name |-> First(x)]
  <2>1. Good(t)
    BY <1>1, <1>2 DEF AllGood
  <2>2. ASSUME NEW x \in Name PROVE EnvOf(t)[x] = First(x)
    <3>1. CASE \E i \in DOMAIN t : t[i].name = x
      <4>1. PICK i \in DOMAIN t : t[i].name = x
        BY <3>1
      <4>2. t[i].val = First(t[i].name)
        OBVIOUS
      <4>3. EnvOf(t)[t[i].name] = t[i].val
        BY <2>1, EnvFound
      <4> QED  BY <4>1, <4>2, <4>3
    <3>2. CASE ~\E i \in DOMAIN t : t[i].name = x
      BY <3>2, EnvMissing
    <3> QED  BY <3>1, <3>2
  <2>3. EnvOf(t) \in [Name -> Value]
    BY <2>1, EnvType
  <2> HIDE DEF t
  <2> QED  BY <2>2, <2>3
<1> HIDE DEF t
<1>5. EnvNow = <<[x \in Name |-> First(x)]>>
  <2> DEFINE b == [x \in Name |-> First(x)]
  <2>1. /\ Envs(tables) \in Seq([Name -> Value]) /\ Len(Envs(tables)) = 1
        /\ Envs(tables)[1] = b
    BY <1>1, <1>2, <1>4, EnvsAre
  <2> HIDE DEF b
  <2>2. Envs(tables) = <<b>>
    BY <2>1
  <2> QED  BY <1>1, <2>2 DEF EnvNow, TablesNow, b
<1>6. FramesNow = <<>>
  BY <1>1 DEF FramesNow, CallsNow, Half, FramesOf
<1>7. StNow = "run"
  BY <1>1 DEF StNow
<1>8. Env!Init
  BY <1>5, <1>6, <1>7 DEF Env!Init, EnvNow, Envs, TablesNow, FramesNow, FramesOf, CallsNow, StNow
<1> QED  BY <1>2, <1>3, <1>8 DEF RInv

LEMMA StutterRefines ==
    ASSUME RInv, UNCHANGED vars
    PROVE  RInv' /\ UNCHANGED Env!vars
<1>1. /\ tables' = tables /\ calls' = calls /\ back' = back /\ before' = before /\ pc' = pc
  BY DEF vars
<1>2. Top' = Top /\ Caller' = Caller /\ Half' = Half /\ Table' = Table /\ Given' = Given
  BY <1>1 DEF Top, Caller, Half, Table, Given
<1>3. IInv'
  BY StutterStep DEF RInv
<1>4. PlainInv'
  BY <1>1, PlainKept DEF RInv
<1>5. BindInv' /\ BackInv'
  BY <1>1, <1>2 DEF RInv, BindInv, BackInv
<1>6. EnvNow' = EnvNow /\ FramesNow' = FramesNow /\ StNow' = StNow
  BY <1>1, <1>2 DEF EnvNow, TablesNow, FramesNow, CallsNow, StNow
<1> QED  BY <1>3, <1>4, <1>5, <1>6, EnvStutters DEF RInv

LEMMA EnvStep ==
    ASSUME RInv, [PlainNext]_vars
    PROVE  RInv' /\ [Env!Next]_(Env!vars)
<1>1. CASE \E i \in Index, v \in Texts : Write(i, v)
  BY <1>1, WriteRefines
<1>2. CASE \E f \in Func, keep \in BOOLEAN : \E args \in Lists(f) : Plain(f, args) /\ Call(f, keep, args)
  BY <1>2, CallRefines
<1>3. CASE Bind
  BY <1>3, BindRefines
<1>4. CASE Return
  BY <1>4, ReturnRefines
<1>5. CASE HandBack
  BY <1>5, HandBackRefines
<1>6. CASE Leave
  BY <1>6, LeaveRefines
<1>7. CASE Terminated \/ UNCHANGED vars
  BY <1>7, StutterRefines DEF Terminated
<1> QED  BY <1>1, <1>2, <1>3, <1>4, <1>5, <1>6, <1>7 DEF PlainNext, Others

\* Copying the table and its arguments by index, one after the other (cmd.c:6415-6495),
\* is a call of a function by names, with all arguments at once, in and, with and
\* without KEEP_VAR, out.
\* It holds for every script that passes no binary text and none of the function's
\* own arguments as another one, at any depth of calls with and without KEEP_VAR,
\* for arguments that are passed twice and tables that are full.
THEOREM CallImplementsEnv == PlainSpec => ImplementsEnv
<1>1. PlainSpec => Env!Init /\ [][Env!Next]_(Env!vars)
  BY EnvBegins, EnvStep, PTL DEF PlainSpec
<1> QED  BY <1>1 DEF ImplementsEnv, Env!Spec
=============================================================================
