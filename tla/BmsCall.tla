------------------------------- MODULE BmsCall -------------------------------
(***************************************************************************)
(* The variables of a script and the calls of its functions: the table     *)
(* g_variable[] (var.c), and the part of CMD_Function_func (cmd.c:6385)     *)
(* that copies the table, sets the arguments and hands them back.  The     *)
(* commands of a script name a variable by its index, which the parser has *)
(* given to it; a literal is a variable too.  One action per argument.     *)
(*                                                                         *)
(* What the other commands do to the variables is a free Write.  A script  *)
(* that fails in a function returns through the calls without a Write.     *)
(***************************************************************************)
EXTENDS Naturals, Sequences, SequencesExt

CONSTANTS
    Parsed,     \* the names of variables in the script, in the order of their indices
    Literals,   \* those that are a number, or a text in quotes
    Func,       \* the functions
    Formal(_, _),   \* "NAME_arg1", "NAME_arg2", ... for a function NAME
    MaxArgs,    \* bound: arguments of a call, by function
    MAX_VARS,   \* the size of the table
    Texts,      \* what a Write may store
    MaxDepth    \* bound: calls in calls

Formals == UNION {{Formal(f, i) : i \in 1 .. MaxArgs[f]} : f \in Func}
Name    == Range(Parsed) \cup Formals

ASSUME ParsedAssumption == Parsed \in Seq(Range(Parsed)) /\ Len(Parsed) <= MAX_VARS
ASSUME DistinctAssumption == \A i, j \in DOMAIN Parsed : Parsed[i] = Parsed[j] => i = j
ASSUME FormalAssumption ==
    \A f, g \in Func : \A i \in 1 .. MaxArgs[f], j \in 1 .. MaxArgs[g] :
        Formal(f, i) = Formal(g, j) => f = g /\ i = j
ASSUME LiteralAssumption == Literals \cap Formals = {}
ASSUME BoundAssumption == MAX_VARS \in Nat /\ MaxArgs \in [Func -> Nat] /\ MaxDepth \in Nat

\* more: there are bytes behind a first zero byte.
Value == [of : {v.of : v \in Texts} \cup Name, more : BOOLEAN]

ASSUME TextAssumption == Texts \subseteq Value

\* A variable that was never set is its name.
First(x) == [of |-> x, more |-> FALSE]

\* variable_t
Variable == [name : Name, val : Value, constant : BOOLEAN]

Index == DOMAIN Parsed

\* An activation of CMD_Function_func: its arguments as indices of what was passed
\* (args[][0]) and of the variables that hold them (args[][1]).
\* History: the table that it has copied.
Call_ == [f : Func, keep : BOOLEAN, args : Seq(Index), at : Seq(1 .. MAX_VARS),
          old : Seq(Variable)]

VARIABLES
    tables,     \* g_variable, the last, and the copies it was taken from
    calls,      \* activations of CMD_Function_func
    back,       \* arguments that were handed back
    forced,     \* force_constants_reusage
    pc,         \* "body", "bind" and "back" (the arguments), "exit" (myexit)
    before      \* history: the tables before the arguments were touched, while they are

vars == <<tables, calls, back, forced, pc, before>>

Table == tables[Len(tables)]
Top   == calls[Len(calls)]

TypeOK ==
    /\ tables \in Seq(Seq(Variable)) /\ tables # <<>>
    /\ \A t \in Range(tables) : Len(t) <= MAX_VARS
    /\ calls \in Seq(Call_)
    /\ back \in Nat /\ forced \in BOOLEAN
    /\ pc \in {"body", "bind", "back", "exit"}
    /\ pc \in {"bind", "back"} => calls # <<>>

-----------------------------------------------------------------------------

Init ==
    /\ tables = <<[i \in Index |-> [name |-> Parsed[i], val |-> First(Parsed[i]),
                                     constant |-> Parsed[i] \in Literals]]>>
    /\ calls = <<>> /\ back = 0
    /\ forced = FALSE
    /\ pc = "body"
    /\ before = <<>>

Exit ==
    /\ pc' = "exit"
    /\ before' = IF pc = "body" THEN tables ELSE before
    /\ UNCHANGED <<tables, calls, back, forced>>

\* Mutant: the name is not looked up.
Slot_new(t, x) == Len(t) + 1

\* Where add_var() finds the name, or puts it.
Slot(t, x) ==
    IF \E i \in DOMAIN t : t[i].name = x
    THEN CHOOSE i \in DOMAIN t : t[i].name = x
    ELSE Len(t) + 1

\* add_varval(): a constant may be edited only if the user says so, once for all.
Write(i, v) ==
    /\ pc = "body"
    /\ \/ /\ Table[i].constant /\ ~forced
          /\ Exit
       \/ /\ forced' = (forced \/ Table[i].constant)
          /\ tables' = [tables EXCEPT ![Len(tables)][i].val = v]
          /\ UNCHANGED <<calls, back, pc, before>>

\* variable_copy() of the whole table: no copy is a constant.
Copied(t) == [i \in DOMAIN t |-> [t[i] EXCEPT !.constant = FALSE]]

Call(f, keep, args) ==
    /\ pc = "body" /\ Len(calls) < MaxDepth
    /\ tables' = IF keep THEN tables ELSE Append(tables, Copied(Table))
    /\ calls' = Append(calls, [f |-> f, keep |-> keep, args |-> args, at |-> <<>>,
                            old |-> IF keep THEN <<>> ELSE Table])
    /\ pc' = IF args = <<>> THEN "body" ELSE "bind"
    /\ before' = IF args = <<>> THEN <<>> ELSE tables
    /\ UNCHANGED <<back, forced>>

\* A text is passed up to its first zero byte (get_var, a size of -1).
Passed(v) == [v EXCEPT !.more = FALSE]

\* The next argument; the ones before it are set already.
Bind ==
    /\ pc = "bind"
    /\ LET n == Len(Top.at) + 1
           v == Passed(Table[Top.args[n]].val)
           x == Formal(Top.f, n)
           i == Slot(Table, x)
       IN  IF i > MAX_VARS
           THEN Exit
           ELSE /\ tables' = [tables EXCEPT ![Len(tables)] =
                       IF i \in DOMAIN Table THEN [Table EXCEPT ![i].val = v]
                       ELSE Append(Table, [name |-> x, val |-> v, constant |-> FALSE])]
                /\ calls' = [calls EXCEPT ![Len(calls)].at = Append(@, i)]
                /\ pc' = IF n = Len(Top.args) THEN "body" ELSE "bind"
                /\ before' = IF n = Len(Top.args) THEN <<>> ELSE before
                /\ UNCHANGED <<back, forced>>

\* EndFunction: start_bms() returns.
Return ==
    /\ pc = "body" /\ calls # <<>>
    /\ pc' = "back" /\ back' = 0
    /\ before' = tables
    /\ UNCHANGED <<tables, calls, forced>>

\* Mutant: the arguments are handed back to the copy.
Caller_copy == Len(tables)

\* The table of the caller: oldvar, or g_variable itself.
Caller == IF Top.keep THEN Len(tables) ELSE Len(tables) - 1

\* variable_copy() of an argument into the variable that was passed.
HandBack ==
    /\ pc = "back" /\ back < Len(Top.args)
    /\ LET v == Table[Top.at[back + 1]].val
       IN  tables' = [tables EXCEPT ![Caller][Top.args[back + 1]] = [@ EXCEPT !.val = v, !.constant = FALSE]]
    /\ back' = back + 1
    /\ UNCHANGED <<calls, forced, pc, before>>

\* Mutant: the copy becomes the table of the caller.
Leave_keepsCopy ==
    /\ pc = "back" /\ back = Len(Top.args)
    /\ tables' = [SubSeq(tables, 1, Caller) EXCEPT ![Caller] = Table]
    /\ calls' = Front(calls)
    /\ pc' = "body" /\ back' = 0
    /\ before' = <<>>
    /\ UNCHANGED forced

\* The copy is freed.
Leave ==
    /\ pc = "back" /\ back = Len(Top.args)
    /\ tables' = SubSeq(tables, 1, Caller)
    /\ calls' = Front(calls)
    /\ pc' = "body" /\ back' = 0
    /\ before' = <<>>
    /\ UNCHANGED forced

Terminated == pc = "exit" /\ UNCHANGED vars

Lists(f) == UNION {[1 .. k -> Index] : k \in 0 .. MaxArgs[f]}

\* Calls that pass no binary text, and none of the function's own arguments as
\* another one.
Plain(f, args) ==
    \A i \in DOMAIN args :
        /\ ~Table[args[i]].val.more
        /\ \A j \in DOMAIN args : j # i => Parsed[args[i]] # Formal(f, j)

Others == Bind \/ Return \/ HandBack \/ Leave \/ Terminated

Next ==
    \/ \E i \in Index, v \in Texts : Write(i, v)
    \/ \E f \in Func, keep \in BOOLEAN : \E args \in Lists(f) : Call(f, keep, args)
    \/ Others

Spec == Init /\ [][Next]_vars

PlainNext ==
    \/ \E i \in Index, v \in Texts : Write(i, v)
    \/ \E f \in Func, keep \in BOOLEAN : \E args \in Lists(f) : Plain(f, args) /\ Call(f, keep, args)
    \/ Others

PlainSpec == Init /\ [][PlainNext]_vars

-----------------------------------------------------------------------------
(* Properties *)

\* The number of the table that a call works on.
Level(k) == 1 + Cardinality({j \in 1 .. k : ~calls[j].keep})

\* The index that the parser has given to a name means that name in every copy of
\* the table, at any depth of calls; so do the indices that a call has noted for
\* its arguments.
IndicesStable ==
    /\ \A t \in Range(tables) :
          /\ Len(Parsed) <= Len(t)
          /\ \A i \in Index : t[i].name = Parsed[i]
          /\ \A i, j \in DOMAIN t : t[i].name = t[j].name => i = j
    /\ Len(tables) = Level(Len(calls))
    /\ \A k \in DOMAIN calls : \A i \in DOMAIN calls[k].at :
          LET t == tables[Level(k)]
          IN  calls[k].at[i] \in DOMAIN t /\ t[calls[k].at[i]].name = Formal(calls[k].f, i)

\* A function with KEEP_VAR 0 leaves no trace in the table of its caller but in the
\* variables that were passed to it (cmd.c:6483-6495), whatever it and its own calls do.
OthersRestored ==
    [][Leave /\ ~Top.keep =>
          LET t == tables'[Len(tables')]
          IN  /\ Len(t) = Len(Top.old)
              /\ \A i \in DOMAIN t : i \notin Range(Top.args) => t[i] = Top.old[i]]_vars

\* The names of what was passed.
Half == calls # <<>> /\ Len(Top.at) < Len(Top.args)
Frame(c) == [f |-> c.f, keep |-> c.keep, as |-> [i \in DOMAIN c.args |-> Parsed[c.args[i]]]]
EnvOf(t) == [x \in Name |-> IF \E i \in DOMAIN t : t[i].name = x THEN t[Slot(t, x)].val ELSE First(x)]

Env == INSTANCE BmsEnv WITH
    env    <- LET ts == IF pc = "body" THEN tables ELSE before
              IN  [k \in DOMAIN ts |-> EnvOf(ts[k])],
    frames <- LET cs == IF Half THEN Front(calls) ELSE calls
              IN  [k \in DOMAIN cs |-> Frame(cs[k])],
    st     <- IF pc = "exit" THEN "exit" ELSE "run"

\* Copying tables and arguments by index, one after the other (cmd.c:6415-6495), is a call
\* of a function by names: all arguments at once, in and, with and without KEEP_VAR, out.
ImplementsEnv == Env!Spec

\* defs.h:331, var.c:936: a literal is "a fixed number" and "like read-only", so it
\* means the same everywhere in the script, unless the user lets it be edited.
LiteralsFixed ==
    ~forced /\ calls = <<>> => \A i \in Index : Parsed[i] \in Literals => Table[i].val = First(Parsed[i])
=============================================================================
