-------------------------------- MODULE BmsEnv --------------------------------
(***************************************************************************)
(* What CMD_Function_func (cmd.c:6415-6495) does to the variables of a     *)
(* script, told by their names: a function works on the variables of its   *)
(* caller, or on a copy of them (KEEP_VAR 0), and finds its arguments in   *)
(* variables named after it.  When it ends, the copy is forgotten, and     *)
(* what the function has made of its arguments is handed back to the       *)
(* variables that were passed, with KEEP_VAR 0 too (cmd.c:6478-6487).      *)
(* This is what the code does.  The manual has no such hand-back: all      *)
(* variables are restored (readme.md:4094-4097; README.md, disagreement    *)
(* 11).                                                                    *)
(***************************************************************************)
EXTENDS Naturals, Sequences

CONSTANTS
    Name,       \* the names of variables
    Value,      \* what a variable may hold
    Func,       \* the functions
    MaxArgs,    \* the largest number of arguments of a function
    Formal(_, _),   \* the name of an argument of a function
    First(_)    \* what a variable holds that was not set

VARIABLES
    env,        \* for every copy, the values of the variables
    frames,     \* the calls: function, KEEP_VAR, the variables passed
    st          \* "run", "exit"

vars == <<env, frames, st>>

Top == env[Len(env)]

Init ==
    /\ env = <<[x \in Name |-> First(x)]>>
    /\ frames = <<>>
    /\ st = "run"

Set ==
    /\ UNCHANGED <<frames, st>>
    /\ \E x \in Name, v \in Value : env' = [env EXCEPT ![Len(env)][x] = v]

\* All arguments get their values at once.
Bound(f, as) ==
    [x \in Name |-> IF \E i \in DOMAIN as : x = Formal(f, i)
                    THEN Top[as[CHOOSE i \in DOMAIN as : x = Formal(f, i)]]
                    ELSE Top[x]]

Call(f, keep, as) ==
    /\ frames' = Append(frames, [f |-> f, keep |-> keep, as |-> as])
    /\ env' = IF keep THEN [env EXCEPT ![Len(env)] = Bound(f, as)] ELSE Append(env, Bound(f, as))
    /\ UNCHANGED st

\* By value and result (cmd.c:6483).  A variable that was passed twice gets the last
\* argument.
Handed(e, f, as) ==
    [x \in Name |-> IF \E i \in DOMAIN as : x = as[i]
                    THEN Top[Formal(f, CHOOSE i \in DOMAIN as : x = as[i] /\ \A j \in DOMAIN as : x = as[j] => j <= i)]
                    ELSE e[x]]

Return ==
    /\ frames # <<>>
    /\ LET c == frames[Len(frames)]
           d == IF c.keep THEN Len(env) ELSE Len(env) - 1
       IN  /\ frames' = SubSeq(frames, 1, Len(frames) - 1)
           /\ env' = [SubSeq(env, 1, d) EXCEPT ![d] = Handed(env[d], c.f, c.as)]
    /\ UNCHANGED st

Exit == st' = "exit" /\ UNCHANGED <<env, frames>>

Next ==
    \/ Set
    \/ \E f \in Func, keep \in BOOLEAN :
          \E as \in UNION {[1 .. k -> Name] : k \in 0 .. MaxArgs[f]} : Call(f, keep, as)
    \/ Return
    \/ Exit

Spec == Init /\ [][Next]_vars
=============================================================================
