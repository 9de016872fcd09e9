------------------------------- MODULE BmsArray -------------------------------
(***************************************************************************)
(* The arrays of a script (g_array[], cmd.c): PutArray, GetArray,          *)
(* SearchArray, SortArray.  Sorting is modelled comparison by comparison,  *)
(* everything else as one step.                                            *)
(*                                                                         *)
(* A value is a number (isnum, value32), a text, or Hole: an element that  *)
(* growing an array has cleared and nobody has put.  Texts, the decimal    *)
(* form of numbers (myitoa) and Hole are compared by Rank, the order of    *)
(* mystricmp.  Elements count from 1 here and from 0 in a script.          *)
(***************************************************************************)
EXTENDS Integers, Sequences

CONSTANTS
    MAX_ARRAYS,     \* arrays are numbered 0 .. MAX_ARRAYS - 1
    Num, Text,      \* what scripts put
    Hole,           \* an element that was cleared
    Junk,           \* an element of the buffer that nobody has cleared
    Rank,           \* the order of texts, of numbers as texts, and of Hole
    Wrap,           \* values of a u_int
    Blocks,         \* PutArray_func_blocks: elements allocated in advance
    Indices,        \* the indices that scripts use
    MaxElements     \* bound: the longest array

Array == 0 .. MAX_ARRAYS - 1
Value == Num \cup Text \cup {Hole}

ASSUME ArraysAssumption  == MAX_ARRAYS \in Nat
ASSUME ValueAssumption   == Num \subseteq Int /\ Num \cap (Text \cup {Hole}) = {} /\ Junk \notin Value
ASSUME RankAssumption    == Rank \in [Value -> Int]
ASSUME NumbersAssumption == Wrap \in Nat \ {0} /\ Blocks \in Nat \ {0} /\ MaxElements \in Nat
ASSUME IndicesAssumption == Indices \subseteq Int

VARIABLES
    arr,    \* g_array[].var, up to elements
    room,   \* g_array[].allocated_elements
    sort,   \* the locals of CMD_SortArray_func while it runs; old is a history variable
    got,    \* what the command delivers into variables of the script
    st      \* "run", "exit" (myexit)

vars == <<arr, room, sort, got, st>>

Sort == [on : BOOLEAN, ar : Array \cup {0}, all : BOOLEAN, i : Nat, j : Nat, best : Nat,
         old : [Array -> Seq(Value \cup {Junk})]]

\* Types; and CMD_SortArray_func never points outside of the array it sorts.
TypeOK ==
    /\ arr \in [Array -> Seq(Value \cup {Junk})]
    /\ room \in [Array -> Nat]
    /\ sort \in Sort
    /\ sort.on => sort.i \in DOMAIN arr[sort.ar] /\ sort.best \in DOMAIN arr[sort.ar]
    /\ got \in Seq(Value \cup {Junk} \cup Int)
    /\ st \in {"run", "exit"}

-----------------------------------------------------------------------------
(* Values *)

\* a is sorted in front of b: unsigned between numbers, otherwise as texts.
Less(a, b) == IF a \in Num /\ b \in Num THEN a % Wrap < b % Wrap ELSE Rank[a] < Rank[b]

Same(a, b) == IF a \in Num /\ b \in Num THEN a % Wrap = b % Wrap ELSE Rank[a] = Rank[b]

\* variable_copy() onto an element keeps the buffers the element points to.
Copied(e, v) == IF e = Junk THEN Junk ELSE v

\* Mutant: the element that is put is not cleared first.
Grown_lessOne(s, at) ==
    [i \in 1 .. IF at > Len(s) THEN at ELSE Len(s) |->
        IF i <= Len(s) THEN s[i] ELSE IF i < at THEN Hole ELSE Junk]

\* The buffer reaches up to element at, the elements behind the old end cleared.
Grown(s, at) ==
    [i \in 1 .. IF at > Len(s) THEN at ELSE Len(s) |->
        IF i <= Len(s) THEN s[i] ELSE IF i <= at THEN Hole ELSE Junk]

Swapped(s, i, k) == [s EXCEPT ![i] = s[k], ![k] = s[i]]

Idle == [on |-> FALSE, ar |-> 0, all |-> FALSE, i |-> 0, j |-> 0, best |-> 0,
         old |-> [x \in Array |-> <<>>]]

-----------------------------------------------------------------------------
Init ==
    /\ arr = [x \in Array |-> <<>>]
    /\ room = [x \in Array |-> 0]
    /\ sort = Idle
    /\ got = <<>>
    /\ st = "run"

Exit == st' = "exit" /\ UNCHANGED <<arr, room, sort, got>>

Deliver(s) == got' = s /\ UNCHANGED <<arr, room, sort, st>>

\* Where PutArray puts: any negative index is the end.
Place(x, idx) == IF idx < 0 THEN Len(arr[x]) + 1 ELSE idx + 1

\* Mutant: the test for a full buffer is off by one.
Roomy_offByOne(x, at) == IF at > Len(arr[x]) /\ at - 1 > room[x] THEN at - 1 + Blocks ELSE room[x]

\* allocated_elements after element at was put.
Roomy(x, at) == IF at > Len(arr[x]) /\ at - 1 >= room[x] THEN at - 1 + Blocks ELSE room[x]

\* CMD_PutArray_func: the values go to the arrays a, a + 1, ...
PutArray(a, idx, values) ==
    LET last   == a + Len(values) - 1
        at     == [x \in Array |-> Place(x, idx)]
        Put(x) == [Grown(arr[x], at[x]) EXCEPT ![at[x]] = Copied(@, values[x - a + 1])]
    IN  IF a < 0 \/ last >= MAX_ARRAYS THEN Exit
        ELSE /\ \A x \in a .. last : at[x] <= MaxElements
             /\ arr' = [x \in Array |-> IF x \in a .. last THEN Put(x) ELSE arr[x]]
             /\ room' = [x \in Array |-> IF x \in a .. last THEN Roomy(x, at[x]) ELSE room[x]]
             /\ got' = <<>>
             /\ UNCHANGED <<sort, st>>

\* Where GetArray reads: a negative index counts from the end.
From(x, idx) == IF idx < 0 THEN Len(arr[x]) + idx + 1 ELSE idx + 1

Readable(x, idx) == x \in Array /\ From(x, idx) \in DOMAIN arr[x]

\* CMD_GetArray_func reads n variables from the arrays a, a + 1, ... up to one
\* that it cannot read; an index far below 0 asks for the number of elements
\* and ends the command.
GetArray(a, idx, n) ==
    \E k \in 1 .. n + 1 :
        /\ \A l \in 1 .. k - 1 : Readable(a + l - 1, idx)
        /\ k <= n => ~Readable(a + k - 1, idx)
        /\ LET read == [l \in 1 .. k - 1 |-> arr[a + l - 1][From(a + l - 1, idx)]]
               x    == a + k - 1
           IN  IF k > n THEN Deliver(read)
               ELSE IF x \in Array /\ From(x, idx) < 1 THEN Deliver(Append(read, Len(arr[x])))
               ELSE Exit

\* CMD_SearchArray_func: the index of the first element like v, or -1.
SearchArray(a, v) ==
    IF a \notin Array THEN Exit
    ELSE \E idx \in -1 .. Len(arr[a]) - 1 :
            /\ idx >= 0 => Same(arr[a][idx + 1], v)
            /\ \A i \in 1 .. (IF idx >= 0 THEN idx ELSE Len(arr[a])) : ~Same(arr[a][i], v)
            /\ Deliver(<<idx>>)

-----------------------------------------------------------------------------
(* CMD_SortArray_func *)

\* Mutant: without the test for an array that is too short.
SortArray_anyLength(a, all) ==
    IF a \notin Array THEN Exit
    ELSE /\ sort' = [on |-> TRUE, ar |-> a, all |-> all, i |-> 1, j |-> 2, best |-> 1, old |-> arr]
         /\ got' = <<>>
         /\ UNCHANGED <<arr, room, st>>

\* Too short an array is left alone.
SortArray(a, all) ==
    IF a \notin Array THEN Exit
    ELSE IF Len(arr[a]) <= 1 THEN Deliver(<<>>)
    ELSE /\ sort' = [on |-> TRUE, ar |-> a, all |-> all, i |-> 1, j |-> 2, best |-> 1, old |-> arr]
         /\ got' = <<>>
         /\ UNCHANGED <<arr, room, st>>

\* Mutant: the last element is never compared.
SortScan_lessOne ==
    LET s == arr[sort.ar]
    IN  /\ sort.on /\ sort.j <= Len(s)
        /\ sort' = [sort EXCEPT !.j = @ + 1,
                                !.best = IF sort.j < Len(s) /\ Less(s[sort.j], s[@]) THEN sort.j ELSE @]
        /\ UNCHANGED <<arr, room, got, st>>

\* One turn of the inner loop: the first of the least elements is kept.
SortScan ==
    LET s == arr[sort.ar]
    IN  /\ sort.on /\ sort.j <= Len(s)
        /\ sort' = [sort EXCEPT !.j = @ + 1, !.best = IF Less(s[sort.j], s[@]) THEN sort.j ELSE @]
        /\ UNCHANGED <<arr, room, got, st>>

\* Mutant: arrays of the same length do not follow the sorted one.
Moves_longer(x) == x = sort.ar \/ (sort.all /\ Len(arr[x]) > Len(arr[sort.ar]))

\* The array itself and, on demand, all that are at least as long.
Moves(x) == x = sort.ar \/ (sort.all /\ Len(arr[x]) >= Len(arr[sort.ar]))

\* The end of a turn of the outer loop.
SortPlace ==
    /\ sort.on /\ sort.j > Len(arr[sort.ar])
    /\ arr' = [x \in Array |-> IF Moves(x) THEN Swapped(arr[x], sort.i, sort.best) ELSE arr[x]]
    /\ sort' = IF sort.i + 1 = Len(arr[sort.ar]) THEN Idle
               ELSE [sort EXCEPT !.i = @ + 1, !.j = sort.i + 2, !.best = sort.i + 1]
    /\ UNCHANGED <<room, got, st>>

-----------------------------------------------------------------------------
\* bms_init(1), before the next input file: the buffers stay allocated.
Restart ==
    /\ arr' = [x \in Array |-> <<>>]
    /\ got' = <<>>
    /\ UNCHANGED <<room, sort, st>>

\* The command names one array, or several that follow it.
Command ==
    /\ ~sort.on /\ st = "run"
    /\ \/ Restart
       \/ \E a \in -1 .. MAX_ARRAYS :
             \/ \E all \in BOOLEAN : SortArray(a, all)
             \/ \E v \in Num \cup Text : SearchArray(a, v)
             \/ \E idx \in Indices, n \in 1 .. MAX_ARRAYS :
                   \/ GetArray(a, idx, n)
                   \/ \E values \in [1 .. n -> Num \cup Text] : PutArray(a, idx, values)

Terminated == st = "exit" /\ UNCHANGED vars

Next == Command \/ SortScan \/ SortPlace \/ Terminated

Spec == Init /\ [][Next]_vars

-----------------------------------------------------------------------------
\* No element shows what the buffer held before: what an array grows by is
\* cleared, also after an earlier input file has left its elements there.
NothingStale == \A x \in Array : \A i \in DOMAIN arr[x] : arr[x][i] # Junk

\* PutArray never writes behind the buffer.
RoomEnough == \A x \in Array : Len(arr[x]) <= room[x]

\* Numbers only, or no number: Less is an order on them.
Uniform(s) == (\A i \in DOMAIN s : s[i] \in Num) \/ (\A i \in DOMAIN s : s[i] \notin Num)

Ascending(s) == \A i \in DOMAIN s : \A k \in i + 1 .. Len(s) : ~Less(s[k], s[i])

Sorts == sort.on /\ ~sort'.on

\* SortArray leaves an array of numbers, or of texts, in ascending order.
SortAscends ==
    [][Sorts /\ Uniform(sort.old[sort.ar]) => Ascending(arr'[sort.ar])]_vars

Orders(n) == {p \in [1 .. n -> 1 .. n] : \A i, k \in 1 .. n : p[i] = p[k] => i = k}

\* The elements of s in the order p, those behind p where they were.
Permuted(s, p) == [i \in 1 .. Len(s) |-> IF i \in DOMAIN p THEN s[p[i]] ELSE s[i]]

\* The array that is sorted and the ones that ALL promises to keep beside it.
Follows(x) == x = sort.ar \/ (sort.all /\ Len(sort.old[x]) >= Len(sort.old[sort.ar]))

Reordered(p) ==
    [x \in Array |-> IF Follows(x) THEN Permuted(sort.old[x], p) ELSE sort.old[x]]

\* SortArray loses and invents nothing, and with ALL the elements of the other
\* arrays stay beside those of the sorted one; all other arrays are untouched.
SortKeepsRows ==
    [][Sorts => \E p \in Orders(Len(sort.old[sort.ar])) : arr' = Reordered(p)]_vars

\* The inductive invariant of CMD_SortArray_func: the rows are whole all the
\* time, what lies in front of i is final, and best is the least element so far.
SortInv ==
    sort.on =>
        LET s == arr[sort.ar]
        IN  /\ sort.ar \in Array
            /\ sort.i < Len(s) /\ sort.i <= sort.best /\ sort.best < sort.j /\ sort.j <= Len(s) + 1
            /\ \E p \in Orders(Len(sort.old[sort.ar])) : arr = Reordered(p)
            /\ Uniform(sort.old[sort.ar]) =>
                  /\ \A a \in 1 .. sort.i - 1 : \A b \in a + 1 .. Len(s) : ~Less(s[b], s[a])
                  /\ \A b \in sort.i .. sort.j - 1 : ~Less(s[b], s[sort.best])
=============================================================================
