------------------------------ MODULE BmsOrderly ------------------------------
(***************************************************************************)
(* The scripts that start_bms() runs the way their text reads: blocks that *)
(* nest, and jumps that its way of skipping over commands can carry out.   *)
(* The theorems on pending jumps are about these; what the others do       *)
(* instead is told in the README.                                          *)
(***************************************************************************)
EXTENDS BmsScript

\* Where a block opens.
Openers(p) == {o \in DOMAIN p : p[o].type \in OpenLoop \cup Branch \cup {"StartFunction"}}

Ends == CloseLoop \cup {"If_Return", "EndIf", "EndFunction"}

EndOf(type) == IF type \in OpenLoop THEN CloseLoop
               ELSE IF type \in Branch THEN {"If_Return", "EndIf"} ELSE {"EndFunction"}

Nested(p, close) ==
    /\ close \in [Openers(p) -> DOMAIN p]
    /\ \A o \in Openers(p) : o < close[o] /\ p[close[o]].type \in EndOf(p[o].type)
    /\ \A q \in DOMAIN p : p[q].type \in Ends => \E o \in Openers(p) : close[o] = q
    /\ \A o, q \in Openers(p) : o < q /\ q <= close[o] =>
                                    close[q] < close[o] /\ p[q].type # "StartFunction"
    /\ \A q \in DOMAIN p : p[q].type = "ForTo" => q - 1 \in Openers(p) /\ p[q - 1].type \in OpenLoop

\* Where each block of p ends: at the first command behind it by which as many
\* blocks have ended as were opened; 0 where there is none.
Matching(p) ==
    [o \in Openers(p) |->
        LET ends == {q \in o + 1 .. Len(p) :
                        Cardinality(Openers(p) \cap o .. q) = Cardinality({k \in o .. q : p[k].type \in Ends})}
        IN  IF ends = {} THEN 0 ELSE First(ends)]

\* The blocks that position i is in.
Enclosing(p, close, i) == {o \in Openers(p) : o < i /\ i <= close[o]}

\* No loop is opened between i and the end of a loop or function around it, or of the script.
Quiet(p, close, i) ==
    \E e \in i .. Len(p) + 1 :
        /\ e = Len(p) + 1 \/ \E o \in Enclosing(p, close, i) : p[o].type \notin Branch /\ close[o] = e
        /\ \A q \in i .. e - 1 : p[q].type \notin OpenLoop

\* In a function, and there in no loop.
InFunction(p, close, i) ==
    /\ \E o \in Enclosing(p, close, i) : p[o].type = "StartFunction"
    /\ \A o \in Enclosing(p, close, i) : p[o].type \notin OpenLoop

\* No loop stands behind a Continue in the loop that it continues, which may be
\* that of a call.
ContinuesLast(p, close) ==
    LET continues == {i \in DOMAIN p : p[i].type = "Continue" /\ p[i].name = NoName}
    IN  /\ \A i \in continues : Quiet(p, close, i)
        /\ (\E i \in continues : InFunction(p, close, i)) =>
               \A i \in DOMAIN p : p[i].type = "CallFunction" => Quiet(p, close, i)

\* A jump to a label leads out of blocks only, back to a loop or to the outermost
\* level, and not past functions.
JumpsOutward(p, close) ==
    \A j \in DOMAIN p : p[j].type \in Jump /\ p[j].name # NoName =>
        /\ \A q \in DOMAIN p : p[q].type # "StartFunction"
        /\ \A l \in DOMAIN p : p[l].type = "Label" /\ p[l].name = p[j].name =>
              /\ Enclosing(p, close, l) \subseteq Enclosing(p, close, j)
              /\ l < j => \/ Enclosing(p, close, l) = {}
                         \/ \E o \in Enclosing(p, close, l) :
                               p[o].type \in OpenLoop /\ \A q \in Enclosing(p, close, l) : q <= o

Orderly(p, close) == Nested(p, close) /\ ContinuesLast(p, close) /\ JumpsOutward(p, close)

IsOrderly(p) == \E close \in [Openers(p) -> DOMAIN p] : Orderly(p, close)

\* Its blocks are those that the text shows.
Covered(p) == Orderly(p, Matching(p))
===============================================================================
