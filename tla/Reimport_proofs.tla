---------------------------- MODULE Reimport_proofs ----------------------------
(***************************************************************************)
(* Proofs about Reimport, for every script, archive and folder, and        *)
(* wherever a run stops: in modes 1 and 2 a Log writes into its own cells  *)
(* only and the script goes on where it was; with -0, mode 1 writes        *)
(* nothing at all; what is noted of the fields of a Log is true, in modes  *)
(* 2 and 3, for the scripts that read the fields of a table; and over      *)
(* files that share no cells, mode 1 puts back the files of the folder.    *)
(***************************************************************************)
EXTENDS Reimport, TLAPS, WellFoundedInduction

-----------------------------------------------------------------------------
(* Induction *)

\* A set of natural numbers that is not empty has a least one.
LEMMA NatLeast ==
    ASSUME NEW S, S \subseteq Nat, S # {}
    PROVE  \E x \in S : \A y \in S : x <= y
<1> DEFINE R == OpToRel(<, Nat)
<1>1. IsWellFoundedOn(R, Nat)
  BY NatLessThanWellFounded
<1>2. \A x, y \in Nat : x < y => <<x, y>> \in R
  BY DEF OpToRel
<1> HIDE DEF R
<1>3. PICK x \in S : \A y \in S : ~(<<y, x>> \in R)
  BY <1>1, WFMin
<1>4. ASSUME NEW y \in S PROVE x <= y
  <2>1. ~(<<y, x>> \in R) /\ x \in Nat /\ y \in Nat
    BY <1>3
  <2>2. ~(y < x)
    BY <1>2, <2>1
  <2> QED  BY <2>1, <2>2
<1> QED  BY <1>4

\* Induction, for a set instead of a predicate.
LEMMA NatInduct ==
    ASSUME NEW S, 0 \in S, \A k \in Nat : k \in S => k + 1 \in S
    PROVE  Nat \subseteq S
<1> SUFFICES ASSUME ~(Nat \subseteq S) PROVE FALSE
  OBVIOUS
<1>1. PICK x \in Nat \ S : \A y \in Nat \ S : x <= y
  BY NatLeast
<1>2. x \in Nat /\ x \notin S /\ x # 0
  BY <1>1
<1>3. x - 1 \in Nat /\ x - 1 \notin Nat \ S
  BY <1>1, <1>2
<1>4. (x - 1) + 1 \in S
  BY <1>3
<1> QED  BY <1>2, <1>4

-----------------------------------------------------------------------------
(* The Math of a field *)

\* y is what each of the first n ops makes of x.
Chain(y, val, x, ops, n) ==
    y = [k \in 0 .. n |-> IF k = 0 THEN x ELSE Apply(val, y[k - 1], ops[k])]

LEMMA ChainExists ==
    ASSUME NEW val, NEW x, NEW ops
    PROVE  \A n \in Nat : \E y : Chain(y, val, x, ops, n)
<1> DEFINE S == {n \in Nat : \E y : Chain(y, val, x, ops, n)}
<1>1. 0 \in S
  <2> DEFINE y == [k \in 0 .. 0 |-> x]
  <2>1. Chain(y, val, x, ops, 0)
    BY DEF Chain
  <2> QED  BY <2>1
<1>2. ASSUME NEW n \in Nat, n \in S PROVE n + 1 \in S
  <2>1. PICK y : Chain(y, val, x, ops, n)
    BY <1>2
  <2> DEFINE a(z, k) == Apply(val, z, ops[k])
             z == [k \in 0 .. n + 1 |-> IF k <= n THEN y[k] ELSE a(y[n], n + 1)]
  <2>2. y = [k \in 0 .. n |-> IF k = 0 THEN x ELSE a(y[k - 1], k)]
    BY <2>1 DEF Chain
  <2> HIDE DEF a
  <2>3. \A k \in 0 .. n : z[k] = y[k]
    OBVIOUS
  <2>4. z[n + 1] = a(y[n], n + 1)
    OBVIOUS
  <2>5. ASSUME NEW k \in 0 .. n + 1
        PROVE  z[k] = IF k = 0 THEN x ELSE a(z[k - 1], k)
    <3>1. CASE k = 0
      BY <2>2, <2>3, <3>1
    <3>2. CASE k \in 1 .. n
      <4>1. k - 1 \in 0 .. n /\ k \in 0 .. n /\ k # 0
        BY <3>2
      <4> HIDE DEF z
      <4> QED  BY <2>2, <2>3, <4>1
    <3>3. CASE k = n + 1
      <4>1. k - 1 = n /\ n \in 0 .. n /\ k # 0
        BY <3>3
      <4> HIDE DEF z
      <4> QED  BY <2>3, <2>4, <3>3, <4>1
    <3> QED  BY <3>1, <3>2, <3>3
  <2>6. z = [k \in 0 .. n + 1 |-> z[k]]
    OBVIOUS
  <2> HIDE DEF z
  <2>7. z = [k \in 0 .. n + 1 |-> IF k = 0 THEN x ELSE a(z[k - 1], k)]
    BY <2>5, <2>6
  <2>8. Chain(z, val, x, ops, n + 1)
    BY <2>7 DEF Chain, a
  <2> QED  BY <2>8
<1> HIDE DEF S
<1>3. Nat \subseteq S
  BY <1>1, <1>2, NatInduct
<1> QED  BY <1>3 DEF S

Unfolded(y, val, x, ops, n) ==
    y[0] = x /\ \A k \in 1 .. n : y[k] = Apply(val, y[k - 1], ops[k])

LEMMA ChainUnfolds ==
    ASSUME NEW val, NEW x, NEW ops, NEW n \in Nat, NEW y, Chain(y, val, x, ops, n)
    PROVE  Unfolded(y, val, x, ops, n)
<1> DEFINE a(z, k) == Apply(val, z, ops[k])
<1>1. y = [k \in 0 .. n |-> IF k = 0 THEN x ELSE a(y[k - 1], k)]
  BY DEF Chain
<1> HIDE DEF a
<1>2. y[0] = x
  BY <1>1
<1>3. ASSUME NEW k \in 1 .. n PROVE y[k] = a(y[k - 1], k)
  <2>1. k \in 0 .. n /\ k # 0
    OBVIOUS
  <2> QED  BY <1>1, <2>1
<1> QED  BY <1>2, <1>3 DEF a, Unfolded

\* The value of its operand is all that the Math needs.
LEMMA ApplyAgrees ==
    ASSUME NEW val, NEW other, NEW x, NEW o, val[o.by] = other[o.by]
    PROVE  Apply(val, x, o) = Apply(other, x, o)
  BY DEF Apply

LEMMA ApplyType ==
    ASSUME NEW val, NEW x \in Int, NEW o, o.op \in {"+", "-", "*", "/"}, val[o.by] \in Int
    PROVE  Apply(val, x, o) \in Int
<1> DEFINE w == val[o.by]
<1>1. PICK v \in Int : v = w
  OBVIOUS
<1>2. Quotient(x, v) \in Int
  <2>1. CASE v % M = 0
    BY <2>1 DEF Quotient
  <2>2. CASE v % M # 0
    <3>1. PICK d \in Nat \ {0} : d = v % M
      BY <2>2, NumberAssumption
    <3>2. PICK n \in Nat : n = x % M
      BY NumberAssumption
    <3>3. n \div d \in Int
      OBVIOUS
    <3> QED  BY <2>2, <3>1, <3>2, <3>3 DEF Quotient
  <2> QED  BY <2>1, <2>2
<1>3. x + v \in Int /\ x - v \in Int /\ x * v \in Int
  OBVIOUS
<1> QED  BY <1>1, <1>2, <1>3 DEF Apply

LEMMA ChainsAgree ==
    ASSUME NEW val, NEW other, NEW x, NEW ops, NEW more, NEW n \in Nat, NEW l \in Nat, n <= l,
           \A k \in 1 .. n : ops[k] = more[k] /\ val[ops[k].by] = other[ops[k].by],
           NEW y, NEW z, Chain(y, val, x, ops, n), Chain(z, other, x, more, l)
    PROVE  y[n] = z[n]
<1> DEFINE S == {k \in Nat : k <= n => y[k] = z[k]}
<1>0. Unfolded(y, val, x, ops, n) /\ Unfolded(z, other, x, more, l)
  BY ChainUnfolds
<1>1. 0 \in S
  BY <1>0 DEF Unfolded
<1>2. ASSUME NEW k \in Nat, k \in S PROVE k + 1 \in S
  <2>1. CASE k + 1 <= n
    <3>1. k + 1 \in 1 .. n /\ k + 1 \in 1 .. l /\ (k + 1) - 1 = k /\ y[k] = z[k]
      BY <1>2, <2>1
    <3>2. y[k + 1] = Apply(val, y[k], ops[k + 1])
      BY <1>0, <3>1 DEF Unfolded
    <3>3. z[k + 1] = Apply(other, z[k], more[k + 1])
      BY <1>0, <3>1 DEF Unfolded
    <3>4. Apply(val, y[k], ops[k + 1]) = Apply(other, y[k], ops[k + 1])
      BY <3>1, ApplyAgrees
    <3> QED  BY <3>1, <3>2, <3>3, <3>4
  <2>2. CASE ~(k + 1 <= n)
    BY <2>2
  <2> QED  BY <2>1, <2>2
<1> HIDE DEF S
<1>3. Nat \subseteq S
  BY <1>1, <1>2, NatInduct
<1> QED  BY <1>3 DEF S

LEMMA AppliedIs ==
    ASSUME NEW val, NEW x, NEW ops, Len(ops) \in Nat
    PROVE  \E y : Chain(y, val, x, ops, Len(ops)) /\ Applied(val, x, ops) = y[Len(ops)]
<1> DEFINE y == CHOOSE z : Chain(z, val, x, ops, Len(ops))
<1>1. Chain(y, val, x, ops, Len(ops))
  BY ChainExists
<1>2. Applied(val, x, ops) = y[Len(ops)]
  BY DEF Applied, Chain
<1> QED  BY <1>1, <1>2

LEMMA AppliedEmpty ==
    ASSUME NEW val, NEW x
    PROVE  Applied(val, x, <<>>) = x
<1>1. Len(<<>>) = 0
  OBVIOUS
<1>2. PICK y : Chain(y, val, x, <<>>, 0) /\ Applied(val, x, <<>>) = y[0]
  BY <1>1, AppliedIs
<1>3. Unfolded(y, val, x, <<>>, 0)
  BY <1>2, ChainUnfolds
<1> QED  BY <1>2, <1>3 DEF Unfolded

\* Only the values of the operands matter.
LEMMA AppliedAgrees ==
    ASSUME NEW val, NEW other, NEW x, NEW ops, Len(ops) \in Nat,
           \A k \in 1 .. Len(ops) : val[ops[k].by] = other[ops[k].by]
    PROVE  Applied(val, x, ops) = Applied(other, x, ops)
<1>1. PICK y : Chain(y, val, x, ops, Len(ops)) /\ Applied(val, x, ops) = y[Len(ops)]
  BY AppliedIs
<1>2. PICK z : Chain(z, other, x, ops, Len(ops)) /\ Applied(other, x, ops) = z[Len(ops)]
  BY AppliedIs
<1> QED  BY <1>1, <1>2, ChainsAgree

\* One more Math.
LEMMA AppliedAppend ==
    ASSUME NEW T, NEW val, NEW x, NEW ops \in Seq(T), NEW o \in T
    PROVE  Applied(val, x, Append(ops, o)) = Apply(val, Applied(val, x, ops), o)
<1> DEFINE more == Append(ops, o)
           n == Len(ops)
<1>1. /\ n \in Nat /\ Len(more) = n + 1 /\ more[n + 1] = o
      /\ \A k \in 1 .. n : ops[k] = more[k]
  OBVIOUS
<1> HIDE DEF more, n
<1>2. PICK y : Chain(y, val, x, ops, n) /\ Applied(val, x, ops) = y[n]
  BY <1>1, AppliedIs DEF n
<1>3. PICK z : Chain(z, val, x, more, n + 1) /\ Applied(val, x, more) = z[n + 1]
  BY <1>1, AppliedIs
<1>4. n + 1 \in Nat /\ n <= n + 1 /\ n + 1 \in 1 .. n + 1 /\ (n + 1) - 1 = n
  BY <1>1
<1>5. y[n] = z[n]
  BY <1>1, <1>2, <1>3, <1>4, ChainsAgree
<1>6. z[n + 1] = Apply(val, z[n], o)
  <2>1. Unfolded(z, val, x, more, n + 1)
    BY <1>3, <1>4, ChainUnfolds
  <2> QED  BY <1>1, <1>4, <2>1 DEF Unfolded
<1> QED  BY <1>2, <1>3, <1>5, <1>6 DEF more

LEMMA AppliedType ==
    ASSUME NEW val \in [Var -> Int], NEW x \in Int,
           NEW ops \in Seq([op : {"+", "-", "*", "/"}, by : Var])
    PROVE  Applied(val, x, ops) \in Int
<1> DEFINE n == Len(ops)
<1>1. n \in Nat
  OBVIOUS
<1>2. \A k \in 1 .. n : ops[k].op \in {"+", "-", "*", "/"} /\ val[ops[k].by] \in Int
  <2> DEFINE T == [op : {"+", "-", "*", "/"}, by : Var]
  <2>1. \A o \in T : o.op \in {"+", "-", "*", "/"} /\ val[o.by] \in Int
    OBVIOUS
  <2> HIDE DEF T
  <2>2. \A k \in 1 .. n : ops[k] \in T
    <3>1. ops \in Seq(T)
      BY DEF T
    <3> QED  BY <3>1
  <2> QED  BY <2>1, <2>2
<1> HIDE DEF n
<1>3. PICK y : Chain(y, val, x, ops, n) /\ Applied(val, x, ops) = y[n]
  BY <1>1, AppliedIs DEF n
<1>0. Unfolded(y, val, x, ops, n)
  BY <1>1, <1>3, ChainUnfolds
<1> DEFINE S == {k \in Nat : k <= n => y[k] \in Int}
<1>4. 0 \in S
  BY <1>0 DEF Unfolded
<1>5. ASSUME NEW k \in Nat, k \in S PROVE k + 1 \in S
  <2>1. CASE k + 1 <= n
    <3>1. k + 1 \in 1 .. n /\ (k + 1) - 1 = k /\ y[k] \in Int
      BY <1>1, <1>5, <2>1
    <3>2. y[k + 1] = Apply(val, y[k], ops[k + 1])
      BY <1>0, <3>1 DEF Unfolded
    <3>3. ops[k + 1].op \in {"+", "-", "*", "/"} /\ val[ops[k + 1].by] \in Int
      BY <1>2, <3>1
    <3>4. Apply(val, y[k], ops[k + 1]) \in Int
      BY <3>1, <3>3, ApplyType
    <3> QED  BY <3>2, <3>4
  <2>2. CASE ~(k + 1 <= n)
    BY <2>2
  <2> QED  BY <2>1, <2>2
<1> HIDE DEF S
<1>6. Nat \subseteq S
  BY <1>4, <1>5, NatInduct
<1> QED  BY <1>1, <1>3, <1>6 DEF S

Noted == [op : {"+", "-", "*"}, by : Var]

LEMMA UndoneType ==
    ASSUME NEW val \in [Var -> Int], NEW x \in Int, NEW ops \in Seq(Noted)
    PROVE  Undone(val, x, ops) \in Int
<1> DEFINE T == [op : {"+", "-", "*", "/"}, by : Var]
           back == [k \in DOMAIN ops |-> RevOp(ops[k])]
<1>1. \A o \in Noted : RevOp(o) \in T
  BY DEF RevOp, Noted
<1>2. DOMAIN ops = 1 .. Len(ops) /\ Len(ops) \in Nat /\ \A k \in DOMAIN ops : ops[k] \in Noted
  OBVIOUS
<1> HIDE DEF T
<1>3. back \in Seq(T)
  BY <1>1, <1>2
<1> HIDE DEF back
<1>4. Reverse(back) \in Seq(T)
  BY <1>3 DEF Reverse
<1>5. Applied(val, x, Reverse(back)) \in Int
  BY <1>4, AppliedType DEF T
<1> QED  BY <1>5 DEF Undone, back
-----------------------------------------------------------------------------
(* The invariant *)

Machine == [pos : Nat, val : [Var -> Int]]
Notes   == [at : Nat \cup {None}, ops : Seq(Noted)]

TypeInv ==
    /\ job \in DOMAIN Jobs
    /\ archive \in Seq(Int) /\ before \in Seq(Int)
    /\ folder \in [DOMAIN folder -> Seq(Int)]
    /\ m \in Machine
    /\ ref \in [Var -> Notes]
    /\ pc \in Nat \ {0}
    /\ step \in {"next", "fit", "append", "offset", "data", "size", "shift", "exit"}

\* While a Log is under way, the archive is at the place where the file is to be
\* written, and what is moved is in the archive, behind the old file.
LogInv ==
    /\ DOMAIN log = {"name", "oldoff", "offset", "old", "data", "from", "tmpoff", "forced"}
    /\ step \notin {"next", "exit"} =>
          /\ pc \in DOMAIN Script /\ Cmd.op = "log"
          /\ log.offset \in Nat /\ log.old \in Int /\ log.oldoff \in Int
          /\ log.name \in DOMAIN folder /\ log.data \in Seq(Int) /\ log.forced \in BOOLEAN
          /\ step \in {"fit", "shift", "offset", "data"} => m.pos = log.offset
          /\ step = "fit" \/ MODE # 3 => log.oldoff >= 0
          /\ step = "fit" /\ log.forced => Size > log.old
          /\ step \in {"append", "offset"} => HasField(Cmd.var)
    /\ step = "shift" =>
          /\ MODE = 3 /\ End >= 0
          /\ log.tmpoff \in Nat
          /\ IF Diff < 0 THEN log.tmpoff >= End ELSE log.tmpoff <= Len(archive)

\* In modes 1 and 2 the place is the old one or behind all that was there when the
\* Log began, and the script will go on where it was.
PlaceInv ==
    MODE # 3 /\ step \notin {"next", "exit"} =>
        /\ "retry" \in Answers \/ log.oldoff = log.from
        /\ Len(before) <= Len(archive)
        /\ step \in {"offset", "data"} => log.offset >= Len(before)

Inv == TypeInv /\ LogInv /\ PlaceInv

\* What a step may do to the archive, and where it may leave the script.
WritesHere ==
    /\ Len(archive') >= Len(archive)
    /\ \A k \in DOMAIN archive : archive'[k] # archive[k] => Own(k)

Returns == Lands /\ "retry" \notin Answers => m'.pos = log.from

Safe == Inv' /\ (MODE # 3 => WritesHere /\ Returns)

-----------------------------------------------------------------------------
(* The operators *)

\* What is assumed of the scripts holds for the one that runs.
LEMMA ScriptType ==
    ASSUME job \in DOMAIN Jobs
    PROVE  /\ Script \in Seq({Script[k] : k \in DOMAIN Script})
           /\ \A k \in DOMAIN Script :
                 /\ Script[k].op \in {"get", "math", "savepos", "goto", "log"}
                 /\ Script[k].var \in Var /\ Script[k].size \in Var
                 /\ Script[k].op = "get" => Script[k].at \in Var \cup {""}
                 /\ Script[k].op = "math" => Script[k].by \in Noted
  BY ScriptAssumption DEF Script, Noted

LEMMA FillType ==
    ASSUME NEW n \in Int, NEW x \in Int
    PROVE  /\ Fill(n, x) \in Seq(Int)
           /\ n >= 0 => Len(Fill(n, x)) = n
           /\ n <= 0 => Len(Fill(n, x)) = 0
<1> DEFINE f == [k \in 1 .. n |-> x]
<1>1. Fill(n, x) = f
  BY DEF Fill
<1>2. CASE n >= 0
  BY <1>1, <1>2
<1>3. CASE ~(n >= 0)
  <2>1. 1 .. n = 1 .. 0
    BY <1>3
  <2>2. [k \in 1 .. 0 |-> x] \in Seq(Int) /\ Len([k \in 1 .. 0 |-> x]) = 0
    OBVIOUS
  <2> QED  BY <1>1, <1>3, <2>1, <2>2
<1> QED  BY <1>2, <1>3

\* A write at p changes the cells behind p only, as many as are written.
LEMMA PutWrites ==
    ASSUME NEW a \in Seq(Int), NEW p \in Nat, NEW s \in Seq(Int)
    PROVE  /\ Put(a, p, s) \in Seq(Int)
           /\ Len(Put(a, p, s)) >= Len(a)
           /\ \A k \in DOMAIN a : Put(a, p, s)[k] # a[k] => k > p /\ k <= p + Len(s)
<1>1. CASE s = <<>>
  BY <1>1 DEF Put
<1>2. CASE s # <<>>
  <2> DEFINE n == IF Len(a) > p + Len(s) THEN Len(a) ELSE p + Len(s)
             f == [k \in 1 .. n |-> IF k > p /\ k <= p + Len(s) THEN s[k - p]
                                    ELSE IF k <= Len(a) THEN a[k] ELSE 0]
  <2>1. Put(a, p, s) = f
    BY <1>2 DEF Put
  <2>2. n \in Nat /\ n >= Len(a)
    OBVIOUS
  <2>3. ASSUME NEW k \in 1 .. n
        PROVE  (IF k > p /\ k <= p + Len(s) THEN s[k - p]
                ELSE IF k <= Len(a) THEN a[k] ELSE 0) \in Int
    <3>1. CASE k > p /\ k <= p + Len(s)
      <4>1. k - p \in 1 .. Len(s)
        BY <3>1
      <4>2. s[k - p] \in Int
        BY <4>1
      <4> QED  BY <3>1, <4>2
    <3>2. CASE ~(k > p /\ k <= p + Len(s)) /\ k <= Len(a)
      <4>1. a[k] \in Int
        BY <3>2
      <4> QED  BY <3>2, <4>1
    <3>3. CASE ~(k > p /\ k <= p + Len(s)) /\ ~(k <= Len(a))
      BY <3>3
    <3> QED  BY <3>1, <3>2, <3>3
  <2>4. f \in Seq(Int) /\ Len(f) = n
    BY <2>2, <2>3
  <2>5. ASSUME NEW k \in DOMAIN a, ~(k > p /\ k <= p + Len(s))
        PROVE  f[k] = a[k]
    <3>1. k \in 1 .. Len(a) /\ k \in 1 .. n
      BY <2>2
    <3> QED  BY <3>1, <2>5
  <2> HIDE DEF f, n
  <2> QED  BY <2>1, <2>2, <2>4, <2>5
<1> QED  BY <1>1, <1>2

\* One cell.
LEMMA PutCell ==
    ASSUME NEW a \in Seq(Int), NEW p \in Nat, NEW x \in Int
    PROVE  /\ Put(a, p, <<x>>) \in Seq(Int)
           /\ Len(Put(a, p, <<x>>)) >= Len(a)
           /\ \A k \in DOMAIN a : Put(a, p, <<x>>)[k] # a[k] => k - 1 = p
<1>1. <<x>> \in Seq(Int) /\ Len(<<x>>) = 1
  OBVIOUS
<1> DEFINE b == Put(a, p, <<x>>)
<1>2. /\ b \in Seq(Int) /\ Len(b) >= Len(a)
      /\ \A k \in DOMAIN a : b[k] # a[k] => k > p /\ k <= p + 1
  BY <1>1, PutWrites
<1>3. \A k \in DOMAIN a : k \in Int /\ (k > p /\ k <= p + 1 => k - 1 = p)
  OBVIOUS
<1> HIDE DEF b
<1> QED  BY <1>2, <1>3 DEF b

\* Where Get reads is a number.
LEMMA AtType ==
    ASSUME NEW s \in Machine, NEW k \in DOMAIN Script, Script[k].op = "get", job \in DOMAIN Jobs
    PROVE  At(s, Script[k]) \in Int
<1>1. s.pos \in Int /\ s.val \in [Var -> Int]
  BY DEF Machine
<1>2. Script[k].at \in Var \cup {""}
  BY ScriptType
<1>3. CASE Script[k].at = Here
  BY <1>1, <1>3 DEF At
<1>4. CASE Script[k].at # Here
  BY <1>1, <1>2, <1>4 DEF At, Here
<1> QED  BY <1>3, <1>4

LEMMA ExecType ==
    ASSUME NEW a \in Seq(Int), NEW s \in Machine,
           NEW k \in DOMAIN Script, ~Fails(a, s, Script[k]), job \in DOMAIN Jobs
    PROVE  Exec(a, s, Script[k]) \in Machine
<1> DEFINE c == Script[k]
<1>0. c.var \in Var /\ c.op \in {"get", "math", "savepos", "goto", "log"}
  BY ScriptType
<1>1. CASE c.op = "get"
  <2>1. At(s, c) \in 0 .. Len(a) - 1
    BY <1>1, AtType DEF Fails
  <2>2. At(s, c) + 1 \in Nat /\ a[At(s, c) + 1] \in Int
    BY <2>1
  <2>3. [s.val EXCEPT ![c.var] = a[At(s, c) + 1]] \in [Var -> Int]
    BY <2>2, <1>0 DEF Machine
  <2>4. Exec(a, s, c) = [pos |-> IF c.at = Here THEN s.pos + 1 ELSE s.pos,
                         val |-> [s.val EXCEPT ![c.var] = a[At(s, c) + 1]]]
    BY <1>1 DEF Exec
  <2>5. (IF c.at = Here THEN s.pos + 1 ELSE s.pos) \in Nat
    BY DEF Machine
  <2> QED  BY <2>3, <2>4, <2>5 DEF Machine
<1>2. CASE c.op = "math"
  <2>1. c.by.op \in {"+", "-", "*", "/"} /\ c.by.by \in Var
    BY <1>2, ScriptType DEF Noted
  <2>2. Apply(s.val, s.val[c.var], c.by) \in Int
    BY <2>1, <1>0, ApplyType DEF Machine
  <2>3. Exec(a, s, c) = [s EXCEPT !.val[c.var] = Apply(s.val, s.val[c.var], c.by)]
    BY <1>2 DEF Exec
  <2> QED  BY <2>2, <2>3, <1>0 DEF Machine
<1>3. CASE c.op = "savepos"
  <2>1. Exec(a, s, c) = [s EXCEPT !.val[c.var] = s.pos]
    BY <1>3 DEF Exec
  <2> QED  BY <2>1, <1>0 DEF Machine
<1>4. CASE c.op = "goto"
  <2>1. Exec(a, s, c) = [s EXCEPT !.pos = s.val[c.var]]
    BY <1>4 DEF Exec
  <2>2. s.val[c.var] \in Nat
    BY <1>0, <1>4 DEF Machine, Fails
  <2> QED  BY <2>1, <2>2, <1>0 DEF Machine
<1>5. CASE c.op = "log"
  BY <1>5 DEF Exec
<1> QED  BY <1>0, <1>1, <1>2, <1>3, <1>4, <1>5

\* A place for the position.
LEMMA PosType ==
    ASSUME NEW s \in Machine, NEW p \in Nat
    PROVE  [s EXCEPT !.pos = p] \in Machine /\ [s EXCEPT !.pos = p].pos = p
  BY DEF Machine

LEMMA FreshType == Fresh \in Machine
  BY ValueAssumption DEF Fresh, Machine

LEMMA SeqGrows ==
    ASSUME NEW S, NEW T, S \subseteq T, NEW s \in Seq(S)
    PROVE  s \in Seq(T)
  OBVIOUS

LEMMA JoinType ==
    ASSUME NEW s \in Seq(Int), NEW t \in Seq(Int)
    PROVE  /\ s \o t \in Seq(Int) /\ Len(s \o t) = Len(s) + Len(t)
           /\ \A k \in DOMAIN s : (s \o t)[k] = s[k]
  OBVIOUS

\* What takes the place of a file that fits is as long as the old one; what is
\* forced is as long as it is.
LEMMA PaddedType ==
    ASSUME log.data \in Seq(Int), log.old \in Int
    PROVE  /\ Padded \in Seq(Int) /\ Size \in Nat
           /\ Size <= log.old => Len(Padded) = log.old
           /\ Size > log.old => Len(Padded) = Size
<1> DEFINE d == log.data
           n == log.old - Len(d)
           z == Fill(n, 0)
<1>1. n \in Int /\ d \in Seq(Int) /\ Len(d) \in Nat /\ n = log.old - Len(d)
  OBVIOUS
<1> HIDE DEF n
<1>2. z \in Seq(Int) /\ (n >= 0 => Len(z) = n) /\ (n <= 0 => Len(z) = 0)
  <2>1. 0 \in Int
    OBVIOUS
  <2> QED  BY <1>1, <2>1, FillType
<1>3. Padded = d \o z /\ Size = Len(d)
  BY DEF Padded, Size, d, n, z
<1> HIDE DEF d, z
<1>4. d \o z \in Seq(Int) /\ Len(d \o z) = Len(d) + Len(z)
  BY <1>1, <1>2, JoinType
<1>5. Len(z) \in Nat
  BY <1>2
<1>6. Size <= log.old => Len(Padded) = log.old
  BY <1>1, <1>2, <1>3, <1>4, <1>5
<1>7. Size > log.old => Len(Padded) = Size
  BY <1>1, <1>2, <1>3, <1>4, <1>5
<1> QED  BY <1>1, <1>3, <1>4, <1>6, <1>7

-----------------------------------------------------------------------------
(* The steps *)

LEMMA InitInv == Init => Inv
<1> SUFFICES ASSUME Init PROVE Inv
  OBVIOUS
<1>1. /\ job \in DOMAIN Jobs /\ archive \in Seq(Int) /\ before = archive
      /\ folder \in [DOMAIN folder -> Seq(Int)]
  BY FilesAssumption DEF Init
<1>2. m = Fresh /\ pc = 1 /\ step = "next" /\ ref = [v \in Var |-> NoField]
  BY DEF Init, Begin
<1>3. NoField \in Notes
  BY DEF NoField, Notes
<1>4. ref \in [Var -> Notes]
  BY <1>2, <1>3
<1>5. DOMAIN log = {"name", "oldoff", "offset", "old", "data", "from", "tmpoff", "forced"}
  BY DEF Init, Begin, NoLog
<1>6. TypeInv
  BY <1>1, <1>2, <1>4, FreshType DEF TypeInv
<1> QED  BY <1>1, <1>2, <1>5, <1>6 DEF Inv, LogInv, PlaceInv

\* A command of the script that is not the last has a next one.
LEMMA NowCommand ==
    ASSUME NEW op, TypeInv, Now(op)
    PROVE  pc \in DOMAIN Script /\ Cmd = Script[pc] /\ Cmd.op = op /\ step = "next"
<1> DEFINE S == {Script[k] : k \in DOMAIN Script}
<1>1. Script \in Seq(S)
  BY ScriptType DEF S, TypeInv
<1> HIDE DEF S
<1>2. DOMAIN Script = 1 .. Len(Script) /\ Len(Script) \in Nat
  BY <1>1
<1>3. pc \in Nat \ {0} /\ pc <= Len(Script) /\ Cmd.op = op /\ step = "next"
  BY DEF Now, TypeInv
<1> QED  BY <1>2, <1>3 DEF Cmd

LEMMA JobStays ==
    ASSUME job' = job
    PROVE  Script' = Script /\ Answers' = Answers /\ MODE' = MODE
  BY DEF Script, Answers, MODE

\* A step that writes nothing writes into its own cells.
LEMMA NoWrite ==
    ASSUME TypeInv, archive' = archive
    PROVE  WritesHere
<1>1. Len(archive) \in Nat
  BY DEF TypeInv
<1> QED  BY <1>1 DEF WritesHere

\* A step to or from the commands of the script.
LEMMA NextInv ==
    ASSUME TypeInv', step' \in {"next", "exit"}, log' \in {log, NoLog}, LogInv
    PROVE  Inv'
<1>1. DOMAIN NoLog = {"name", "oldoff", "offset", "old", "data", "from", "tmpoff", "forced"}
  BY DEF NoLog
<1>2. DOMAIN log' = {"name", "oldoff", "offset", "old", "data", "from", "tmpoff", "forced"}
  BY <1>1 DEF LogInv
<1> QED  BY <1>2 DEF Inv, LogInv, PlaceInv

LEMMA CommandStep ==
    ASSUME Inv, Get \/ Math \/ SavePos \/ GoTo, job' = job
    PROVE  Safe
<1>1. step = "next" /\ UNCHANGED <<archive, folder, before>>
  BY DEF Get, Math, SavePos, GoTo, Do, Exit, Now
<1>2. TypeInv /\ LogInv /\ job \in DOMAIN Jobs
  BY DEF Inv, TypeInv
<1>3. ASSUME Exit PROVE Inv'
  <2>1. UNCHANGED <<m, pc, ref, log>> /\ step' = "exit"
    BY <1>3 DEF Exit
  <2>2. TypeInv'
    BY <1>1, <1>2, <2>1 DEF TypeInv
  <2> QED  BY <1>2, <2>1, <2>2, NextInv
<1>4. ASSUME ~Fails(archive, m, Cmd), Do PROVE Inv'
  <2>1. pc \in DOMAIN Script /\ Cmd = Script[pc]
    BY <1>2, NowCommand DEF Get, Math, SavePos, GoTo
  <2>2. m' = Exec(archive, m, Cmd) /\ pc' = pc + 1 /\ step' = step /\ log' = log
    BY <1>4 DEF Do
  <2>3. m' \in Machine
    BY <1>2, <1>4, <2>1, <2>2, ExecType DEF TypeInv
  <2>4. ref' \in [Var -> Notes]
    <3>1. CASE Get
      <4>1. /\ ref' = [ref EXCEPT ![Cmd.var] =
                          [at |-> IF At(m, Cmd) + 1 = m.pos THEN None ELSE m.pos, ops |-> <<>>]]
            /\ At(m, Cmd) \in 0 .. Len(archive) - 1 /\ Cmd.op = "get"
        BY <1>1, <1>4, <2>2, <3>1 DEF Get, Exit, Fails, Now
      <4>2. m.pos \in Nat
        BY <1>2 DEF TypeInv, Machine
      <4>3. [at |-> IF At(m, Cmd) + 1 = m.pos THEN None ELSE m.pos, ops |-> <<>>] \in Notes
        BY <4>2 DEF Notes
      <4> QED  BY <1>2, <4>1, <4>3 DEF TypeInv
    <3>2. CASE Math
      <4>1. Cmd.op = "math" /\ Cmd.by \in Noted /\ Cmd.var \in Var
        BY <1>2, <2>1, <3>2, ScriptType DEF Math, Now
      <4>2. ref[Cmd.var] \in Notes
        BY <1>2, <4>1 DEF TypeInv
      <4>3. Append(ref[Cmd.var].ops, Cmd.by) \in Seq(Noted)
        <5>1. ref[Cmd.var].ops \in Seq(Noted)
          BY <4>2 DEF Notes
        <5> QED  BY <4>1, <5>1
      <4>4. CASE ref' = ref
        BY <1>2, <4>4 DEF TypeInv
      <4>5. CASE ref' = [ref EXCEPT ![Cmd.var].ops = Append(@, Cmd.by)]
        <5>1. ref' = [ref EXCEPT ![Cmd.var] = [@ EXCEPT !.ops = Append(ref[Cmd.var].ops, Cmd.by)]]
          BY <4>5
        <5>2. [ref[Cmd.var] EXCEPT !.ops = Append(ref[Cmd.var].ops, Cmd.by)] \in Notes
          BY <4>2, <4>3 DEF Notes
        <5> QED  BY <1>2, <5>1, <5>2 DEF TypeInv
      <4> QED  BY <3>2, <4>4, <4>5 DEF Math
    <3>3. CASE SavePos \/ GoTo
      BY <1>1, <1>2, <2>2, <3>3 DEF SavePos, GoTo, Exit, TypeInv
    <3> QED  BY <3>1, <3>2, <3>3
  <2>5. TypeInv'
    BY <1>1, <1>2, <2>2, <2>3, <2>4 DEF TypeInv
  <2> QED  BY <1>1, <1>2, <2>2, <2>5, NextInv
<1>5. Exit \/ (~Fails(archive, m, Cmd) /\ Do)
  BY DEF Get, Math, SavePos, GoTo, Now, Fails
<1>6. Inv'
  BY <1>3, <1>4, <1>5
<1> QED  BY <1>1, <1>2, <1>6, NoWrite DEF Safe, Returns, Lands

LEMMA LogStep ==
    ASSUME Inv, Log, job' = job
    PROVE  Safe
<1>0. TypeInv /\ LogInv /\ job \in DOMAIN Jobs /\ archive \in Seq(Int)
  BY DEF Inv, TypeInv
<1>1. pc \in DOMAIN Script /\ Cmd = Script[pc] /\ step = "next" /\ Cmd.op = "log"
  BY <1>0, NowCommand DEF Log
<1>2. UNCHANGED <<archive, folder, ref>> /\ before' = archive
  BY DEF Log
<1>3. m.val[Cmd.var] \in Int /\ m.val[Cmd.size] \in Int /\ m.pos \in Nat /\ m \in Machine
  <2>1. Cmd.var \in Var /\ Cmd.size \in Var
    BY <1>0, <1>1, ScriptType
  <2>2. m \in Machine /\ m.val \in [Var -> Int] /\ m.pos \in Nat
    BY <1>0 DEF TypeInv, Machine
  <2> QED  BY <2>1, <2>2
<1>4. ASSUME Leave(m.pos) PROVE Inv'
  <2>1. m' = [m EXCEPT !.pos = m.pos] /\ pc' = pc + 1 /\ step' = "next" /\ log' = NoLog
    BY <1>4 DEF Leave
  <2>2. m' \in Machine
    BY <1>3, <2>1, PosType
  <2>3. TypeInv'
    BY <1>0, <1>2, <2>1, <2>2 DEF TypeInv
  <2> QED  BY <1>0, <2>1, <2>3, NextInv
<1>5. ASSUME Cmd.name \in DOMAIN folder, m.val[Cmd.var] >= 0, UNCHANGED pc,
             Opened(Cmd.name, m.pos, m.val[Cmd.var], m.val[Cmd.size], m.pos)
      PROVE  Inv'
  <2>1. /\ log' = [name |-> Cmd.name, oldoff |-> m.pos, offset |-> m.val[Cmd.var],
                   old |-> m.val[Cmd.size], data |-> folder'[Cmd.name], from |-> m.pos,
                   tmpoff |-> 0, forced |-> FALSE]
        /\ m' = [m EXCEPT !.pos = m.val[Cmd.var]]
        /\ step' = "fit"
    BY <1>5 DEF Opened
  <2>2. m' \in Machine /\ m'.pos = m.val[Cmd.var]
    BY <1>3, <1>5, <2>1, PosType
  <2>3. folder'[Cmd.name] \in Seq(Int)
    BY <1>0, <1>2, <1>5 DEF TypeInv
  <2>4. /\ log'.name = Cmd.name /\ log'.oldoff = m.pos /\ log'.from = m.pos
        /\ log'.offset = m.val[Cmd.var] /\ log'.old = m.val[Cmd.size]
        /\ log'.data \in Seq(Int) /\ log'.forced = FALSE
        /\ DOMAIN log' = {"name", "oldoff", "offset", "old", "data", "from", "tmpoff", "forced"}
    BY <2>1, <2>3
  <2>5. TypeInv'
    BY <1>0, <1>2, <1>5, <2>1, <2>2 DEF TypeInv
  <2>6. Cmd' = Cmd
    BY <1>5, JobStays DEF Cmd
  <2>7. LogInv'
    BY <1>1, <1>2, <1>3, <1>5, <2>1, <2>2, <2>4, <2>6, JobStays DEF LogInv
  <2>8. PlaceInv'
    <3>1. Len(archive) \in Nat
      BY <1>0
    <3> QED  BY <1>2, <2>1, <2>4, <3>1 DEF PlaceInv
  <2> QED  BY <2>5, <2>7, <2>8 DEF Inv
<1>6. ASSUME step' = "exit", UNCHANGED <<m, pc, log>> PROVE Inv'
  <2>1. TypeInv'
    BY <1>0, <1>2, <1>6 DEF TypeInv
  <2> QED  BY <1>0, <1>6, <2>1, NextInv
<1>7. Inv'
  BY <1>4, <1>5, <1>6 DEF Log
<1> QED  BY <1>0, <1>1, <1>2, <1>7, NoWrite DEF Safe, Returns, Lands

\* The end of a Log.
LEMMA LeaveStep ==
    ASSUME Inv, job' = job, step \notin {"next", "exit"}, step = "fit" \/ MODE # 3, Leave(log.oldoff),
           UNCHANGED <<folder, ref, before>>, archive' \in Seq(Int)
    PROVE  Inv' /\ (MODE # 3 => Returns)
<1>1. /\ TypeInv /\ LogInv /\ log.oldoff \in Nat
      /\ MODE # 3 => ("retry" \in Answers \/ log.oldoff = log.from)
  BY DEF Inv, LogInv, PlaceInv
<1>2. m' = [m EXCEPT !.pos = log.oldoff] /\ pc' = pc + 1 /\ step' = "next" /\ log' = NoLog
  BY DEF Leave
<1>3. m' \in Machine /\ m'.pos = log.oldoff
  BY <1>1, <1>2, PosType DEF TypeInv
<1>4. TypeInv'
  BY <1>1, <1>2, <1>3 DEF TypeInv
<1>5. Inv'
  BY <1>1, <1>2, <1>4, NextInv
<1> QED  BY <1>1, <1>3, <1>5 DEF Returns

LEMMA SkipStep ==
    ASSUME Inv, job' = job, step = "fit", Skip
    PROVE  Safe
<1>1. Leave(log.oldoff) /\ UNCHANGED <<archive, folder, ref, before>> /\ archive \in Seq(Int) /\ TypeInv
  BY DEF Skip, Inv, TypeInv
<1>2. Inv' /\ (MODE # 3 => Returns)
  BY <1>1, LeaveStep
<1> QED  BY <1>1, <1>2, NoWrite DEF Safe

LEMMA AskStep ==
    ASSUME Inv, Ask, job' = job
    PROVE  Safe
<1>0. TypeInv /\ LogInv /\ job \in DOMAIN Jobs
  BY DEF Inv, TypeInv
<1>1. /\ step = "fit" /\ pc \in DOMAIN Script /\ Cmd.op = "log"
      /\ m.pos = log.offset /\ log.offset \in Nat
      /\ log.old \in Int /\ log.oldoff \in Nat /\ Size > log.old
      /\ log.name \in DOMAIN folder /\ log.data \in Seq(Int) /\ Len(before) <= Len(archive)
      /\ ("retry" \in Answers \/ log.oldoff = log.from)
      /\ DOMAIN log = {"name", "oldoff", "offset", "old", "data", "from", "tmpoff", "forced"}
  BY DEF Ask, Inv, LogInv, PlaceInv
<1>2. CASE Skip
  BY <1>1, <1>2, SkipStep
<1>3. CASE Exit
  <2>1. UNCHANGED <<archive, folder, m, pc, ref, before, log>> /\ step' = "exit"
    BY <1>3 DEF Exit
  <2>2. TypeInv'
    BY <1>0, <2>1 DEF TypeInv
  <2>3. Inv'
    BY <1>0, <2>1, <2>2, NextInv
  <2> QED  BY <1>0, <2>1, <2>3, NoWrite DEF Safe, Returns, Lands
<1>4. CASE /\ "retry" \in Answers
           /\ \E c \in Contents : folder' = [folder EXCEPT ![log.name] = c]
           /\ Opened(log.name, m.pos, log.offset, log.old, log.from)
           /\ UNCHANGED <<archive, ref, pc, runs, before, first>>
  <2>1. PICK c \in Contents : folder' = [folder EXCEPT ![log.name] = c]
    BY <1>4
  <2>2. c \in Seq(Int)
    BY FilesAssumption
  <2>3. folder' \in [DOMAIN folder' -> Seq(Int)] /\ log.name \in DOMAIN folder' /\ folder'[log.name] = c
    BY <1>0, <1>1, <2>1, <2>2 DEF TypeInv
  <2>4. /\ log' = [name |-> log.name, oldoff |-> m.pos, offset |-> log.offset,
                   old |-> log.old, data |-> folder'[log.name], from |-> log.from,
                   tmpoff |-> 0, forced |-> FALSE]
        /\ m' = [m EXCEPT !.pos = log.offset]
        /\ step' = "fit"
    BY <1>4 DEF Opened
  <2>5. m' \in Machine /\ m'.pos = log.offset
    BY <1>0, <1>1, <2>4, PosType DEF TypeInv
  <2>6. /\ log'.name = log.name /\ log'.oldoff = m.pos /\ log'.from = log.from
        /\ log'.offset = log.offset /\ log'.old = log.old
        /\ log'.data = c /\ log'.forced = FALSE
        /\ DOMAIN log' = {"name", "oldoff", "offset", "old", "data", "from", "tmpoff", "forced"}
    BY <2>3, <2>4
  <2>7. TypeInv'
    BY <1>0, <1>4, <2>3, <2>4, <2>5 DEF TypeInv
  <2>8. Cmd' = Cmd
    BY <1>4, JobStays DEF Cmd
  <2>9. LogInv'
    BY <1>1, <1>4, <2>2, <2>3, <2>4, <2>5, <2>6, <2>8, JobStays DEF LogInv
  <2>10. PlaceInv'
    BY <1>1, <1>4, <2>4, JobStays DEF PlaceInv
  <2>11. Inv'
    BY <2>7, <2>9, <2>10 DEF Inv
  <2> QED  BY <1>0, <1>4, <2>4, <2>11, NoWrite DEF Safe, Returns, Lands
<1>5. CASE /\ log' = [log EXCEPT !.forced = TRUE]
           /\ UNCHANGED <<archive, folder, ref, pc, step, before, m>>
  <2>1. TypeInv'
    BY <1>0, <1>5 DEF TypeInv
  <2>2. /\ log'.offset = log.offset /\ log'.old = log.old /\ log'.oldoff = log.oldoff
        /\ log'.from = log.from /\ log'.name = log.name /\ log'.data = log.data
        /\ log'.forced = TRUE /\ DOMAIN log' = DOMAIN log
    BY <1>1, <1>5
  <2>3. Size' > log'.old
    BY <1>1, <2>2 DEF Size
  <2>4. /\ folder' = folder /\ step' = "fit" /\ m'.pos = log'.offset /\ pc' = pc
        /\ Len(before') <= Len(archive')
    BY <1>1, <1>5, <2>2
  <2>5. Cmd' = Cmd
    BY <2>4, JobStays DEF Cmd
  <2>6. LogInv'
    BY <1>1, <1>5, <2>2, <2>3, <2>4, <2>5, JobStays DEF LogInv
  <2>7. PlaceInv'
    BY <1>1, <2>2, <2>4, JobStays DEF PlaceInv
  <2>8. Inv'
    BY <2>1, <2>6, <2>7 DEF Inv
  <2> QED  BY <1>0, <1>1, <1>5, <2>8, NoWrite DEF Safe, Returns, Lands
<1> QED  BY <1>2, <1>3, <1>4, <1>5 DEF Ask

\* The writing of a file: into the place of the old one, or what is forced over it,
\* and at the end behind all that was there.
LEMMA WriteStep ==
    ASSUME Inv, job' = job, step \in {"fit", "data"}, NEW s \in Seq(Int), Write(s),
           step = "fit" => Len(s) = IF log.forced THEN Size ELSE log.old
    PROVE  Safe
<1>0. TypeInv /\ job \in DOMAIN Jobs
  BY DEF Inv, TypeInv
<1>1. /\ pc \in DOMAIN Script /\ m.pos = log.offset /\ log.offset \in Nat /\ log.oldoff \in Int
      /\ Cmd.op = "log"
      /\ MODE # 3 => (step = "data" => log.offset >= Len(before)) /\ Len(before) <= Len(archive)
  BY DEF Inv, LogInv, PlaceInv
<1>2. UNCHANGED <<folder, ref, before>>
  BY DEF Write
<1>3. archive \in Seq(Int) /\ before \in Seq(Int)
  BY <1>0 DEF TypeInv
<1> DEFINE w == Put(archive, m.pos, s)
<1>4. /\ w \in Seq(Int) /\ Len(w) >= Len(archive)
      /\ \A k \in DOMAIN archive : w[k] # archive[k] => k > m.pos /\ k <= m.pos + Len(s)
  BY <1>1, <1>3, PutWrites
<1> HIDE DEF w
<1>5. archive' = archive \/ archive' = w
  BY DEF Write, w
<1>6. MODE # 3 => WritesHere
  <2> SUFFICES ASSUME MODE # 3 PROVE WritesHere
    OBVIOUS
  <2>1. CASE archive' = archive
    BY <1>0, <2>1, NoWrite
  <2>2. CASE archive' = w
    <3>1. ASSUME NEW k \in DOMAIN archive, w[k] # archive[k] PROVE Own(k)
      <4>1. k > m.pos /\ k <= m.pos + Len(s) /\ k \in Nat
        BY <1>3, <1>4, <3>1
      <4>2. CASE step = "fit"
        <5>1. CASE log.forced
          BY <1>1, <4>1, <4>2, <5>1 DEF Own
        <5>2. CASE ~log.forced
          BY <1>1, <4>1, <4>2, <5>2 DEF Own
        <5> QED  BY <5>1, <5>2
      <4>3. CASE step = "data"
        <5>1. Len(before) \in Nat /\ k > Len(before)
          BY <1>1, <1>3, <4>1, <4>3
        <5> QED  BY <5>1 DEF Own
      <4> QED  BY <4>2, <4>3
    <3> QED  BY <1>4, <2>2, <3>1 DEF WritesHere
  <2> QED  BY <1>5, <2>1, <2>2
<1>7. archive' \in Seq(Int) /\ Len(archive') >= Len(archive)
  <2>1. Len(archive) \in Nat
    BY <1>3
  <2> QED  BY <1>3, <1>4, <1>5, <2>1
<1>8. Inv' /\ (MODE # 3 => Returns)
  <2>1. CASE MODE = 1
    <3>1. Leave(log.oldoff)
      BY <2>1 DEF Write
    <3> QED  BY <1>2, <1>7, <2>1, <3>1, LeaveStep
  <2>2. CASE MODE # 1
    <3>1. /\ m' = [m EXCEPT !.pos = IF VoidDump THEN @ ELSE @ + Len(s)]
          /\ step' = "size" /\ UNCHANGED <<pc, log>>
      BY <2>2 DEF Write
    <3>2. PICK p \in Nat : p = IF VoidDump THEN m.pos ELSE m.pos + Len(s)
      BY <1>1
    <3>3. m' = [m EXCEPT !.pos = p]
      BY <3>1, <3>2
    <3>4. m' \in Machine
      BY <1>0, <3>3, PosType DEF TypeInv
    <3>5. TypeInv'
      BY <1>0, <1>2, <1>7, <3>1, <3>4 DEF TypeInv
    <3>6. MODE # 3 => Len(before') <= Len(archive')
      <4>1. Len(before) \in Nat /\ Len(archive) \in Nat /\ Len(archive') \in Nat
        BY <1>3, <1>7
      <4> QED  BY <1>1, <1>2, <1>7, <4>1
    <3>7. Cmd' = Cmd
      BY <3>1, JobStays DEF Cmd
    <3>8. LogInv'
      BY <1>1, <1>2, <3>1, <3>7, JobStays DEF Inv, LogInv
    <3>9. PlaceInv'
      BY <3>1, <3>6, JobStays DEF Inv, PlaceInv
    <3> QED  BY <3>1, <3>5, <3>8, <3>9 DEF Inv, Returns, Lands
  <2> QED  BY <2>1, <2>2
<1> QED  BY <1>6, <1>8 DEF Safe

LEMMA WriteHereStep ==
    ASSUME Inv, WriteHere, job' = job
    PROVE  Safe
<1>1. /\ step = "fit" /\ (Size <= log.old \/ log.forced) /\ Write(Padded)
      /\ log.data \in Seq(Int) /\ log.old \in Int /\ log.forced \in BOOLEAN
      /\ log.forced => Size > log.old
  BY DEF WriteHere, Inv, LogInv
<1>2. /\ Padded \in Seq(Int) /\ Size \in Nat
      /\ Size <= log.old => Len(Padded) = log.old
      /\ Size > log.old => Len(Padded) = Size
  BY <1>1, PaddedType
<1>3. CASE log.forced
  <2>1. Len(Padded) = IF log.forced THEN Size ELSE log.old
    BY <1>1, <1>2, <1>3
  <2> QED  BY <1>1, <1>2, <2>1, WriteStep
<1>4. CASE ~log.forced
  <2>1. Len(Padded) = IF log.forced THEN Size ELSE log.old
    BY <1>1, <1>2, <1>4
  <2> QED  BY <1>1, <1>2, <2>1, WriteStep
<1> QED  BY <1>3, <1>4

LEMMA WriteDataStep ==
    ASSUME Inv, WriteData, job' = job
    PROVE  Safe
<1>1. step = "data" /\ Write(log.data) /\ log.data \in Seq(Int)
  BY DEF WriteData, Inv, LogInv
<1> QED  BY <1>1, WriteStep

LEMMA ClearStep ==
    ASSUME Inv, Clear, job' = job
    PROVE  Safe
<1>0. TypeInv /\ job \in DOMAIN Jobs /\ archive \in Seq(Int) /\ before \in Seq(Int)
  BY DEF Inv, TypeInv
<1>1. /\ step = "fit" /\ MODE # 1 /\ Size > log.old
      /\ pc \in DOMAIN Script /\ m.pos = log.offset /\ log.offset \in Nat /\ log.old \in Int
      /\ log.data \in Seq(Int) /\ log.forced \in BOOLEAN
      /\ MODE # 3 => Len(before) <= Len(archive)
  BY DEF Clear, Inv, LogInv, PlaceInv
<1>2. CASE Skip
  BY <1>1, <1>2, SkipStep
<1>3. CASE /\ HasField(Cmd.var)
           /\ archive' = Put(archive, m.pos, Fill(log.old, Filler))
           /\ step' = "append" /\ UNCHANGED <<folder, m, ref, pc, log, before>>
  <2> DEFINE s == Fill(log.old, Filler)
             w == Put(archive, m.pos, s)
  <2>1. s \in Seq(Int) /\ (log.old >= 0 => Len(s) = log.old) /\ (log.old <= 0 => Len(s) = 0)
    BY <1>1, FillType, NumberAssumption
  <2> HIDE DEF s
  <2>2. /\ w \in Seq(Int) /\ Len(w) >= Len(archive)
        /\ \A k \in DOMAIN archive : w[k] # archive[k] => k > m.pos /\ k <= m.pos + Len(s)
    BY <1>0, <1>1, <2>1, PutWrites
  <2> HIDE DEF w
  <2>3. archive' = w
    BY <1>3 DEF s, w
  <2>4. ASSUME NEW k \in DOMAIN archive, w[k] # archive[k] PROVE Own(k)
    <3>1. k > m.pos /\ k <= m.pos + Len(s) /\ k \in Nat
      BY <1>0, <2>2, <2>4
    <3>2. Len(s) = log.old
      BY <1>1, <2>1, <3>1
    <3>3. Size \in Nat
      BY <1>1 DEF Size
    <3>4. k > log.offset /\ k <= log.offset + log.old /\ k <= log.offset + Size
      BY <1>1, <3>1, <3>2, <3>3
    <3> QED  BY <3>4 DEF Own
  <2>5. WritesHere
    BY <2>2, <2>3, <2>4 DEF WritesHere
  <2>6. TypeInv'
    BY <1>0, <1>3, <2>2, <2>3 DEF TypeInv
  <2>7. MODE # 3 => Len(before') <= Len(archive')
    <3>1. Len(before) \in Nat /\ Len(archive) \in Nat /\ Len(w) \in Nat
      BY <1>0, <2>2
    <3> QED  BY <1>1, <1>3, <2>2, <2>3, <3>1
  <2>8. Cmd' = Cmd
    BY <1>3, JobStays DEF Cmd
  <2>9. HasField(Cmd.var)'
    BY <1>3, <2>8 DEF HasField
  <2>10. LogInv'
    BY <1>1, <1>3, <2>8, <2>9, JobStays DEF Inv, LogInv
  <2>11. PlaceInv'
    BY <1>1, <1>3, <2>7, JobStays DEF Inv, PlaceInv
  <2> QED  BY <1>3, <2>5, <2>6, <2>10, <2>11 DEF Safe, Inv, Returns, Lands
<1> QED  BY <1>2, <1>3 DEF Clear

LEMMA AppendStep ==
    ASSUME Inv, AppendSpace, job' = job
    PROVE  Safe
<1>0. TypeInv /\ job \in DOMAIN Jobs /\ archive \in Seq(Int) /\ before \in Seq(Int)
  BY DEF Inv, TypeInv
<1>1. /\ step = "append" /\ pc \in DOMAIN Script /\ Cmd.op = "log"
      /\ log.old \in Int /\ log.oldoff \in Int /\ HasField(Cmd.var)
      /\ MODE # 3 => log.oldoff >= 0
      /\ log.name \in DOMAIN folder /\ log.data \in Seq(Int) /\ log.forced \in BOOLEAN
      /\ MODE # 3 => /\ Len(before) <= Len(archive)
                     /\ ("retry" \in Answers \/ log.oldoff = log.from)
  BY DEF AppendSpace, Inv, LogInv, PlaceInv
<1> DEFINE e == Len(archive)
           ops == ref[Cmd.var].ops
<1>2. PICK x \in e .. 2 * e :
         /\ Aligned(x, ops) >= e
         /\ archive' = archive \o Fill(Aligned(x, ops) - e, 0)
         /\ m' = [m EXCEPT !.pos = Aligned(x, ops)]
         /\ log' = [log EXCEPT !.offset = Aligned(x, ops)]
  BY DEF AppendSpace
<1>3. e \in Nat /\ x \in Int
  BY <1>0
<1>4. Aligned(x, ops) \in Int
  <2>1. Cmd.var \in Var
    BY <1>0, <1>1, ScriptType DEF Cmd
  <2>2. ops \in Seq(Noted) /\ m.val \in [Var -> Int]
    BY <1>0, <2>1 DEF TypeInv, Notes, Machine
  <2>3. Undone(m.val, x, ops) \in Int
    BY <1>3, <2>2, UndoneType
  <2> DEFINE T == [op : {"+", "-", "*", "/"}, by : Var]
  <2>4. ops \in Seq(T)
    <3>1. Noted \subseteq T
      BY DEF Noted
    <3>2. ops \in Seq(Noted)
      BY <2>2
    <3> HIDE DEF T, ops
    <3> QED  BY <3>1, <3>2, SeqGrows
  <2> QED  BY <2>2, <2>3, <2>4, AppliedType DEF Aligned
<1> HIDE DEF ops
<1>5. PICK p \in Nat : p = Aligned(x, ops) /\ p >= e
  BY <1>2, <1>3, <1>4
<1> DEFINE z == Fill(p - e, 0)
<1>6. z \in Seq(Int)
  <2>1. p - e \in Int /\ 0 \in Int
    BY <1>3
  <2> QED  BY <2>1, FillType
<1>7. archive' = archive \o z /\ m' = [m EXCEPT !.pos = p] /\ log' = [log EXCEPT !.offset = p]
  BY <1>2, <1>5
<1> HIDE DEF z, e
<1>8. /\ archive' \in Seq(Int) /\ Len(archive') = Len(archive) + Len(z)
      /\ \A k \in DOMAIN archive : archive'[k] = archive[k]
  BY <1>0, <1>6, <1>7, JoinType
<1>9. /\ Len(archive') >= Len(archive)
      /\ MODE # 3 => Len(before) <= Len(archive') /\ Len(before) <= p
  <2>1. Len(archive) \in Nat /\ Len(z) \in Nat /\ Len(before) \in Nat
    BY <1>0, <1>6
  <2> QED  BY <1>1, <1>5, <1>8, <2>1 DEF e
<1>10. WritesHere
  BY <1>8, <1>9 DEF WritesHere
<1>11. m' \in Machine /\ m'.pos = p
  BY <1>0, <1>7, PosType DEF TypeInv
<1>12. step' = "offset" /\ UNCHANGED <<folder, ref, pc, before>>
  BY DEF AppendSpace
<1>13. TypeInv'
  BY <1>0, <1>8, <1>11, <1>12 DEF TypeInv
<1>14. Cmd' = Cmd
  BY <1>12, JobStays DEF Cmd
<1>15. HasField(Cmd.var)'
  BY <1>1, <1>12, <1>14 DEF HasField
<1>16. DOMAIN log = {"name", "oldoff", "offset", "old", "data", "from", "tmpoff", "forced"}
  BY DEF Inv, LogInv
<1>17. /\ log'.offset = p /\ log'.old = log.old /\ log'.oldoff = log.oldoff
       /\ log'.from = log.from /\ log'.name = log.name /\ log'.data = log.data
       /\ log'.forced = log.forced /\ DOMAIN log' = DOMAIN log
  BY <1>7, <1>16
<1>18. LogInv'
  BY <1>1, <1>11, <1>12, <1>14, <1>15, <1>16, <1>17, JobStays DEF LogInv
<1>19. PlaceInv'
  BY <1>1, <1>9, <1>12, <1>17, JobStays DEF PlaceInv
<1> QED  BY <1>10, <1>12, <1>13, <1>18, <1>19 DEF Safe, Inv, Returns, Lands

\* A field that is rewritten is one cell.
LEMMA RewrittenType ==
    ASSUME TypeInv, NEW v \in Var, HasField(v), NEW x \in Int
    PROVE  /\ Rewritten(v, x) \in Seq(Int) /\ Len(Rewritten(v, x)) >= Len(archive)
           /\ \A k \in DOMAIN archive : Rewritten(v, x)[k] # archive[k] => k - 1 = ref[v].at
<1>1. ref[v].at \in Nat /\ ref[v].ops \in Seq(Noted)
  BY DEF TypeInv, Notes, HasField
<1>2. m.val \in [Var -> Int] /\ archive \in Seq(Int)
  BY DEF TypeInv, Machine
<1>3. PICK y \in Int : y = Undone(m.val, x, ref[v].ops)
  BY <1>1, <1>2, UndoneType
<1>4. PICK p \in Nat : p = ref[v].at
  BY <1>1
<1> DEFINE w == Put(archive, p, <<y>>)
<1>5. Rewritten(v, x) = w
  BY <1>3, <1>4 DEF Rewritten
<1>6. /\ w \in Seq(Int) /\ Len(w) >= Len(archive)
      /\ \A k \in DOMAIN archive : w[k] # archive[k] => k - 1 = p
  BY <1>2, PutCell
<1> HIDE DEF w
<1> QED  BY <1>4, <1>5, <1>6

LEMMA ValType ==
    ASSUME NEW s \in Machine, NEW v \in Var, NEW x \in Int
    PROVE  /\ [s EXCEPT !.val[v] = x] \in Machine /\ [s EXCEPT !.val[v] = x].pos = s.pos
           /\ [s.val EXCEPT ![v] = x] \in [Var -> Int]
  BY DEF Machine

LEMMA OffsetStep ==
    ASSUME Inv, WriteOffset, job' = job
    PROVE  Safe
<1>0. TypeInv /\ job \in DOMAIN Jobs /\ archive \in Seq(Int) /\ before \in Seq(Int)
  BY DEF Inv, TypeInv
<1>1. /\ step = "offset" /\ pc \in DOMAIN Script
      /\ HasField(Cmd.var) /\ m.pos = log.offset /\ log.offset \in Nat
      /\ MODE # 3 => Len(before) <= Len(archive)
  BY DEF WriteOffset, Inv, LogInv, PlaceInv
<1>2. /\ archive' = Rewritten(Cmd.var, log.offset)
      /\ m' = [m EXCEPT !.val[Cmd.var] = log.offset]
      /\ step' = "data" /\ UNCHANGED <<folder, ref, pc, log, before>>
  BY DEF WriteOffset
<1>3. Cmd.var \in Var /\ log.offset \in Int
  <2>1. Cmd.var \in Var
    BY <1>0, <1>1, ScriptType DEF Cmd
  <2> QED  BY <1>1, <2>1
<1>4. /\ archive' \in Seq(Int) /\ Len(archive') >= Len(archive)
      /\ \A k \in DOMAIN archive : archive'[k] # archive[k] => k - 1 = ref[Cmd.var].at
  BY <1>0, <1>1, <1>2, <1>3, RewrittenType
<1>5. WritesHere
  BY <1>4 DEF WritesHere, Own
<1>6. m' \in Machine /\ m'.pos = m.pos
  BY <1>0, <1>2, <1>3, ValType DEF TypeInv
<1>7. TypeInv'
  BY <1>0, <1>2, <1>4, <1>6 DEF TypeInv
<1>8. MODE # 3 => Len(before') <= Len(archive')
  <2>1. Len(before) \in Nat /\ Len(archive) \in Nat /\ Len(archive') \in Nat
    BY <1>0, <1>4
  <2> QED  BY <1>1, <1>2, <1>4, <2>1
<1>9. Cmd' = Cmd
  BY <1>2, JobStays DEF Cmd
<1>10. LogInv'
  BY <1>1, <1>2, <1>6, <1>9, JobStays DEF Inv, LogInv
<1>11. PlaceInv'
  BY <1>1, <1>2, <1>8, JobStays DEF Inv, PlaceInv
<1> QED  BY <1>2, <1>5, <1>7, <1>10, <1>11 DEF Safe, Inv, Returns, Lands

LEMMA SizeStep ==
    ASSUME Inv, WriteSize, job' = job
    PROVE  Safe
<1>0. TypeInv /\ LogInv /\ job \in DOMAIN Jobs /\ archive \in Seq(Int) /\ before \in Seq(Int)
  BY DEF Inv, TypeInv
<1>1. /\ step = "size" /\ pc \in DOMAIN Script /\ log.oldoff \in Int /\ log.data \in Seq(Int)
      /\ MODE # 3 => ("retry" \in Answers \/ log.oldoff = log.from)
      /\ MODE # 3 => log.oldoff >= 0
  BY DEF WriteSize, Inv, LogInv, PlaceInv
<1>2. UNCHANGED <<folder, ref, before>>
  BY DEF WriteSize
<1>3. Cmd.size \in Var
  BY <1>0, <1>1, ScriptType DEF Cmd
<1>4. Size \in Int
  BY <1>1 DEF Size
<1>5. WritesHere /\ archive' \in Seq(Int)
  <2>1. CASE HasField(Cmd.size)
    <3>1. archive' = Rewritten(Cmd.size, Size)
      BY <2>1 DEF WriteSize
    <3>2. /\ archive' \in Seq(Int) /\ Len(archive') >= Len(archive)
          /\ \A k \in DOMAIN archive : archive'[k] # archive[k] => k - 1 = ref[Cmd.size].at
      BY <1>0, <1>3, <1>4, <2>1, <3>1, RewrittenType
    <3> QED  BY <3>2 DEF WritesHere, Own
  <2>2. CASE ~HasField(Cmd.size)
    BY <1>0, <2>2, NoWrite DEF WriteSize
  <2> QED  BY <2>1, <2>2
<1>6. CASE log.oldoff < 0
  <2>1. step' = "exit" /\ UNCHANGED <<m, pc, log>>
    BY <1>6 DEF WriteSize
  <2>2. TypeInv'
    BY <1>0, <1>2, <1>5, <2>1 DEF TypeInv
  <2>3. Inv'
    BY <1>0, <2>1, <2>2, NextInv
  <2> QED  BY <1>5, <2>1, <2>3 DEF Safe, Returns, Lands
<1>7. CASE ~(log.oldoff < 0)
  <2> DEFINE v == IF HasField(Cmd.size) THEN [m.val EXCEPT ![Cmd.size] = Size] ELSE m.val
  <2>1. m' = [pos |-> log.oldoff, val |-> v] /\ pc' = pc + 1 /\ step' = "next" /\ log' = NoLog
    BY <1>7 DEF WriteSize
  <2>2. v \in [Var -> Int]
    <3>1. m.val \in [Var -> Int] /\ [m.val EXCEPT ![Cmd.size] = Size] \in [Var -> Int]
      BY <1>0, <1>3, <1>4, ValType DEF TypeInv, Machine
    <3> QED  BY <3>1
  <2> HIDE DEF v
  <2>3. m' \in Machine /\ m'.pos = log.oldoff
    BY <1>1, <1>7, <2>1, <2>2 DEF Machine
  <2>4. TypeInv'
    BY <1>0, <1>2, <1>5, <2>1, <2>3 DEF TypeInv
  <2>5. Inv'
    BY <1>0, <2>1, <2>4, NextInv
  <2>6. MODE # 3 => Returns
    BY <1>1, <2>3 DEF Returns
  <2> QED  BY <1>5, <2>5, <2>6 DEF Safe
<1> QED  BY <1>6, <1>7

LEMMA AgainStep ==
    ASSUME Inv, Again, job' = job
    PROVE  Safe
<1>0. TypeInv /\ LogInv
  BY DEF Inv
<1>1. /\ m' = Fresh /\ pc' = 1 /\ step' = "next" /\ log' = NoLog /\ UNCHANGED <<archive, folder>>
      /\ before' = archive /\ ref' = [v \in Var |-> NoField]
  BY DEF Again
<1>2. NoField \in Notes
  BY DEF NoField, Notes
<1>3. ref' \in [Var -> Notes]
  BY <1>1, <1>2
<1>4. TypeInv'
  BY <1>0, <1>1, <1>3, FreshType DEF TypeInv
<1>5. Inv'
  BY <1>0, <1>1, <1>4, NextInv
<1>6. pc' # pc + 1
  BY <1>0, <1>1 DEF TypeInv
<1> QED  BY <1>0, <1>1, <1>5, <1>6, NoWrite DEF Safe, Returns, Lands

-----------------------------------------------------------------------------
(* The steps of reimport3 *)

\* The file is being imported, and what is changed of the Log is where it moves.
LEMMA ShiftFacts ==
    ASSUME Inv
    PROVE  /\ TypeInv /\ job \in DOMAIN Jobs /\ archive \in Seq(Int) /\ m \in Machine
           /\ step \in {"fit", "shift"} =>
                 /\ pc \in DOMAIN Script /\ Cmd.op = "log" /\ m.pos = log.offset
                 /\ log.offset \in Nat /\ log.old \in Int /\ log.oldoff \in Int
                 /\ log.name \in DOMAIN folder /\ log.data \in Seq(Int) /\ log.forced \in BOOLEAN
                 /\ Size \in Nat /\ Diff \in Int /\ End \in Int
           /\ DOMAIN log = {"name", "oldoff", "offset", "old", "data", "from", "tmpoff", "forced"}
<1>1. /\ TypeInv /\ job \in DOMAIN Jobs /\ archive \in Seq(Int) /\ m \in Machine
      /\ DOMAIN log = {"name", "oldoff", "offset", "old", "data", "from", "tmpoff", "forced"}
  BY DEF Inv, TypeInv, LogInv
<1>2. ASSUME step \in {"fit", "shift"}
      PROVE  /\ pc \in DOMAIN Script /\ Cmd.op = "log" /\ m.pos = log.offset
             /\ log.offset \in Nat /\ log.old \in Int /\ log.oldoff \in Int
             /\ log.name \in DOMAIN folder /\ log.data \in Seq(Int) /\ log.forced \in BOOLEAN
  BY <1>2 DEF Inv, LogInv
<1>3. ASSUME step \in {"fit", "shift"} PROVE Size \in Nat /\ Diff \in Int /\ End \in Int
  <2>1. Size \in Nat /\ log.old \in Int /\ log.offset \in Nat
    BY <1>2, <1>3 DEF Size
  <2> QED  BY <2>1 DEF Diff, End
<1> QED  BY <1>1, <1>2, <1>3

LEMMA StartShiftStep ==
    ASSUME Inv, StartShift, job' = job
    PROVE  Safe
<1>1. /\ step = "fit" /\ MODE = 3 /\ End >= 0 /\ step' = "shift"
      /\ UNCHANGED <<archive, folder, m, ref, pc, before>>
      /\ log' = [log EXCEPT !.tmpoff = IF Diff < 0 THEN End ELSE Len(archive)]
  BY DEF StartShift, Shifts
<1>2. PICK p : p = IF Diff < 0 THEN End ELSE Len(archive)
  OBVIOUS
<1>3. /\ log'.offset = log.offset /\ log'.old = log.old /\ log'.oldoff = log.oldoff
      /\ log'.name = log.name /\ log'.data = log.data
      /\ log'.forced = log.forced /\ log'.tmpoff = p /\ DOMAIN log' = DOMAIN log
  BY <1>1, <1>2, ShiftFacts
<1>4. Diff' = Diff /\ End' = End
  BY <1>3 DEF Diff, End, Size
<1>5. p \in Nat /\ IF Diff < 0 THEN p >= End ELSE p <= Len(archive)
  <2>1. Diff \in Int /\ End \in Int /\ Len(archive) \in Nat
    BY <1>1, ShiftFacts
  <2> QED  BY <1>1, <1>2, <2>1
<1>6. Cmd' = Cmd
  BY <1>1, JobStays DEF Cmd
<1>7. TypeInv'
  BY <1>1, ShiftFacts DEF TypeInv
<1>8. LogInv'
  BY <1>1, <1>3, <1>4, <1>5, <1>6, ShiftFacts, JobStays DEF LogInv
<1>9. PlaceInv'
  BY <1>1, JobStays DEF PlaceInv
<1> QED  BY <1>1, <1>7, <1>8, <1>9 DEF Safe, Inv

LEMMA SmallerType ==
    ASSUME NEW x \in Nat, NEW y \in Nat
    PROVE  Smaller(x, y) \in Nat /\ Smaller(x, y) <= x /\ Smaller(x, y) <= y
  BY DEF Smaller

\* Cells that are read are there.
LEMMA ChunkType ==
    ASSUME NEW a \in Seq(Int), NEW p \in Nat, NEW t \in Nat, p + t <= Len(a)
    PROVE  SubSeq(a, p + 1, p + t) \in Seq(Int)
  OBVIOUS

LEMMA MoveStep ==
    ASSUME Inv, MoveChunk, job' = job
    PROVE  Safe
<1>1. /\ step = "shift" /\ MODE = 3 /\ End >= 0 /\ log.tmpoff \in Nat
      /\ IF Diff < 0 THEN log.tmpoff >= End ELSE log.tmpoff <= Len(archive)
      /\ UNCHANGED <<folder, m, ref, pc, step, before>>
  BY DEF MoveChunk, Inv, LogInv
<1>2. /\ archive \in Seq(Int) /\ Len(archive) \in Nat /\ BUFSZ \in Nat
      /\ Diff \in Int /\ End \in Int /\ Size \in Nat /\ log.offset \in Nat /\ log.old \in Int
      /\ Diff = Size - log.old /\ End = log.offset + log.old
  BY <1>1, ShiftFacts, NumberAssumption DEF Diff, End
<1>3. IF Diff < 0 THEN log.tmpoff < Len(archive) ELSE log.tmpoff > End
  BY <1>1, <1>2 DEF MoveChunk, Moved
<1> DEFINE t == IF Diff < 0 THEN Smaller(BUFSZ, Len(archive) - log.tmpoff)
                ELSE Smaller(BUFSZ, log.tmpoff - End)
           p == IF Diff < 0 THEN log.tmpoff ELSE log.tmpoff - t
<1>4. /\ archive' = Put(archive, p + Diff, SubSeq(archive, p + 1, p + t))
      /\ log' = [log EXCEPT !.tmpoff = IF Diff < 0 THEN p + t ELSE p]
  BY DEF MoveChunk
<1>5. t \in Nat /\ p \in Nat /\ p + t <= Len(archive) /\ p + Diff \in Nat /\ p >= End
      /\ (Diff >= 0 => p <= Len(archive))
  <2>0. PICK d \in Int, e \in Nat, n \in Nat, o \in Nat :
           d = Diff /\ e = End /\ n = Len(archive) /\ o = log.tmpoff
    BY <1>1, <1>2
  <2>1. e + d >= 0
    <3>1. PICK i \in Nat, j \in Int, k \in Nat : i = log.offset /\ j = log.old /\ k = Size
      BY <1>2
    <3>2. e = i + j /\ d = k - j
      BY <1>2, <2>0, <3>1
    <3> QED  BY <2>0, <3>1, <3>2
  <2>2. CASE d < 0
    <3>1. o >= e /\ o < n
      BY <1>1, <1>3, <2>0, <2>2
    <3>2. p = o /\ t = Smaller(BUFSZ, n - o)
      BY <2>0, <2>2
    <3> HIDE DEF t, p
    <3>3. n - o \in Nat
      BY <2>0, <3>1
    <3>4. t \in Nat /\ t <= n - o
      BY <1>2, <3>2, <3>3, SmallerType
    <3>5. o + t <= n /\ o + d >= 0 /\ o + d \in Int
      BY <2>0, <2>1, <3>1, <3>4
    <3>6. o + d \in Nat
      BY <3>5
    <3> QED  BY <2>0, <2>2, <3>1, <3>2, <3>4, <3>5, <3>6
  <2>3. CASE ~(d < 0)
    <3>1. o <= n /\ o > e
      BY <1>1, <1>3, <2>0, <2>3
    <3>2. p = o - t /\ t = Smaller(BUFSZ, o - e)
      BY <2>0, <2>3
    <3> HIDE DEF t, p
    <3>3. o - e \in Nat
      BY <2>0, <3>1
    <3>4. t \in Nat /\ t <= o - e
      BY <1>2, <3>2, <3>3, SmallerType
    <3>5. PICK q \in Nat : q = p
      BY <2>0, <3>2, <3>4
    <3>6. q + t <= n /\ q + d \in Nat /\ q >= e /\ q <= n
      BY <2>0, <2>3, <3>1, <3>2, <3>4, <3>5
    <3> QED  BY <2>0, <3>4, <3>5, <3>6
  <2> QED  BY <2>0, <2>2, <2>3
<1> HIDE DEF t, p
<1> DEFINE chunk == SubSeq(archive, p + 1, p + t)
<1>6. chunk \in Seq(Int)
  BY <1>2, <1>5, ChunkType
<1> HIDE DEF chunk
<1>7. archive' \in Seq(Int) /\ Len(archive') >= Len(archive)
  <2>1. archive' = Put(archive, p + Diff, chunk)
    BY <1>4 DEF chunk
  <2> QED  BY <1>2, <1>5, <1>6, <2>1, PutWrites
<1>8. PICK q \in Nat : q = (IF Diff < 0 THEN p + t ELSE p)
  BY <1>5
<1>9. /\ log'.offset = log.offset /\ log'.old = log.old /\ log'.oldoff = log.oldoff
      /\ log'.name = log.name /\ log'.data = log.data
      /\ log'.forced = log.forced /\ log'.tmpoff = q /\ DOMAIN log' = DOMAIN log
  BY <1>4, <1>8, ShiftFacts
<1>10. Diff' = Diff /\ End' = End
  BY <1>9 DEF Diff, End, Size
<1>11. IF Diff < 0 THEN q >= End ELSE q <= Len(archive')
  <2>1. Len(archive') \in Nat
    BY <1>7
  <2> QED  BY <1>2, <1>5, <1>7, <1>8, <2>1
<1>12. Cmd' = Cmd
  BY <1>1, JobStays DEF Cmd
<1>13. TypeInv'
  BY <1>1, <1>7, ShiftFacts DEF TypeInv
<1>14. LogInv'
  BY <1>1, <1>9, <1>10, <1>11, <1>12, ShiftFacts, JobStays DEF LogInv
<1>15. PlaceInv'
  BY <1>1, JobStays DEF PlaceInv
<1> QED  BY <1>1, <1>13, <1>14, <1>15 DEF Safe, Inv

LEMMA EndShiftStep ==
    ASSUME Inv, EndShift, job' = job
    PROVE  Safe
<1>1. /\ step = "shift" /\ MODE = 3 /\ step' = "data"
      /\ UNCHANGED <<folder, m, ref, pc, before>>
      /\ archive' = IF Diff < 0 THEN SubSeq(archive, 1, Len(archive) + Diff) ELSE archive
      /\ log' = [log EXCEPT !.old = Size,
                            !.oldoff = IF @ > End \/ @ > log.offset THEN @ + Diff ELSE @]
  BY DEF EndShift, Inv, LogInv
<1>2. archive \in Seq(Int) /\ Size \in Nat /\ Diff \in Int /\ End \in Int /\ log.oldoff \in Int
  BY <1>1, ShiftFacts
<1>3. PICK p \in Int : p = IF log.oldoff > End \/ log.oldoff > log.offset
                           THEN log.oldoff + Diff ELSE log.oldoff
  BY <1>2
<1>4. /\ log'.offset = log.offset /\ log'.old = Size /\ log'.oldoff = p
      /\ log'.name = log.name /\ log'.data = log.data
      /\ log'.forced = log.forced /\ DOMAIN log' = DOMAIN log
  BY <1>1, <1>3, ShiftFacts
<1>5. archive' \in Seq(Int)
  <2>1. CASE Diff < 0
    <3>1. PICK n \in Int : n = Len(archive) + Diff
      BY <1>2
    <3>2. n <= Len(archive)
      BY <1>2, <2>1, <3>1
    <3>3. SubSeq(archive, 1, n) \in Seq(Int)
      BY <1>2, <3>2
    <3> QED  BY <1>1, <2>1, <3>1, <3>3
  <2>2. CASE ~(Diff < 0)
    BY <1>1, <1>2, <2>2
  <2> QED  BY <2>1, <2>2
<1>6. Cmd' = Cmd
  BY <1>1, JobStays DEF Cmd
<1>7. TypeInv'
  BY <1>1, <1>5, ShiftFacts DEF TypeInv
<1>8. LogInv'
  BY <1>1, <1>2, <1>4, <1>6, ShiftFacts, JobStays DEF LogInv
<1>9. PlaceInv'
  BY <1>1, JobStays DEF PlaceInv
<1> QED  BY <1>1, <1>7, <1>8, <1>9 DEF Safe, Inv

LEMMA NextStep ==
    ASSUME Inv, [Next]_vars
    PROVE  Safe
<1>1. job' = job
  BY DEF Next, Terminated, vars
<1>2. CASE Terminated \/ UNCHANGED vars
  <2>1. UNCHANGED vars
    BY <1>2 DEF Terminated
  <2>2. /\ UNCHANGED <<job, archive, folder, m, ref, pc, step, log, before>>
        /\ Script' = Script /\ Answers' = Answers /\ MODE' = MODE
    BY <2>1, JobStays DEF vars
  <2>3. Inv'
    BY <2>2 DEF Inv, TypeInv, LogInv, PlaceInv, HasField, Cmd, Size, Diff, End
  <2>4. pc' # pc + 1
    BY <2>2 DEF Inv, TypeInv
  <2> QED  BY <2>2, <2>3, <2>4, NoWrite DEF Safe, Inv, Returns, Lands
<1>3. CASE Commands \/ InLog \/ Again
  BY <1>1, <1>3, CommandStep, LogStep, AskStep, WriteHereStep, ClearStep, AppendStep,
     OffsetStep, WriteDataStep, SizeStep, AgainStep, StartShiftStep, MoveStep, EndShiftStep
     DEF Commands, InLog
<1> QED  BY <1>2, <1>3 DEF Next

-----------------------------------------------------------------------------
(* The theorems *)

\* Every variable, position, note and cell keeps its type in all modes, while a Log is
\* under way the archive is at the place where the file is to be written, and what
\* reimport3 moves is in the archive and behind the file (dumpa(), file.c:3041-3331).
THEOREM ReimportTypes == Spec => []Inv
<1>1. Init => Inv
  BY InitInv
<1>2. Inv /\ [Next]_vars => Inv'
  BY NextStep DEF Safe
<1> QED  BY <1>1, <1>2, PTL DEF Spec

\* file.c:3211: whatever the script, the archive, the folder and the answers, and
\* where the runs stop, a Log of modes 1 and 2 writes into its own cells only: those of
\* the old file, or of the one that the user forces, its two fields and what is added.
THEOREM ReimportWritesOwn == Spec => WritesOwn
<1>1. Inv /\ [Next]_vars =>
        [MODE # 3 => /\ Len(archive') >= Len(archive)
                     /\ \A k \in DOMAIN archive : archive'[k] # archive[k] => Own(k)]_vars
  BY NextStep DEF Safe, WritesHere
<1> QED  BY <1>1, ReimportTypes, PTL DEF Spec, WritesOwn

\* file.c:3328-3331: unless the user retries, a Log of modes 1 and 2 ends where the
\* script was, whichever of its ends it takes.
THEOREM ReimportKeepsPlace == Spec => KeepsPlace
<1>1. Inv /\ [Next]_vars =>
        [Lands /\ MODE # 3 /\ "retry" \notin Answers => m'.pos = log.from]_vars
  BY NextStep DEF Safe, Returns
<1> QED  BY <1>1, ReimportTypes, PTL DEF Spec, KeepsPlace

-----------------------------------------------------------------------------
(* Option -0 *)

\* Mode 1 reaches no step of reimport2 or 3.
ModeInv == MODE = 1 => step \in {"next", "fit", "exit"}

LEMMA ModeStep ==
    ASSUME ModeInv, [Next]_vars
    PROVE  ModeInv' /\ (VoidDump /\ MODE = 1 => archive' = archive)
<1>1. job' = job
  BY DEF Next, Terminated, vars
<1>2. MODE' = MODE
  BY <1>1 DEF MODE
<1>3. CASE MODE # 1
  BY <1>2, <1>3 DEF ModeInv
<1>4. CASE MODE = 1
  <2>1. step \in {"next", "fit", "exit"}
    BY <1>4 DEF ModeInv
  <2>2. CASE Get \/ Math \/ SavePos \/ GoTo
    BY <1>2, <2>1, <2>2 DEF Get, Math, SavePos, GoTo, Do, Exit, ModeInv
  <2>3. CASE Log
    BY <1>2, <2>1, <2>3 DEF Log, Leave, Opened, ModeInv
  <2>4. CASE Ask
    BY <1>2, <2>1, <2>4 DEF Ask, Skip, Leave, Exit, Opened, ModeInv
  <2>5. CASE WriteHere
    BY <1>2, <1>4, <2>5 DEF WriteHere, Write, Leave, ModeInv
  <2>6. CASE Again
    BY <1>2, <2>6 DEF Again, ModeInv
  <2>7. CASE Terminated \/ UNCHANGED vars
    BY <1>2, <2>1, <2>7 DEF Terminated, vars, ModeInv
  <2>8. ~(\/ Clear \/ AppendSpace \/ WriteOffset \/ WriteData \/ WriteSize
          \/ StartShift \/ MoveChunk \/ EndShift)
    BY <1>4, <2>1 DEF Clear, AppendSpace, WriteOffset, WriteData, WriteSize,
                      StartShift, Shifts, MoveChunk, EndShift
  <2> QED  BY <2>2, <2>3, <2>4, <2>5, <2>6, <2>7, <2>8 DEF Next, Commands, InLog
<1> QED  BY <1>3, <1>4

\* readme.md:218: with -0 the reinjector of mode 1 leaves the archive alone, whatever
\* it is asked and answered, and whatever the other jobs do.
THEOREM VoidLeavesArchive == Spec => VoidWritesNothing
<1>1. Init => ModeInv
  BY DEF Init, Begin, ModeInv
<1>2. ModeInv /\ [Next]_vars => ModeInv'
  BY ModeStep
<1>3. ModeInv /\ [Next]_vars => [VoidDump /\ MODE = 1 => archive' = archive]_vars
  BY ModeStep
<1> QED  BY <1>1, <1>2, <1>3, PTL DEF Spec, VoidWritesNothing

-----------------------------------------------------------------------------
(* The fields *)

Changes(c) == c.op \in {"get", "math", "savepos"}

\* v has been read, and no Log has come since.
ReadSince(v, p) ==
    \E l \in 1 .. p - 1 : Reads(Script, l, v) /\ \A i \in l .. p - 1 : Script[i].op # "log"

\* What is noted of a variable was read by the script, and
WasRead(v) == HasField(v) => \E l \in 1 .. pc - 1 : Reads(Script, l, v)

\* has taken no more Math than there are commands since, with
FewSteps(v) == \A l \in 1 .. pc - 1 : Reads(Script, l, v) => Len(ref[v].ops) < pc - l

\* operands that the script does not change;
Constant(v) ==
    HasField(v) => \A k \in 1 .. Len(ref[v].ops) : \A l \in DOMAIN Script :
        Changes(Script[l]) => Script[l].var # ref[v].ops[k].by

\* the value follows from the cell, until a Log may change both.
Follows(v) ==
    step \in {"next", "fit"} /\ HasField(v) /\ ReadSince(v, pc) =>
        /\ ref[v].at < Len(archive)
        /\ m.val[v] = Applied(m.val, archive[ref[v].at + 1], ref[v].ops)

Field(v) == WasRead(v) /\ FewSteps(v) /\ Constant(v) /\ Follows(v)

FieldInv == MODE # 1 => \A v \in Var : Field(v)

\* A table is read.
LEMMA TableScript ==
    ASSUME TableScripts, job \in DOMAIN Jobs, MODE # 1
    PROVE  ReadsFields(Script)
  BY DEF TableScripts, MODE, Script

\* In modes 2 and 3 a step of a Log leaves the notes as they are, and either stays
\* in the Log or goes to the next command.
LEMMA LogLeaves ==
    ASSUME MODE # 1, InLog
    PROVE  /\ ref' = ref
           /\ \/ step' \notin {"next", "fit"} /\ pc' = pc
              \/ step' = "next" /\ pc' = pc + 1
<1>1. ~Ask
  BY DEF Ask
<1>2. CASE WriteHere \/ WriteData
  BY <1>2 DEF WriteHere, WriteData, Write
<1>3. CASE Clear
  BY <1>3 DEF Clear, Skip, Leave
<1>4. CASE AppendSpace
  BY <1>4 DEF AppendSpace
<1>5. CASE WriteOffset \/ WriteSize
  BY <1>5 DEF WriteOffset, WriteSize
<1>6. CASE StartShift \/ EndShift
  BY <1>6 DEF StartShift, EndShift
<1>7. CASE MoveChunk
  BY <1>7 DEF MoveChunk
<1> QED  BY <1>1, <1>2, <1>3, <1>4, <1>5, <1>6, <1>7 DEF InLog

\* After a Log, nothing has been read since.
LEMMA LogEnds ==
    ASSUME Inv, Cmd.op = "log", NEW v
    PROVE  ~ReadSince(v, pc + 1)
<1> SUFFICES ASSUME ReadSince(v, pc + 1) PROVE FALSE
  OBVIOUS
<1>1. pc \in Nat
  BY DEF Inv, TypeInv
<1>2. PICK l \in 1 .. (pc + 1) - 1 : \A i \in l .. (pc + 1) - 1 : Script[i].op # "log"
  BY DEF ReadSince
<1>3. pc \in l .. (pc + 1) - 1
  BY <1>1, <1>2
<1> QED  BY <1>2, <1>3 DEF Cmd

\* The next command does not read v: what was read before it is all there is.
LEMMA OtherRead ==
    ASSUME Inv, NEW v, ~Reads(Script, pc, v)
    PROVE  /\ \A l \in 1 .. (pc + 1) - 1 : Reads(Script, l, v) => l \in 1 .. pc - 1
           /\ ReadSince(v, pc + 1) => ReadSince(v, pc)
<1>1. pc \in Nat \ {0}
  BY DEF Inv, TypeInv
<1>2. ASSUME NEW l \in 1 .. (pc + 1) - 1, Reads(Script, l, v) PROVE l \in 1 .. pc - 1
  <2>1. l # pc
    BY <1>2
  <2> QED  BY <1>1, <2>1
<1>3. ASSUME ReadSince(v, pc + 1) PROVE ReadSince(v, pc)
  <2>1. PICK l \in 1 .. (pc + 1) - 1 :
           Reads(Script, l, v) /\ \A i \in l .. (pc + 1) - 1 : Script[i].op # "log"
    BY <1>3 DEF ReadSince
  <2>2. l \in 1 .. pc - 1
    BY <1>2, <2>1
  <2>3. \A i \in l .. pc - 1 : i \in l .. (pc + 1) - 1
    BY <1>1
  <2> QED  BY <2>1, <2>2, <2>3 DEF ReadSince
<1> QED  BY <1>2, <1>3

LEMMA NoteType ==
    ASSUME Inv, NEW v \in Var
    PROVE  /\ pc \in Nat \ {0} /\ m.val \in [Var -> Int]
           /\ ref[v].ops \in Seq(Noted) /\ Len(ref[v].ops) \in Nat
           /\ HasField(v) => ref[v].at \in Nat
<1>1. ref[v] \in Notes /\ pc \in Nat \ {0} /\ m \in Machine
  BY DEF Inv, TypeInv
<1>2. ref[v].ops \in Seq(Noted) /\ ref[v].at \in Nat \cup {None}
  BY <1>1 DEF Notes
<1>3. Len(ref[v].ops) \in Nat
  BY <1>2
<1> QED  BY <1>1, <1>2, <1>3 DEF HasField, Machine

\* A field that the next command is not about stays a field.
LEMMA FieldStays ==
    ASSUME Inv, NEW v \in Var, Field(v), job' = job, pc' = pc + 1, ref'[v] = ref[v],
           pc \in DOMAIN Script, ~Reads(Script, pc, v),
           step' \in {"next", "fit"} /\ HasField(v) /\ ReadSince(v, pc + 1) =>
              /\ step = "next" /\ archive' = archive /\ m'.val[v] = m.val[v]
              /\ \A w \in Var : m'.val[w] = m.val[w] \/ (Changes(Cmd) /\ w = Cmd.var)
    PROVE  Field(v)'
<1>1. Script' = Script /\ HasField(v)' = HasField(v) /\ pc \in Nat \ {0}
  BY JobStays, NoteType DEF HasField
<1>2. WasRead(v)'
  <2>1. \A l \in 1 .. pc - 1 : l \in 1 .. (pc + 1) - 1
    BY <1>1
  <2> QED  BY <1>1, <2>1 DEF Field, WasRead
<1>3. FewSteps(v)'
  <2> SUFFICES ASSUME NEW l \in 1 .. (pc + 1) - 1, Reads(Script, l, v)
               PROVE  Len(ref[v].ops) < (pc + 1) - l
    BY <1>1 DEF FewSteps
  <2>1. Len(ref[v].ops) < pc - l /\ l \in 1 .. pc - 1
    BY OtherRead DEF Field, FewSteps
  <2> QED  BY <1>1, <2>1, NoteType
<1>4. Constant(v)'
  BY <1>1 DEF Field, Constant
<1>5. Follows(v)'
  <2> SUFFICES ASSUME step' \in {"next", "fit"}, HasField(v), ReadSince(v, pc + 1)
               PROVE  /\ ref[v].at < Len(archive')
                      /\ m'.val[v] = Applied(m'.val, archive'[ref[v].at + 1], ref[v].ops)
    BY <1>1 DEF Follows, ReadSince
  <2>1. ReadSince(v, pc)
    BY OtherRead
  <2>2. /\ step = "next" /\ archive' = archive /\ m'.val[v] = m.val[v]
        /\ \A w \in Var : m'.val[w] = m.val[w] \/ (Changes(Cmd) /\ w = Cmd.var)
    BY <2>1
  <2>3. /\ ref[v].at < Len(archive)
        /\ m.val[v] = Applied(m.val, archive[ref[v].at + 1], ref[v].ops)
    BY <2>1, <2>2 DEF Field, Follows
  <2>4. ASSUME NEW k \in 1 .. Len(ref[v].ops)
        PROVE  m.val[ref[v].ops[k].by] = m'.val[ref[v].ops[k].by]
    <3>1. ref[v].ops[k].by \in Var
      <4>1. PICK ops \in Seq(Noted) : ops = ref[v].ops
        BY NoteType
      <4>2. ops[k] \in Noted
        BY <4>1
      <4> QED  BY <4>1, <4>2 DEF Noted
    <3>2. Changes(Cmd) => Cmd.var # ref[v].ops[k].by
      BY DEF Field, Constant, Cmd
    <3> QED  BY <2>2, <3>1, <3>2
  <2>5. \A x : Applied(m.val, x, ref[v].ops) = Applied(m'.val, x, ref[v].ops)
    BY <2>4, NoteType, AppliedAgrees
  <2> QED  BY <2>2, <2>3, <2>5
<1> QED  BY <1>2, <1>3, <1>4, <1>5 DEF Field

\* A step that keeps the notes and the command.
LEMMA FieldKept ==
    ASSUME NEW v \in Var, Field(v), job' = job, pc' = pc, ref' = ref,
           step' \in {"next", "fit"} =>
              step \in {"next", "fit"} /\ archive' = archive /\ m'.val = m.val
    PROVE  Field(v)'
<1>1. Script' = Script /\ HasField(v)' = HasField(v)
  BY JobStays DEF HasField
<1>2. WasRead(v)' /\ FewSteps(v)' /\ Constant(v)'
  BY <1>1 DEF Field, WasRead, FewSteps, Constant
<1>3. Follows(v)'
  BY <1>1 DEF Field, Follows, ReadSince
<1> QED  BY <1>2, <1>3 DEF Field

\* The end of a Log.
LEMMA LogField ==
    ASSUME Inv, NEW v \in Var, Field(v), job' = job, pc' = pc + 1, ref' = ref,
           pc \in DOMAIN Script, Cmd.op = "log"
    PROVE  Field(v)'
<1>1. ~ReadSince(v, pc + 1)
  BY LogEnds
<1>2. ~Reads(Script, pc, v)
  BY DEF Reads, Cmd
<1> QED  BY <1>1, <1>2, FieldStays

\* What Get reads is the field of its variable.
LEMMA GetField ==
    ASSUME Inv, FieldInv, MODE # 1, ReadsFields(Script), Get, ~Fails(archive, m, Cmd), Do,
           job' = job, NEW v \in Var,
           ref' = [ref EXCEPT ![Cmd.var] =
                      [at |-> IF At(m, Cmd) + 1 = m.pos THEN None ELSE m.pos, ops |-> <<>>]]
    PROVE  Field(v)'
<1>0. TypeInv /\ Now("get") /\ job \in DOMAIN Jobs
  BY DEF Inv, TypeInv, Get
<1>1. pc \in DOMAIN Script /\ Cmd = Script[pc] /\ Cmd.op = "get" /\ step = "next"
  BY <1>0, NowCommand
<1>2. Cmd.at = Here /\ Cmd.var \in Var
  BY <1>0, <1>1, ScriptType DEF ReadsFields
<1>3. At(m, Cmd) = m.pos /\ m.pos \in Nat /\ m.pos < Len(archive) /\ m \in Machine
  BY <1>0, <1>1, <1>2 DEF TypeInv, Machine, At, Fails
<1>4. /\ pc' = pc + 1 /\ step' = "next" /\ archive' = archive
      /\ m' = [pos |-> m.pos + 1, val |-> [m.val EXCEPT ![Cmd.var] = archive[m.pos + 1]]]
  BY <1>1, <1>2, <1>3 DEF Do, Exec
<1>5. m.pos + 1 # m.pos
  BY <1>3
<1>6. ref' = [ref EXCEPT ![Cmd.var] = [at |-> m.pos, ops |-> <<>>]]
  BY <1>3, <1>5
<1>7. m.val \in [Var -> Int] /\ ref \in [Var -> Notes] /\ pc \in Nat \ {0}
  BY <1>0, <1>3 DEF TypeInv, Machine
<1>8. Script' = Script
  BY JobStays
<1>9. CASE v = Cmd.var
  <2>1. ref'[v] = [at |-> m.pos, ops |-> <<>>] /\ m'.val[v] = archive[m.pos + 1]
    BY <1>2, <1>4, <1>6, <1>7, <1>9
  <2>2. Reads(Script, pc, v) /\ pc \in 1 .. (pc + 1) - 1
    BY <1>1, <1>7, <1>9 DEF Reads
  <2>3. WasRead(v)'
    BY <1>4, <1>8, <2>2 DEF WasRead
  <2>4. ref'[v].at = m.pos /\ ref'[v].ops = <<>> /\ Len(ref'[v].ops) = 0
    BY <2>1
  <2>5. FewSteps(v)'
    <3>1. \A l \in 1 .. (pc + 1) - 1 : 0 < (pc + 1) - l
      BY <1>7
    <3> QED  BY <1>4, <1>8, <2>4, <3>1 DEF FewSteps
  <2>6. Constant(v)'
    BY <2>4 DEF Constant
  <2>7. Follows(v)'
    <3>1. Applied(m'.val, archive[m.pos + 1], <<>>) = archive[m.pos + 1]
      BY AppliedEmpty
    <3> QED  BY <1>3, <1>4, <2>1, <2>4, <3>1 DEF Follows
  <2> QED  BY <2>3, <2>5, <2>6, <2>7 DEF Field
<1>10. CASE v # Cmd.var
  <2>1. ref'[v] = ref[v]
    BY <1>6, <1>7, <1>10
  <2>2. ~Reads(Script, pc, v)
    BY <1>1, <1>10 DEF Reads
  <2>3. \A w \in Var : w # Cmd.var => m'.val[w] = m.val[w]
    BY <1>4, <1>7
  <2>4. Changes(Cmd)
    BY <1>1 DEF Changes
  <2> QED  BY <1>1, <1>4, <1>10, <2>1, <2>2, <2>3, <2>4, FieldStays DEF FieldInv
<1> QED  BY <1>9, <1>10

\* Math is noted as long as there is room, and for a table there is.
LEMMA MathField ==
    ASSUME Inv, FieldInv, MODE # 1, ReadsFields(Script), Math, job' = job, NEW v \in Var
    PROVE  Field(v)'
<1>0. TypeInv /\ Now("math") /\ job \in DOMAIN Jobs
  BY DEF Inv, TypeInv, Math
<1>1. pc \in DOMAIN Script /\ Cmd = Script[pc] /\ Cmd.op = "math" /\ step = "next"
  BY <1>0, NowCommand
<1>2. Cmd.var \in Var /\ Cmd.by \in Noted /\ Cmd.by.by \in Var
  BY <1>0, <1>1, ScriptType DEF Noted
<1>3. m \in Machine /\ m.val \in [Var -> Int] /\ ref \in [Var -> Notes] /\ pc \in Nat \ {0}
  BY <1>0 DEF TypeInv, Machine
<1> DEFINE y == Apply(m.val, m.val[Cmd.var], Cmd.by)
<1>4. /\ pc' = pc + 1 /\ step' = "next" /\ archive' = archive
      /\ m' = [m EXCEPT !.val[Cmd.var] = y]
  BY <1>1 DEF Math, Do, Exec
<1> HIDE DEF y
<1>5. m'.val[Cmd.var] = y /\ \A w \in Var : w # Cmd.var => m'.val[w] = m.val[w]
  BY <1>2, <1>3, <1>4 DEF Machine
<1>6. ref' = ref \/ ref' = [ref EXCEPT ![Cmd.var].ops = Append(@, Cmd.by)]
  BY DEF Math
<1>7. Script' = Script /\ Changes(Cmd) /\ Field(v) /\ ~Reads(Script, pc, v)
  BY <1>1, JobStays DEF Changes, FieldInv, Reads
<1>8. CASE v # Cmd.var
  <2>1. ref'[v] = ref[v]
    BY <1>2, <1>3, <1>6, <1>8
  <2> QED  BY <1>1, <1>4, <1>5, <1>7, <1>8, <2>1, FieldStays
<1>9. CASE v = Cmd.var /\ ~HasField(v)
  <2>1. ref' = ref
    BY <1>9 DEF Math, HasField
  <2> QED  BY <1>1, <1>4, <1>7, <1>9, <2>1, FieldStays
<1>10. CASE v = Cmd.var /\ HasField(v)
  <2> DEFINE ops == ref[v].ops
  <2>1. \E l \in 1 .. pc - 1 : Reads(Script, l, v)
    BY <1>7, <1>10 DEF Field, WasRead
  <2>2. \E l \in DOMAIN Script : Reads(Script, l, Script[pc].var)
    <3>1. \A l \in 1 .. pc - 1 : l \in DOMAIN Script
      <4>1. DOMAIN Script = 1 .. Len(Script) /\ Len(Script) \in Nat
        <5>1. Script \in Seq({Script[k] : k \in DOMAIN Script})
          BY <1>0, ScriptType
        <5> QED  BY <5>1
      <4> QED  BY <1>1, <1>3, <4>1
    <3> QED  BY <1>1, <1>10, <2>1, <3>1
  <2>3. /\ \A l \in DOMAIN Script : Changes(Script[l]) => Script[l].var # Cmd.by.by
        /\ \E l \in 1 .. pc - 1 : Reads(Script, l, v) /\ pc <= l + 8
    BY <1>1, <1>10, <2>2 DEF ReadsFields, Changes, MAX_REIMPORT_MATH_OPS
  <2>4. ops \in Seq(Noted) /\ Len(ops) \in Nat /\ ref[v].at \in Nat
    BY <1>10, NoteType
  <2>5. Len(ops) < 8
    <3>1. PICK l \in 1 .. pc - 1 : Reads(Script, l, v) /\ pc <= l + 8
      BY <2>3
    <3>2. Len(ops) < pc - l
      BY <1>7, <3>1 DEF Field, FewSteps
    <3> HIDE DEF ops
    <3> QED  BY <1>3, <2>4, <3>1, <3>2
  <2>6. ref' = [ref EXCEPT ![Cmd.var].ops = Append(@, Cmd.by)]
    BY <1>10, <2>5 DEF Math, HasField, MAX_REIMPORT_MATH_OPS
  <2>7. ref'[v].ops = Append(ops, Cmd.by) /\ ref'[v].at = ref[v].at
    <3>1. ref[v] \in Notes
      BY <1>3
    <3>2. ref'[v] = [ref[v] EXCEPT !.ops = Append(ops, Cmd.by)]
      BY <1>3, <1>10, <2>6
    <3> QED  BY <3>1, <3>2 DEF Notes
  <2>8. HasField(v)'
    BY <1>10, <2>7 DEF HasField
  <2> HIDE DEF ops
  <2>9. /\ Len(Append(ops, Cmd.by)) = Len(ops) + 1
        /\ \A k \in 1 .. Len(ops) : Append(ops, Cmd.by)[k] = ops[k]
        /\ Append(ops, Cmd.by)[Len(ops) + 1] = Cmd.by
    BY <1>2, <2>4
  <2>10. WasRead(v)'
    <3>1. \A l \in 1 .. pc - 1 : l \in 1 .. (pc + 1) - 1
      BY <1>3
    <3> QED  BY <1>4, <1>7, <2>1, <3>1 DEF WasRead
  <2>11. FewSteps(v)'
    <3> SUFFICES ASSUME NEW l \in 1 .. (pc + 1) - 1, Reads(Script, l, v)
                 PROVE  Len(ops) + 1 < (pc + 1) - l
      BY <1>4, <1>7, <2>7, <2>9 DEF FewSteps
    <3>1. Len(ops) < pc - l /\ l \in 1 .. pc - 1
      BY <1>7, OtherRead DEF Field, FewSteps, ops
    <3> QED  BY <1>3, <2>4, <3>1
  <2>12. ASSUME NEW k \in 1 .. Len(ops) + 1, NEW l \in DOMAIN Script, Changes(Script[l])
         PROVE  Script[l].var # Append(ops, Cmd.by)[k].by
    <3>1. CASE k \in 1 .. Len(ops)
      <4>1. Script[l].var # ops[k].by
        BY <1>7, <1>10, <2>12, <3>1 DEF Field, Constant, ops
      <4> QED  BY <2>9, <3>1, <4>1
    <3>2. CASE k = Len(ops) + 1
      BY <2>3, <2>9, <2>12, <3>2
    <3> QED  BY <2>4, <3>1, <3>2
  <2>13. Constant(v)'
    BY <1>7, <2>7, <2>9, <2>12 DEF Constant, Changes
  <2>14. ASSUME ReadSince(v, pc + 1)
         PROVE  /\ ref[v].at < Len(archive)
                /\ m'.val[v] = Applied(m'.val, archive[ref[v].at + 1], Append(ops, Cmd.by))
    <3>1. ReadSince(v, pc)
      BY <1>7, <2>14, OtherRead
    <3>2. /\ ref[v].at < Len(archive)
          /\ m.val[v] = Applied(m.val, archive[ref[v].at + 1], ops)
      BY <1>1, <1>7, <1>10, <3>1 DEF Field, Follows, ops
    <3> DEFINE x == archive[ref[v].at + 1]
               more == Append(ops, Cmd.by)
    <3>3. Applied(m.val, x, more) = Apply(m.val, Applied(m.val, x, ops), Cmd.by)
      BY <1>2, <2>4, AppliedAppend
    <3>4. m'.val[v] = Applied(m.val, x, more)
      BY <1>5, <1>10, <3>2, <3>3 DEF y
    <3> HIDE DEF x
    <3>5. ASSUME NEW k \in 1 .. Len(more) PROVE m.val[more[k].by] = m'.val[more[k].by]
      <4>1. k \in 1 .. Len(ops) + 1
        BY <2>9
      <4>2. more[k].by # Cmd.var
        BY <1>1, <1>7, <2>12, <4>1
      <4>3. more \in Seq(Noted)
        BY <1>2, <2>4
      <4>4. more[k].by \in Var
        <5>1. more[k] \in Noted
          <6> HIDE DEF more
          <6> QED  BY <4>3
        <5> QED  BY <5>1 DEF Noted
      <4> QED  BY <1>5, <4>2, <4>4
    <3>6. Len(more) \in Nat
      BY <2>4, <2>9
    <3> HIDE DEF more
    <3>7. Applied(m.val, x, more) = Applied(m'.val, x, more)
      BY <3>5, <3>6, AppliedAgrees
    <3> QED  BY <3>2, <3>4, <3>7 DEF x, more
  <2>15. Follows(v)'
    BY <1>4, <1>7, <2>7, <2>14 DEF Follows, ReadSince
  <2> QED  BY <2>10, <2>11, <2>13, <2>15 DEF Field
<1> QED  BY <1>8, <1>9, <1>10

\* SavePos and GoTo are not about fields.
LEMMA PlaceField ==
    ASSUME Inv, FieldInv, MODE # 1, ReadsFields(Script), SavePos \/ GoTo,
           Do, UNCHANGED ref, job' = job, NEW v \in Var
    PROVE  Field(v)'
<1>0. TypeInv /\ (Now("savepos") \/ Now("goto")) /\ job \in DOMAIN Jobs
  BY DEF Inv, TypeInv, SavePos, GoTo
<1>1. /\ pc \in DOMAIN Script /\ Cmd = Script[pc] /\ step = "next"
      /\ Cmd.op \in {"savepos", "goto"}
  BY <1>0, NowCommand
<1>2. Cmd.var \in Var /\ m \in Machine
  BY <1>0, <1>1, ScriptType DEF TypeInv
<1>3. /\ pc' = pc + 1 /\ step' = "next" /\ archive' = archive /\ m' = Exec(archive, m, Cmd)
  BY <1>1 DEF Do
<1>4. Field(v) /\ ~Reads(Script, pc, v)
  BY <1>1 DEF FieldInv, Reads
<1>5. CASE Cmd.op = "savepos"
  <2>1. m' = [m EXCEPT !.val[Cmd.var] = m.pos]
    BY <1>3, <1>5 DEF Exec
  <2>2. \A w \in Var : w # Cmd.var => m'.val[w] = m.val[w]
    BY <1>2, <2>1 DEF Machine
  <2>3. HasField(v) => v # Cmd.var
    <3> SUFFICES ASSUME HasField(v), v = Cmd.var PROVE FALSE
      OBVIOUS
    <3>1. PICK l \in 1 .. pc - 1 : Reads(Script, l, v)
      BY <1>4 DEF Field, WasRead
    <3>2. l \in DOMAIN Script
      <4>1. DOMAIN Script = 1 .. Len(Script) /\ Len(Script) \in Nat
        <5>1. Script \in Seq({Script[k] : k \in DOMAIN Script})
          BY <1>0, ScriptType
        <5> QED  BY <5>1
      <4>2. pc \in Nat
        BY <1>0 DEF TypeInv
      <4> QED  BY <1>1, <4>1, <4>2
    <3> QED  BY <1>1, <1>5, <3>1, <3>2 DEF ReadsFields
  <2>4. Changes(Cmd)
    BY <1>5 DEF Changes
  <2> QED  BY <1>1, <1>3, <1>4, <2>2, <2>3, <2>4, FieldStays
<1>6. CASE Cmd.op = "goto"
  <2>1. m' = [m EXCEPT !.pos = m.val[Cmd.var]]
    BY <1>3, <1>6 DEF Exec
  <2>2. m'.val = m.val
    BY <1>2, <2>1 DEF Machine
  <2> QED  BY <1>1, <1>3, <1>4, <2>2, FieldStays
<1> QED  BY <1>1, <1>5, <1>6

LEMMA FieldStep ==
    ASSUME TableScripts, Inv, FieldInv, [Next]_vars
    PROVE  FieldInv'
<1>0. job' = job /\ MODE' = MODE /\ job \in DOMAIN Jobs
  BY JobStays DEF Next, Terminated, vars, Inv, TypeInv
<1> SUFFICES ASSUME MODE # 1, NEW v \in Var PROVE Field(v)'
  BY <1>0 DEF FieldInv
<1>1. ReadsFields(Script) /\ Field(v)
  BY <1>0, TableScript DEF FieldInv
<1>2. CASE UNCHANGED vars
  BY <1>0, <1>1, <1>2, FieldKept DEF vars
<1>3. CASE Get \/ Math \/ SavePos \/ GoTo
  <2>1. CASE Exit
    <3>1. UNCHANGED <<pc, ref>> /\ step' = "exit"
      BY <2>1 DEF Exit
    <3> QED  BY <1>0, <1>1, <3>1, FieldKept
  <2>2. CASE ~Exit
    BY <1>0, <1>1, <1>3, <2>2, GetField, MathField, PlaceField DEF Get, SavePos, GoTo
  <2> QED  BY <2>1, <2>2
<1>4. CASE Log
  <2>1. Cmd.op = "log" /\ ref' = ref /\ archive' = archive /\ step = "next" /\ pc \in DOMAIN Script
    BY <1>4, NowCommand DEF Log, Inv
  <2>2. CASE pc' = pc + 1
    BY <1>0, <1>1, <2>1, <2>2, LogField
  <2>3. CASE pc' = pc
    <3>1. m'.val = m.val
      <4>1. m \in Machine
        BY DEF Inv, TypeInv
      <4> QED  BY <1>4, <2>1, <4>1 DEF Log, Leave, Opened, Machine
    <3> QED  BY <1>0, <1>1, <2>1, <2>3, <3>1, FieldKept
  <2> QED  BY <1>4, <2>2, <2>3 DEF Log, Leave
<1>5. CASE InLog
  <2>1. step \notin {"next", "exit"} /\ pc \in DOMAIN Script /\ Cmd.op = "log"
    <3>1. step \notin {"next", "exit"}
      BY <1>5 DEF InLog, Ask, WriteHere, Clear, AppendSpace, WriteOffset, WriteData, WriteSize,
                  StartShift, MoveChunk, EndShift
    <3> QED  BY <3>1 DEF Inv, LogInv
  <2>2. /\ ref' = ref
        /\ \/ step' \notin {"next", "fit"} /\ pc' = pc
           \/ step' = "next" /\ pc' = pc + 1
    BY <1>5, LogLeaves
  <2>3. CASE step' \notin {"next", "fit"} /\ pc' = pc
    BY <1>0, <1>1, <2>2, <2>3, FieldKept
  <2>4. CASE step' = "next" /\ pc' = pc + 1
    BY <1>0, <1>1, <2>1, <2>2, <2>4, LogField
  <2> QED  BY <2>2, <2>3, <2>4
<1>6. CASE Again
  <2>1. ref' = [w \in Var |-> NoField] /\ pc' = 1
    BY <1>6 DEF Again
  <2>2. ~HasField(v)' /\ \A l \in 1 .. pc' - 1 : FALSE
    BY <2>1 DEF HasField, NoField
  <2> QED  BY <2>2 DEF Field, WasRead, FewSteps, Constant, Follows
<1> QED  BY <1>0, <1>2, <1>3, <1>4, <1>5, <1>6 DEF Next, Commands, Terminated

\* readme.md:415: in modes 2 and 3 what is noted of the offset and the size of a Log
\* is a field of the archive and the Math that has made the value from it, for
\* every script that reads the fields of a table: add_var_reimport() (cmd.c:1690)
\* and dumpa_reimport2() (file.c:1886-1950) work on the same field.
THEOREM FieldsAreMatched ==
    ASSUME TableScripts
    PROVE  Spec => []FieldsMatch
<1>1. Init => FieldInv
  <2> SUFFICES ASSUME Init, NEW v \in Var PROVE Field(v)
    BY DEF FieldInv
  <2>1. ref = [w \in Var |-> NoField] /\ pc = 1
    BY DEF Init, Begin
  <2>2. ~HasField(v) /\ \A l \in 1 .. pc - 1 : FALSE
    BY <2>1 DEF HasField, NoField
  <2> QED  BY <2>2 DEF Field, WasRead, FewSteps, Constant, Follows
<1>2. Inv /\ FieldInv /\ [Next]_vars => FieldInv'
  BY FieldStep
<1>3. Inv /\ FieldInv => FieldsMatch
  <2> SUFFICES ASSUME Inv, FieldInv, step = "fit", MODE # 1, NEW v \in {Cmd.var, Cmd.size},
                      HasField(v)
               PROVE  /\ ref[v].at < Len(archive)
                      /\ m.val[v] = Applied(m.val, archive[ref[v].at + 1], ref[v].ops)
    BY DEF FieldsMatch
  <2>1. job \in DOMAIN Jobs /\ pc \in DOMAIN Script /\ Cmd.op = "log" /\ Cmd = Script[pc]
    BY DEF Inv, TypeInv, LogInv, Cmd
  <2>2. v \in Var
    BY <2>1, ScriptType
  <2>3. ReadsFields(Script) /\ Field(v)
    BY <2>1, <2>2, TableScript DEF FieldInv
  <2>4. \E l \in 1 .. pc - 1 : Reads(Script, l, v)
    BY <2>3 DEF Field, WasRead
  <2>5. ReadSince(v, pc)
    BY <2>1, <2>3, <2>4 DEF ReadsFields, ReadSince
  <2> QED  BY <2>3, <2>5 DEF Field, Follows
<1> QED  BY <1>1, <1>2, <1>3, ReimportTypes, PTL DEF Spec

-----------------------------------------------------------------------------
(* What a script does *)

Blank == [s |-> Fresh, out |-> <<>>, ok |-> TRUE]

\* y holds the outcome of each number of commands.
Outcomes(y, s, a, n) ==
    y = [i \in 0 .. n |-> IF i = 0 THEN {Blank} ELSE {Extract(a, r, s[i]) : r \in y[i - 1]}]

Extracts(a, z, c) == {Extract(a, r, c) : r \in z}

OutcomesUnfold(y, s, a, n) ==
    y[0] = {Blank} /\ \A i \in 1 .. n : y[i] = Extracts(a, y[i - 1], s[i])

LEMMA ExtractsOne ==
    ASSUME NEW a, NEW r, NEW c
    PROVE  Extracts(a, {r}, c) = {Extract(a, r, c)}
  BY DEF Extracts

LEMMA OutcomesExist ==
    ASSUME NEW s, NEW a
    PROVE  \A n \in Nat : \E y : Outcomes(y, s, a, n)
<1> DEFINE S == {n \in Nat : \E y : Outcomes(y, s, a, n)}
<1>1. 0 \in S
  <2> DEFINE y == [i \in 0 .. 0 |-> {Blank}]
  <2>1. Outcomes(y, s, a, 0)
    BY DEF Outcomes
  <2> QED  BY <2>1
<1>2. ASSUME NEW n \in Nat, n \in S PROVE n + 1 \in S
  <2>1. PICK y : Outcomes(y, s, a, n)
    BY <1>2
  <2> DEFINE e(z, i) == {Extract(a, r, s[i]) : r \in z}
             z == [i \in 0 .. n + 1 |-> IF i <= n THEN y[i] ELSE e(y[n], n + 1)]
  <2>2. y = [i \in 0 .. n |-> IF i = 0 THEN {Blank} ELSE e(y[i - 1], i)]
    BY <2>1 DEF Outcomes
  <2> HIDE DEF e
  <2>3. \A i \in 0 .. n : z[i] = y[i]
    OBVIOUS
  <2>4. z[n + 1] = e(y[n], n + 1)
    OBVIOUS
  <2>5. ASSUME NEW i \in 0 .. n + 1
        PROVE  z[i] = IF i = 0 THEN {Blank} ELSE e(z[i - 1], i)
    <3>1. CASE i = 0
      BY <2>2, <2>3, <3>1
    <3>2. CASE i \in 1 .. n
      <4>1. i - 1 \in 0 .. n /\ i \in 0 .. n /\ i # 0
        BY <3>2
      <4> HIDE DEF z
      <4> QED  BY <2>2, <2>3, <4>1
    <3>3. CASE i = n + 1
      <4>1. i - 1 = n /\ n \in 0 .. n /\ i # 0
        BY <3>3
      <4> HIDE DEF z
      <4> QED  BY <2>3, <2>4, <3>3, <4>1
    <3> QED  BY <3>1, <3>2, <3>3
  <2>6. z = [i \in 0 .. n + 1 |-> z[i]]
    OBVIOUS
  <2> HIDE DEF z
  <2>7. z = [i \in 0 .. n + 1 |-> IF i = 0 THEN {Blank} ELSE e(z[i - 1], i)]
    BY <2>5, <2>6
  <2>8. Outcomes(z, s, a, n + 1)
    BY <2>7 DEF Outcomes, e
  <2> QED  BY <2>8
<1> HIDE DEF S
<1>3. Nat \subseteq S
  BY <1>1, <1>2, NatInduct
<1> QED  BY <1>3 DEF S

LEMMA OutcomesDo ==
    ASSUME NEW s, NEW a, NEW n \in Nat, NEW y, Outcomes(y, s, a, n)
    PROVE  OutcomesUnfold(y, s, a, n)
<1> DEFINE e(z, i) == {Extract(a, r, s[i]) : r \in z}
<1>1. y = [i \in 0 .. n |-> IF i = 0 THEN {Blank} ELSE e(y[i - 1], i)]
  BY DEF Outcomes
<1> HIDE DEF e
<1>2. y[0] = {Blank}
  BY <1>1
<1>3. ASSUME NEW i \in 1 .. n PROVE y[i] = e(y[i - 1], i)
  <2>1. i \in 0 .. n /\ i # 0
    OBVIOUS
  <2> QED  BY <1>1, <2>1
<1> QED  BY <1>2, <1>3 DEF e, OutcomesUnfold, Extracts

Single(z) == \E r : z = {r}

\* There is one outcome, however many commands follow.
LEMMA OneOutcome ==
    ASSUME NEW s, NEW a, NEW n \in Nat, NEW l \in Nat, n <= l,
           NEW y, NEW z, Outcomes(y, s, a, n), Outcomes(z, s, a, l)
    PROVE  y[n] = z[n] /\ Single(z[n])
<1> DEFINE S == {i \in Nat : i <= n => y[i] = z[i] /\ Single(z[i])}
<1>0. OutcomesUnfold(y, s, a, n) /\ OutcomesUnfold(z, s, a, l)
  BY OutcomesDo
<1>1. 0 \in S
  BY <1>0 DEF OutcomesUnfold, Single
<1>2. ASSUME NEW i \in Nat, i \in S PROVE i + 1 \in S
  <2>1. CASE i + 1 <= n
    <3>1. i + 1 \in 1 .. n /\ i + 1 \in 1 .. l /\ (i + 1) - 1 = i /\ y[i] = z[i]
      BY <1>2, <2>1
    <3>2. PICK r : z[i] = {r}
      <4>1. Single(z[i])
        BY <1>2, <2>1
      <4> QED  BY <4>1 DEF Single
    <3>3. y[i + 1] = Extracts(a, y[i], s[i + 1])
      BY <1>0, <3>1 DEF OutcomesUnfold
    <3>4. z[i + 1] = Extracts(a, z[i], s[i + 1])
      BY <1>0, <3>1 DEF OutcomesUnfold
    <3>5. z[i + 1] = {Extract(a, r, s[i + 1])}
      BY <3>2, <3>4, ExtractsOne
    <3>6. Single(z[i + 1])
      BY <3>5 DEF Single
    <3> QED  BY <3>1, <3>3, <3>4, <3>6
  <2>2. CASE ~(i + 1 <= n)
    BY <2>2
  <2> QED  BY <2>1, <2>2
<1> HIDE DEF S
<1>3. n \in S /\ n <= n
  BY <1>1, <1>2, NatInduct
<1>4. n <= n => y[n] = z[n] /\ Single(z[n])
  BY <1>3 DEF S
<1> QED  BY <1>3, <1>4

LEMMA OutcomeIs ==
    ASSUME NEW s, NEW a, NEW n \in Nat
    PROVE  \E y : Outcomes(y, s, a, n) /\ y[n] = {Outcome(s, a, n)}
<1> DEFINE y == CHOOSE z : Outcomes(z, s, a, n)
<1>1. Outcomes(y, s, a, n)
  BY OutcomesExist
<1>2. Outcome(s, a, n) = CHOOSE r \in y[n] : TRUE
  BY DEF Outcome, Outcomes, Blank
<1> HIDE DEF y
<1>3. PICK r : y[n] = {r}
  <2>1. n <= n
    OBVIOUS
  <2>2. Single(y[n])
    BY <1>1, <2>1, OneOutcome
  <2> QED  BY <2>2 DEF Single
<1> QED  BY <1>1, <1>2, <1>3

\* Command by command.
LEMMA OutcomeSteps ==
    ASSUME NEW s, NEW a
    PROVE  /\ Outcome(s, a, 0) = Blank
           /\ \A n \in Nat : Outcome(s, a, n + 1) = Extract(a, Outcome(s, a, n), s[n + 1])
<1>1. Outcome(s, a, 0) = Blank
  <2>1. PICK y : Outcomes(y, s, a, 0) /\ y[0] = {Outcome(s, a, 0)}
    BY OutcomeIs
  <2>2. y[0] = {Blank}
    BY <2>1, OutcomesDo DEF OutcomesUnfold
  <2> QED  BY <2>1, <2>2
<1>2. ASSUME NEW n \in Nat
      PROVE  Outcome(s, a, n + 1) = Extract(a, Outcome(s, a, n), s[n + 1])
  <2>1. PICK y : Outcomes(y, s, a, n) /\ y[n] = {Outcome(s, a, n)}
    BY OutcomeIs
  <2>2. PICK z : Outcomes(z, s, a, n + 1) /\ z[n + 1] = {Outcome(s, a, n + 1)}
    BY OutcomeIs
  <2>3. n + 1 \in Nat /\ n <= n + 1 /\ n + 1 \in 1 .. n + 1 /\ (n + 1) - 1 = n
    OBVIOUS
  <2>4. y[n] = z[n]
    BY <2>1, <2>2, <2>3, OneOutcome
  <2>5. z[n + 1] = Extracts(a, z[n], s[n + 1])
    <3>1. OutcomesUnfold(z, s, a, n + 1)
      BY <2>2, <2>3, OutcomesDo
    <3>2. \A i \in 1 .. n + 1 : z[i] = Extracts(a, z[i - 1], s[i])
      BY <3>1 DEF OutcomesUnfold
    <3>3. z[n + 1] = Extracts(a, z[(n + 1) - 1], s[n + 1])
      BY <2>3, <3>2
    <3> QED  BY <2>3, <3>3
  <2>6. Extracts(a, {Outcome(s, a, n)}, s[n + 1]) = {Extract(a, Outcome(s, a, n), s[n + 1])}
    BY ExtractsOne
  <2>7. {Outcome(s, a, n + 1)} = {Extract(a, Outcome(s, a, n), s[n + 1])}
    BY <2>1, <2>2, <2>4, <2>5, <2>6
  <2> QED  BY <2>7
<1> QED  BY <1>1, <1>2

\* An outcome is a record of three.
Three(r) == DOMAIN r = {"s", "out", "ok"} /\ r.s \in Machine /\ r.ok \in BOOLEAN
            /\ r.out = [f \in DOMAIN r.out |-> r.out[f]]

\* A command that fails, a Log, and any other one.
Does(a, r, c, e) ==
    LET o == r.s.val[c.var]
        n == r.s.val[c.size]
    IN  /\ Three(e)
        /\ e.ok = (r.ok /\ ~Fails(a, r.s, c))
        /\ e.ok /\ c.op # "log" => e.s = Exec(a, r.s, c) /\ e.out = r.out
        /\ c.op = "log" => e.s = r.s
        /\ e.ok /\ c.op = "log" /\ o >= 0 /\ n >= 0 /\ o + n <= Len(a) =>
              e.out = [f \in DOMAIN r.out \cup {c.name} |->
                          IF f = c.name THEN SubSeq(a, o + 1, o + n) ELSE r.out[f]]

LEMMA ExtractIs ==
    ASSUME NEW a \in Seq(Int), NEW r, Three(r), NEW k \in DOMAIN Script, job \in DOMAIN Jobs
    PROVE  Does(a, r, Script[k], Extract(a, r, Script[k]))
<1> DEFINE c == Script[k]
           o == r.s.val[c.var]
           n == r.s.val[c.size]
           e == Extract(a, r, c)
           new == [f \in DOMAIN r.out \cup {c.name} |->
                      IF f = c.name THEN SubSeq(a, o + 1, o + n) ELSE r.out[f]]
<1>0. DOMAIN r = {"s", "out", "ok"} /\ r.s \in Machine /\ r.ok \in BOOLEAN
      /\ r.out = [f \in DOMAIN r.out |-> r.out[f]]
  BY DEF Three
<1>1. CASE ~r.ok \/ Fails(a, r.s, c)
  <2>1. e = [r EXCEPT !.ok = FALSE]
    BY <1>1 DEF Extract
  <2>2. DOMAIN e = DOMAIN r /\ e.s = r.s /\ e.out = r.out /\ e.ok = FALSE
    BY <1>0, <2>1
  <2>3. Three(e)
    BY <1>0, <2>2 DEF Three
  <2> HIDE DEF e, c
  <2>4. Does(a, r, c, e)
    BY <1>0, <1>1, <2>2, <2>3 DEF Does
  <2> QED  BY <2>4 DEF e, c
<1>2. CASE r.ok /\ ~Fails(a, r.s, c) /\ c.op = "log" /\ o >= 0 /\ n >= 0 /\ o + n <= Len(a)
  <2>1. e = [r EXCEPT !.out = new]
    BY <1>2 DEF Extract
  <2> HIDE DEF new
  <2>2. DOMAIN e = DOMAIN r /\ e.s = r.s /\ e.out = new /\ e.ok = TRUE
    BY <1>0, <1>2, <2>1
  <2>3. new = [f \in DOMAIN new |-> new[f]]
    BY DEF new
  <2>4. Three(e)
    BY <1>0, <2>2, <2>3 DEF Three
  <2> HIDE DEF e, c
  <2>5. Does(a, r, c, e)
    BY <1>0, <1>2, <2>2, <2>4 DEF Does, new, o, n
  <2> QED  BY <2>5 DEF e, c
<1>3. CASE r.ok /\ ~Fails(a, r.s, c) /\ ~(c.op = "log" /\ o >= 0 /\ n >= 0 /\ o + n <= Len(a))
  <2>1. e = [r EXCEPT !.s = Exec(a, r.s, c)]
    BY <1>3 DEF Extract
  <2>2. DOMAIN e = DOMAIN r /\ e.s = Exec(a, r.s, c) /\ e.out = r.out /\ e.ok = TRUE
    BY <1>0, <1>3, <2>1
  <2>3. Exec(a, r.s, c) \in Machine
    BY <1>0, <1>3, ExecType
  <2>4. c.op = "log" => Exec(a, r.s, c) = r.s
    BY DEF Exec
  <2>5. Three(e)
    BY <1>0, <2>2, <2>3 DEF Three
  <2> HIDE DEF e, c
  <2>6. Does(a, r, c, e)
    BY <1>0, <1>3, <2>2, <2>4, <2>5 DEF Does
  <2> QED  BY <2>6 DEF e, c
<1> HIDE DEF e
<1> QED  BY <1>1, <1>2, <1>3

LEMMA ScriptLength ==
    ASSUME job \in DOMAIN Jobs
    PROVE  Len(Script) \in Nat /\ DOMAIN Script = 1 .. Len(Script)
<1> DEFINE S == {Script[k] : k \in DOMAIN Script}
<1>1. Script \in Seq(S)
  BY ScriptType
<1> HIDE DEF S
<1> QED  BY <1>1

LEMMA OutcomeType ==
    ASSUME job \in DOMAIN Jobs, NEW a \in Seq(Int)
    PROVE  \A k \in 0 .. Len(Script) : Three(Outcome(Script, a, k))
<1> DEFINE S == {k \in Nat : k <= Len(Script) => Three(Outcome(Script, a, k))}
<1>1. Len(Script) \in Nat /\ DOMAIN Script = 1 .. Len(Script)
  BY ScriptLength
<1>2. 0 \in S
  <2>1. Three(Blank)
    <3>1. DOMAIN Blank = {"s", "out", "ok"} /\ Blank.s = Fresh /\ Blank.ok = TRUE /\ Blank.out = <<>>
      BY DEF Blank
    <3>2. <<>> = [f \in DOMAIN <<>> |-> <<>>[f]]
      OBVIOUS
    <3> QED  BY <3>1, <3>2, FreshType DEF Three
  <2> QED  BY <2>1, OutcomeSteps
<1>3. ASSUME NEW k \in Nat, k \in S PROVE k + 1 \in S
  <2>1. CASE k + 1 <= Len(Script)
    <3>1. k + 1 \in DOMAIN Script /\ k <= Len(Script)
      BY <1>1, <2>1
    <3>2. Three(Outcome(Script, a, k))
      BY <1>3, <3>1
    <3>3. Three(Extract(a, Outcome(Script, a, k), Script[k + 1]))
      <4>1. Does(a, Outcome(Script, a, k), Script[k + 1], Extract(a, Outcome(Script, a, k), Script[k + 1]))
        BY <3>1, <3>2, ExtractIs
      <4> QED  BY <4>1 DEF Does
    <3>4. Outcome(Script, a, k + 1) = Extract(a, Outcome(Script, a, k), Script[k + 1])
      BY OutcomeSteps
    <3>5. Three(Outcome(Script, a, k + 1))
      BY <3>3, <3>4
    <3> QED  BY <3>5
  <2>2. CASE ~(k + 1 <= Len(Script))
    BY <2>2
  <2> QED  BY <2>1, <2>2
<1> HIDE DEF S
<1>4. Nat \subseteq S
  BY <1>2, <1>3, NatInduct
<1>5. ASSUME NEW k \in 0 .. Len(Script) PROVE Three(Outcome(Script, a, k))
  <2>1. k \in Nat /\ k <= Len(Script)
    BY <1>1
  <2>2. k \in S
    BY <1>4, <2>1
  <2> QED  BY <2>1, <2>2 DEF S
<1> QED  BY <1>5

-----------------------------------------------------------------------------
(* An archive that the script reads as it read another one *)

Alike(s, a, b) ==
    /\ a \in Seq(Int) /\ Len(a) = Len(b)
    /\ \A l \in DOMAIN s : s[l].op = "get" =>
          a[At(Found(s, b, l), s[l]) + 1] = b[At(Found(s, b, l), s[l]) + 1]

LEMMA AlikeSelf ==
    ASSUME NEW b \in Seq(Int)
    PROVE  Alike(Script, b, b)
  BY DEF Alike

LEMMA AlikeStep ==
    ASSUME NEW a, NEW b, Len(a) = Len(b), NEW s, NEW c,
           c.op \in {"get", "math", "savepos", "goto", "log"},
           c.op = "get" => a[At(s, c) + 1] = b[At(s, c) + 1]
    PROVE  /\ Fails(a, s, c) <=> Fails(b, s, c)
           /\ Exec(a, s, c) = Exec(b, s, c)
<1>1. Fails(a, s, c) <=> Fails(b, s, c)
  BY DEF Fails
<1>2. Exec(a, s, c) = Exec(b, s, c)
  <2>1. CASE c.op = "get"
    <3> DEFINE x == At(s, c)
    <3> HIDE DEF x
    <3> QED  BY <2>1 DEF Exec, x
  <2>2. CASE c.op = "math"
    BY <2>2 DEF Exec
  <2>3. CASE c.op = "savepos"
    BY <2>3 DEF Exec
  <2>4. CASE c.op = "goto"
    BY <2>4 DEF Exec
  <2>5. CASE c.op = "log"
    BY <2>5 DEF Exec
  <2> QED  BY <2>1, <2>2, <2>3, <2>4, <2>5
<1> QED  BY <1>1, <1>2

\* What the script does with b, and how it reads a.
LEMMA Along ==
    ASSUME job \in DOMAIN Jobs, NEW b \in Seq(Int), Separate(Script, b), NEW a, Alike(Script, a, b),
           NEW k \in DOMAIN Script
    PROVE  LET c == Script[k]
               s == Found(Script, b, k)
           IN  /\ s = Outcome(Script, b, k - 1).s /\ s \in Machine
               /\ ~Fails(b, s, c) /\ ~Fails(a, s, c)
               /\ c.op # "log" => /\ Outcome(Script, b, k).s = Exec(b, s, c)
                                  /\ Outcome(Script, b, k).s = Exec(a, s, c)
               /\ c.op = "log" => Outcome(Script, b, k).s = s
<1> DEFINE c == Script[k]
           s == Found(Script, b, k)
           r == Outcome(Script, b, k - 1)
           e == Outcome(Script, b, k)
<1>1. k - 1 \in 0 .. Len(Script) /\ k - 1 \in Nat /\ (k - 1) + 1 = k /\ k \in 0 .. Len(Script)
  BY ScriptLength
<1>2. s = r.s /\ Three(r)
  BY <1>1, OutcomeType DEF Found
<1>3. e = Extract(b, r, c)
  <2>1. Outcome(Script, b, (k - 1) + 1) = Extract(b, Outcome(Script, b, k - 1), Script[(k - 1) + 1])
    BY <1>1, OutcomeSteps
  <2> QED  BY <1>1, <2>1
<1>4. e.ok /\ e.ok \in BOOLEAN
  <2>1. e.ok
    BY <1>1 DEF Separate
  <2>2. Three(e)
    BY <1>1, OutcomeType
  <2> QED  BY <2>1, <2>2 DEF Three
<1>5. a \in Seq(Int) /\ Len(a) = Len(b) /\ (c.op = "get" => a[At(s, c) + 1] = b[At(s, c) + 1])
  BY DEF Alike
<1>6. (Fails(a, s, c) <=> Fails(b, s, c)) /\ Exec(a, s, c) = Exec(b, s, c)
  <2>1. c.op \in {"get", "math", "savepos", "goto", "log"}
    BY ScriptType
  <2> HIDE DEF c, s
  <2> QED  BY <1>5, <2>1, AlikeStep
<1>7. /\ Extract(b, r, c).ok = (r.ok /\ ~Fails(b, r.s, c))
      /\ Extract(b, r, c).ok /\ c.op # "log" => Extract(b, r, c).s = Exec(b, r.s, c)
      /\ c.op = "log" => Extract(b, r, c).s = r.s
  <2>1. Does(b, r, c, Extract(b, r, c))
    BY <1>2, ExtractIs
  <2> HIDE DEF r, c
  <2> QED  BY <2>1 DEF Does
<1>8. s \in Machine
  BY <1>2 DEF Three
<1> HIDE DEF c, s, r, e
<1>9. ~Fails(b, s, c)
  BY <1>2, <1>3, <1>4, <1>7
<1> QED  BY <1>2, <1>3, <1>4, <1>6, <1>7, <1>8, <1>9 DEF c, s, r, e

LEMMA AlikeOutcomes ==
    ASSUME job \in DOMAIN Jobs, NEW b \in Seq(Int), Separate(Script, b), NEW a, Alike(Script, a, b)
    PROVE  \A k \in 0 .. Len(Script) :
              Outcome(Script, a, k).s = Outcome(Script, b, k).s /\ Outcome(Script, a, k).ok = TRUE
<1> DEFINE P(k) == Outcome(Script, a, k).s = Outcome(Script, b, k).s /\ Outcome(Script, a, k).ok = TRUE
           S == {k \in Nat : k <= Len(Script) => P(k)}
<1>1. Len(Script) \in Nat /\ DOMAIN Script = 1 .. Len(Script) /\ a \in Seq(Int)
  BY ScriptLength DEF Alike
<1>2. 0 \in S
  <2>1. Outcome(Script, a, 0) = Blank /\ Outcome(Script, b, 0) = Blank
    BY OutcomeSteps
  <2>2. Blank.ok = TRUE
    BY DEF Blank
  <2> QED  BY <2>1, <2>2
<1>3. ASSUME NEW k \in Nat, k \in S PROVE k + 1 \in S
  <2>1. CASE k + 1 <= Len(Script)
    <3> DEFINE c == Script[k + 1]
               r == Outcome(Script, a, k)
               s == Found(Script, b, k + 1)
    <3>1. k + 1 \in DOMAIN Script /\ k <= Len(Script) /\ k \in 0 .. Len(Script) /\ (k + 1) - 1 = k
      BY <1>1, <2>1
    <3>2. P(k) /\ Three(r)
      BY <1>1, <1>3, <3>1, OutcomeType
    <3>3. Outcome(Script, a, k + 1) = Extract(a, r, c)
      BY OutcomeSteps
    <3>4. /\ s = Outcome(Script, b, k).s
          /\ ~Fails(a, s, c)
          /\ c.op # "log" => Outcome(Script, b, k + 1).s = Exec(a, s, c)
          /\ c.op = "log" => Outcome(Script, b, k + 1).s = s
      BY <3>1, Along
    <3>5. /\ Extract(a, r, c).ok = (r.ok /\ ~Fails(a, r.s, c))
          /\ Extract(a, r, c).ok /\ c.op # "log" => Extract(a, r, c).s = Exec(a, r.s, c)
          /\ c.op = "log" => Extract(a, r, c).s = r.s
      <4>1. a \in Seq(Int) /\ Three(r)
        BY <1>1, <3>2
      <4> HIDE DEF r
      <4>2. Does(a, r, c, Extract(a, r, c))
        BY <3>1, <4>1, ExtractIs
      <4> HIDE DEF c
      <4> QED  BY <4>2 DEF Does
    <3>6. r.s = s /\ r.ok = TRUE
      BY <3>2, <3>4
    <3> HIDE DEF c, r, s
    <3>7. P(k + 1)
      BY <3>3, <3>4, <3>5, <3>6
    <3> QED  BY <3>7
  <2>2. CASE ~(k + 1 <= Len(Script))
    BY <2>2
  <2> QED  BY <2>1, <2>2
<1> HIDE DEF S
<1>4. Nat \subseteq S
  BY <1>2, <1>3, NatInduct
<1>5. ASSUME NEW k \in 0 .. Len(Script) PROVE P(k)
  <2>1. k \in Nat /\ k <= Len(Script)
    BY <1>1
  <2>2. k \in S
    BY <1>4, <2>1
  <2> QED  BY <2>1, <2>2 DEF S
<1> QED  BY <1>5

\* The Logs of the first k commands.
Logs(s, k) == {l \in 1 .. k : s[l].op = "log"}

\* The files that are extracted from a.
Extracted(s, a, b, k, out) ==
    /\ out = [f \in DOMAIN out |-> out[f]]
    /\ DOMAIN out = {s[l].name : l \in Logs(s, k)}
    /\ \A l \in Logs(s, k) :
          out[s[l].name] = SubSeq(a, From(s, b, l) + 1, From(s, b, l) + Long(s, b, l))

LEMMA ExtractedMore ==
    ASSUME NEW s, NEW a, NEW b, NEW k \in Nat, NEW out, Extracted(s, a, b, k, out),
           s[k + 1].op = "log", \A l \in Logs(s, k) : s[l].name # s[k + 1].name, NEW cells,
           cells = SubSeq(a, From(s, b, k + 1) + 1, From(s, b, k + 1) + Long(s, b, k + 1)), NEW new,
           new = [f \in DOMAIN out \cup {s[k + 1].name} |-> IF f = s[k + 1].name THEN cells ELSE out[f]]
    PROVE  Extracted(s, a, b, k + 1, new)
<1> DEFINE F(l) == SubSeq(a, From(s, b, l) + 1, From(s, b, l) + Long(s, b, l))
<1>1. Logs(s, k + 1) = Logs(s, k) \cup {k + 1}
  BY DEF Logs
<1>2. DOMAIN new = {s[l].name : l \in Logs(s, k + 1)}
  BY <1>1 DEF Extracted
<1>3. new = [f \in DOMAIN new |-> new[f]]
  OBVIOUS
<1>4. cells = F(k + 1) /\ \A l \in Logs(s, k) : s[l].name \in DOMAIN out /\ out[s[l].name] = F(l)
  BY DEF Extracted
<1> HIDE DEF F
<1>5. \A l \in Logs(s, k + 1) : new[s[l].name] = F(l)
  <2>1. ASSUME NEW l \in Logs(s, k) PROVE new[s[l].name] = F(l)
    BY <1>4
  <2>2. new[s[k + 1].name] = F(k + 1)
    BY <1>4
  <2> QED  BY <1>1, <2>1, <2>2
<1> QED  BY <1>2, <1>3, <1>5 DEF F, Extracted

LEMMA ExtractedFiles ==
    ASSUME job \in DOMAIN Jobs, NEW b \in Seq(Int), Separate(Script, b), NEW a, Alike(Script, a, b)
    PROVE  Extracted(Script, a, b, Len(Script), Files(a))
<1> DEFINE P(k) == Extracted(Script, a, b, k, Outcome(Script, a, k).out)
           S == {k \in Nat : k <= Len(Script) => P(k)}
<1>1. Len(Script) \in Nat /\ DOMAIN Script = 1 .. Len(Script) /\ a \in Seq(Int) /\ Len(a) = Len(b)
  BY ScriptLength DEF Alike
<1>2. 0 \in S
  <2>1. Outcome(Script, a, 0) = Blank /\ Three(Outcome(Script, a, 0))
    BY <1>1, OutcomeSteps, OutcomeType
  <2>2. Blank.out = <<>> /\ DOMAIN <<>> = {} /\ <<>> = [f \in DOMAIN <<>> |-> <<>>[f]]
    BY DEF Blank
  <2>3. Logs(Script, 0) = {}
    BY DEF Logs
  <2> QED  BY <2>1, <2>2, <2>3 DEF Extracted
<1>3. ASSUME NEW k \in Nat, k \in S PROVE k + 1 \in S
  <2>1. CASE k + 1 <= Len(Script)
    <3> DEFINE c == Script[k + 1]
               r == Outcome(Script, a, k)
               e == Outcome(Script, a, k + 1)
               o == From(Script, b, k + 1)
               n == Long(Script, b, k + 1)
               cells == SubSeq(a, o + 1, o + n)
    <3>1. k + 1 \in DOMAIN Script /\ k <= Len(Script) /\ k \in 0 .. Len(Script) /\ (k + 1) - 1 = k
          /\ k + 1 \in 0 .. Len(Script)
      BY <1>1, <2>1
    <3>2. P(k) /\ Three(r)
      BY <1>1, <1>3, <3>1, OutcomeType
    <3>3. e = Extract(a, r, c)
      BY OutcomeSteps
    <3>4. e.ok = TRUE /\ r.s = Found(Script, b, k + 1)
      BY <3>1, AlikeOutcomes DEF Found
    <3>5. CASE c.op # "log"
      <4>1. e.out = r.out
        <5>1. a \in Seq(Int) /\ k + 1 \in DOMAIN Script /\ Three(r)
          BY <1>1, <3>1, <3>2
        <5>2. e.ok
          BY <3>4
        <5> HIDE DEF r, e
        <5>3. Does(a, r, c, Extract(a, r, c))
          BY <5>1, ExtractIs
        <5> QED  BY <3>3, <3>5, <5>2, <5>3 DEF Does
      <4>2. Logs(Script, k + 1) = Logs(Script, k)
        BY <3>5 DEF Logs
      <4>3. P(k + 1)
        BY <3>2, <4>1, <4>2 DEF Extracted
      <4> QED  BY <4>3
    <3>6. CASE c.op = "log"
      <4>1. /\ r.s.val[c.var] = o /\ r.s.val[c.size] = n
        BY <3>4 DEF From, Long
      <4>2. /\ o >= 0 /\ n >= 0 /\ o + n <= Len(a)
            /\ \A l \in DOMAIN Script : Script[l].op = "log" /\ l # k + 1 => Script[l].name # c.name
        BY <1>1, <3>1, <3>6 DEF Separate
      <4>3. e.out = [f \in DOMAIN r.out \cup {c.name} |-> IF f = c.name THEN cells ELSE r.out[f]]
        <5>1. /\ r.s.val[c.var] >= 0 /\ r.s.val[c.size] >= 0
              /\ r.s.val[c.var] + r.s.val[c.size] <= Len(a) /\ Extract(a, r, c).ok
          BY <3>3, <3>4, <4>1, <4>2
        <5>2. Extract(a, r, c).out =
                 [f \in DOMAIN r.out \cup {c.name} |->
                    IF f = c.name THEN SubSeq(a, r.s.val[c.var] + 1, r.s.val[c.var] + r.s.val[c.size])
                    ELSE r.out[f]]
          <6>1. Does(a, r, c, Extract(a, r, c))
            BY <1>1, <3>1, <3>2, ExtractIs
          <6> HIDE DEF r, c
          <6> QED  BY <3>6, <5>1, <6>1 DEF Does
        <5> HIDE DEF c, r, e, o, n
        <5> QED  BY <3>3, <4>1, <5>2
      <4>4. \A l \in Logs(Script, k) : Script[l].name # c.name
        <5>1. ASSUME NEW l \in Logs(Script, k) PROVE Script[l].name # c.name
          <6>1. l \in DOMAIN Script /\ l # k + 1 /\ Script[l].op = "log"
            BY <1>1, <3>1 DEF Logs
          <6> QED  BY <4>2, <6>1
        <5> QED  BY <5>1
      <4> DEFINE new == [f \in DOMAIN r.out \cup {c.name} |-> IF f = c.name THEN cells ELSE r.out[f]]
      <4>5. Extracted(Script, a, b, k, r.out)
        BY <3>2
      <4>6. Extracted(Script, a, b, k + 1, new)
        <5> DEFINE t == Script
        <5>1. /\ Extracted(t, a, b, k, r.out) /\ t[k + 1].op = "log"
              /\ \A l \in Logs(t, k) : t[l].name # t[k + 1].name
              /\ cells = SubSeq(a, From(t, b, k + 1) + 1, From(t, b, k + 1) + Long(t, b, k + 1))
              /\ new = [f \in DOMAIN r.out \cup {t[k + 1].name} |->
                           IF f = t[k + 1].name THEN cells ELSE r.out[f]]
          BY <3>6, <4>4, <4>5
        <5> HIDE DEF t, r, cells, new
        <5>2. Extracted(t, a, b, k + 1, new)
          BY <5>1, ExtractedMore
        <5> QED  BY <5>2 DEF t
      <4> QED  BY <4>3, <4>6
    <3> QED  BY <3>5, <3>6
  <2>2. CASE ~(k + 1 <= Len(Script))
    BY <2>2
  <2> QED  BY <2>1, <2>2
<1> HIDE DEF S
<1>4. Len(Script) \in S /\ Len(Script) <= Len(Script)
  <2>1. Nat \subseteq S
    BY <1>2, <1>3, NatInduct
  <2> QED  BY <1>1, <2>1
<1>5. P(Len(Script))
  BY <1>4 DEF S
<1> QED  BY <1>5 DEF Files

-----------------------------------------------------------------------------
(* What the runs have written (mode 1) *)

\* The file of a Log is put into the archive, and what its cells are to hold then.
Takes(s, b, fo, v, l) == ~v /\ s[l].name \in DOMAIN fo /\ Len(fo[s[l].name]) <= Long(s, b, l)

Wants(s, b, fo, v, l, i) ==
    IF ~Takes(s, b, fo, v, l) THEN b[From(s, b, l) + i]
    ELSE IF i <= Len(fo[s[l].name]) THEN fo[s[l].name][i] ELSE 0

AllLogs(s) == Logs(s, Len(s))

\* The archive a, from b: a Log before the p-th command has put its file back; one
\* that follows may have done so in an earlier run, which may have stopped.
Cells(s, b, fo, v, a, p) ==
    /\ Len(a) = Len(b)
    /\ \A i \in DOMAIN b : (\A l \in AllLogs(s) : i \notin Place(s, b, l)) => a[i] = b[i]
    /\ \A l \in AllLogs(s) : \A i \in 1 .. Long(s, b, l) :
          \/ a[From(s, b, l) + i] = Wants(s, b, fo, v, l, i)
          \/ l >= p /\ a[From(s, b, l) + i] = b[From(s, b, l) + i]

\* The script is where it was when it extracted b.
Follow(s, b, fo, p, st, mm, lg) ==
    /\ st \in {"next", "fit", "exit"} /\ p \in 1 .. Len(s) + 1
    /\ st = "next" => mm = Outcome(s, b, p - 1).s
    /\ st = "fit" =>
          /\ p \in AllLogs(s) /\ mm.val = Found(s, b, p).val
          /\ lg.offset = From(s, b, p) /\ lg.old = Long(s, b, p) /\ lg.oldoff = Found(s, b, p).pos
          /\ s[p].name \in DOMAIN fo /\ lg.data = fo[s[p].name] /\ ~lg.forced

Begun(b) ==
    /\ b \in Jobs[job].archives /\ first = Files(b)
    /\ Cells(Script, b, folder, VoidDump, archive, pc)
    /\ Follow(Script, b, folder, pc, step, m, log)

RunInv == InPlace => \E b : Begun(b)

LEMMA CellsNext ==
    ASSUME NEW s, NEW b, NEW fo, NEW v, NEW a, NEW p \in Nat, Cells(s, b, fo, v, a, p),
           p \in AllLogs(s) => \A i \in 1 .. Long(s, b, p) :
                                  a[From(s, b, p) + i] = Wants(s, b, fo, v, p, i)
    PROVE  Cells(s, b, fo, v, a, p + 1)
<1>1. ASSUME NEW l \in AllLogs(s), NEW i \in 1 .. Long(s, b, l)
      PROVE  \/ a[From(s, b, l) + i] = Wants(s, b, fo, v, l, i)
             \/ l >= p + 1 /\ a[From(s, b, l) + i] = b[From(s, b, l) + i]
  <2>1. \/ a[From(s, b, l) + i] = Wants(s, b, fo, v, l, i)
        \/ l >= p /\ a[From(s, b, l) + i] = b[From(s, b, l) + i]
    BY DEF Cells
  <2>2. l \in Nat
    BY DEF AllLogs, Logs
  <2>3. CASE l = p
    BY <2>3
  <2>4. CASE l # p
    <3>1. l >= p => l >= p + 1
      BY <2>2, <2>4
    <3> QED  BY <2>1, <3>1
  <2> QED  BY <2>3, <2>4
<1> QED  BY <1>1 DEF Cells

\* A Log that takes nothing leaves what is wanted.
LEMMA CellsLeft ==
    ASSUME NEW s, NEW b, NEW fo, NEW v, NEW a, NEW p \in Nat, Cells(s, b, fo, v, a, p),
           ~Takes(s, b, fo, v, p)
    PROVE  Cells(s, b, fo, v, a, p + 1)
<1>1. ASSUME p \in AllLogs(s), NEW i \in 1 .. Long(s, b, p)
      PROVE  a[From(s, b, p) + i] = Wants(s, b, fo, v, p, i)
  <2>1. \/ a[From(s, b, p) + i] = Wants(s, b, fo, v, p, i)
        \/ a[From(s, b, p) + i] = b[From(s, b, p) + i]
    BY <1>1 DEF Cells
  <2> QED  BY <2>1 DEF Wants
<1> QED  BY <1>1, CellsNext

LEMMA CellsAgain ==
    ASSUME NEW s, NEW b, NEW fo, NEW v, NEW a, NEW p, Cells(s, b, fo, v, a, p)
    PROVE  Cells(s, b, fo, v, a, 1)
<1>1. \A l \in AllLogs(s) : l >= 1
  BY DEF AllLogs, Logs
<1> QED  BY <1>1 DEF Cells

\* A cell of a place.
Inside(i, x, y, n) ==
    /\ x + i \in 1 .. n /\ x + i \in x + 1 .. x + y
    /\ x + i > x /\ x + i <= x + y /\ (x + i) - x = i

LEMMA InRange ==
    ASSUME NEW x \in Nat, NEW y \in Nat, NEW n \in Nat, x + y <= n, NEW i \in 1 .. y
    PROVE  Inside(i, x, y, n)
<1>1. PICK j \in Nat : j = x + i
  OBVIOUS
<1>2. j \in 1 .. n /\ j \in x + 1 .. x + y /\ j > x /\ j <= x + y /\ j - x = i
  BY <1>1
<1> QED  BY <1>1, <1>2, Zenon DEF Inside

\* What Put does within the archive.
LEMMA PutWithin ==
    ASSUME NEW a \in Seq(Int), NEW p \in Nat, NEW d \in Seq(Int), p + Len(d) <= Len(a)
    PROVE  /\ Len(Put(a, p, d)) = Len(a)
           /\ \A k \in 1 .. Len(a) :
                 Put(a, p, d)[k] = IF k > p /\ k <= p + Len(d) THEN d[k - p] ELSE a[k]
<1>1. CASE d = <<>>
  <2>1. Len(d) = 0 /\ Put(a, p, d) = a
    BY <1>1 DEF Put
  <2> QED  BY <2>1
<1>2. CASE d # <<>>
  <2> DEFINE n == IF Len(a) > p + Len(d) THEN Len(a) ELSE p + Len(d)
             e == [k \in 1 .. n |-> IF k > p /\ k <= p + Len(d) THEN d[k - p]
                                    ELSE IF k <= Len(a) THEN a[k] ELSE 0]
  <2>1. Put(a, p, d) = e
    BY <1>2 DEF Put
  <2>2. n = Len(a)
    OBVIOUS
  <2> HIDE DEF n
  <2>3. Len(e) = Len(a)
    BY <2>2
  <2>4. \A k \in 1 .. Len(a) : e[k] = IF k > p /\ k <= p + Len(d) THEN d[k - p] ELSE a[k]
    BY <2>2
  <2> QED  BY <2>1, <2>3, <2>4
<1> QED  BY <1>1, <1>2

\* The places are in the archive.
LEMMA PlaceWithin ==
    ASSUME job \in DOMAIN Jobs, NEW b \in Seq(Int), Separate(Script, b), NEW l \in AllLogs(Script)
    PROVE  /\ l \in DOMAIN Script /\ Script[l].op = "log"
           /\ From(Script, b, l) \in Nat /\ Long(Script, b, l) \in Nat
           /\ From(Script, b, l) + Long(Script, b, l) <= Len(b)
<1>1. l \in DOMAIN Script /\ Script[l].op = "log"
  BY ScriptLength DEF AllLogs, Logs
<1>2. Found(Script, b, l) \in Machine /\ Script[l].var \in Var /\ Script[l].size \in Var
  BY <1>1, Along, AlikeSelf, ScriptType
<1>3. From(Script, b, l) \in Int /\ Long(Script, b, l) \in Int
  BY <1>2 DEF From, Long, Machine
<1>4. /\ From(Script, b, l) >= 0 /\ Long(Script, b, l) >= 0
      /\ From(Script, b, l) + Long(Script, b, l) <= Len(b)
  BY <1>1 DEF Separate
<1> QED  BY <1>1, <1>3, <1>4

LEMMA CellsPut ==
    ASSUME job \in DOMAIN Jobs, NEW b \in Seq(Int), Separate(Script, b), NEW fo, NEW v,
           NEW a \in Seq(Int), NEW p \in AllLogs(Script), Cells(Script, b, fo, v, a, p),
           NEW d \in Seq(Int), Len(d) = Long(Script, b, p),
           \A i \in 1 .. Len(d) : d[i] = Wants(Script, b, fo, v, p, i)
    PROVE  Cells(Script, b, fo, v, Put(a, From(Script, b, p), d), p + 1)
<1> DEFINE o(l) == From(Script, b, l)
           n(l) == Long(Script, b, l)
           W(l, i) == Wants(Script, b, fo, v, l, i)
           e == Put(a, o(p), d)
<1>1. \A l \in AllLogs(Script) : /\ l \in DOMAIN Script /\ Script[l].op = "log" /\ l \in Nat
                                 /\ o(l) \in Nat /\ n(l) \in Nat /\ o(l) + n(l) <= Len(b)
  BY PlaceWithin DEF AllLogs, Logs
<1>2. /\ Len(a) = Len(b)
      /\ \A i \in DOMAIN b : (\A l \in AllLogs(Script) : i \notin Place(Script, b, l)) => a[i] = b[i]
      /\ \A l \in AllLogs(Script) : \A i \in 1 .. n(l) :
            a[o(l) + i] = W(l, i) \/ (l >= p /\ a[o(l) + i] = b[o(l) + i])
  BY DEF Cells
<1>3. \A l \in AllLogs(Script) : l # p => Place(Script, b, l) \cap Place(Script, b, p) = {}
  BY <1>1 DEF Separate
<1>4. \A l \in AllLogs(Script) : Place(Script, b, l) = o(l) + 1 .. o(l) + n(l)
  BY DEF Place
<1> HIDE DEF o, n, W
<1>5. /\ Len(e) = Len(a)
      /\ \A k \in 1 .. Len(a) : e[k] = IF k > o(p) /\ k <= o(p) + n(p) THEN d[k - o(p)] ELSE a[k]
  <2>1. o(p) \in Nat /\ o(p) + Len(d) <= Len(a) /\ Len(d) = n(p)
    BY <1>1, <1>2 DEF n
  <2>2. /\ Len(Put(a, o(p), d)) = Len(a)
        /\ \A k \in 1 .. Len(a) : Put(a, o(p), d)[k] =
              IF k > o(p) /\ k <= o(p) + Len(d) THEN d[k - o(p)] ELSE a[k]
    BY <2>1, PutWithin
  <2> QED  BY <2>1, <2>2
<1> HIDE DEF e
<1>6. ASSUME NEW i \in DOMAIN b, \A l \in AllLogs(Script) : i \notin Place(Script, b, l)
      PROVE  e[i] = b[i]
  <2>1. i \in 1 .. Len(a) /\ ~(i > o(p) /\ i <= o(p) + n(p))
    BY <1>1, <1>2, <1>4, <1>6
  <2> QED  BY <1>2, <1>5, <1>6, <2>1
<1>7. ASSUME NEW l \in AllLogs(Script), NEW i \in 1 .. n(l)
      PROVE  e[o(l) + i] = W(l, i) \/ (l >= p + 1 /\ e[o(l) + i] = b[o(l) + i])
  <2>1. o(l) + i \in 1 .. Len(a) /\ o(l) + i \in o(l) + 1 .. o(l) + n(l)
    <3>1. o(l) \in Nat /\ n(l) \in Nat /\ Len(a) \in Nat /\ o(l) + n(l) <= Len(a)
      BY <1>1, <1>2
    <3>2. Inside(i, o(l), n(l), Len(a))
      BY <3>1, InRange, Zenon
    <3> QED  BY <3>2, Zenon DEF Inside
  <2>2. CASE l = p
    <3>1. o(p) + i > o(p) /\ o(p) + i <= o(p) + n(p) /\ (o(p) + i) - o(p) = i
      <4>1. o(p) \in Nat /\ n(p) \in Nat /\ Len(a) \in Nat /\ o(p) + n(p) <= Len(a) /\ i \in 1 .. n(p)
        BY <1>1, <1>2, <2>2
      <4>2. Inside(i, o(p), n(p), Len(a))
        BY <4>1, InRange, Zenon
      <4> QED  BY <4>2, Zenon DEF Inside
    <3>2. e[o(p) + i] = d[i]
      BY <1>5, <2>1, <2>2, <3>1
    <3>3. i \in 1 .. Len(d) /\ d[i] = W(p, i)
      BY <2>2 DEF n, W
    <3> QED  BY <2>2, <3>2, <3>3
  <2>3. CASE l # p
    <3>1. o(l) + i \notin o(p) + 1 .. o(p) + n(p)
      BY <1>3, <1>4, <2>1, <2>3
    <3>2. ~(o(l) + i > o(p) /\ o(l) + i <= o(p) + n(p))
      BY <1>1, <2>1, <3>1
    <3>3. e[o(l) + i] = a[o(l) + i]
      BY <1>5, <2>1, <3>2
    <3>4. l >= p => l >= p + 1
      <4>1. l \in Nat /\ p \in Nat
        BY <1>1
      <4> QED  BY <2>3, <4>1
    <3> QED  BY <1>2, <3>3, <3>4
  <2> QED  BY <2>2, <2>3
<1> QED  BY <1>2, <1>5, <1>6, <1>7 DEF Cells, e, o, n, W

\* What Get reads is in no place.
LEMMA CellsAlike ==
    ASSUME job \in DOMAIN Jobs, NEW b \in Seq(Int), Separate(Script, b), NEW fo, NEW v,
           NEW a \in Seq(Int), NEW p, Cells(Script, b, fo, v, a, p)
    PROVE  Alike(Script, a, b)
<1>1. ASSUME NEW l \in DOMAIN Script, Script[l].op = "get"
      PROVE  a[At(Found(Script, b, l), Script[l]) + 1] = b[At(Found(Script, b, l), Script[l]) + 1]
  <2> DEFINE x == At(Found(Script, b, l), Script[l])
  <2>1. x \in 0 .. Len(b) - 1
    BY <1>1, Along, AlikeSelf DEF Fails
  <2>2. \A k \in AllLogs(Script) : x + 1 \notin Place(Script, b, k)
    BY <1>1, PlaceWithin DEF Separate
  <2> HIDE DEF x
  <2>3. x + 1 \in DOMAIN b
    BY <2>1
  <2>4. a[x + 1] = b[x + 1]
    BY <2>2, <2>3 DEF Cells
  <2> QED  BY <2>4 DEF x
<1> QED  BY <1>1 DEF Alike, Cells

\* A sequence is its cells.
Cut(c, a, o, n) == c \in Seq(Int) /\ Len(c) = n /\ \A i \in 1 .. n : c[i] = a[o + i]

LEMMA SubSeqCells ==
    ASSUME NEW a \in Seq(Int), NEW o \in Nat, NEW n \in Nat, o + n <= Len(a)
    PROVE  Cut(SubSeq(a, o + 1, o + n), a, o, n)
<1>1. PICK p \in Nat, q \in Nat : p = o + 1 /\ q = o + n
  OBVIOUS
<1> DEFINE c == SubSeq(a, p, q)
<1>2. p >= 1 /\ p <= q + 1 /\ q <= Len(a) /\ q + 1 - p = n
  BY <1>1
<1>3. c \in Seq(Int) /\ Len(c) = q + 1 - p
  BY <1>2
<1>4. \A i \in 1 .. q + 1 - p : c[i] = a[p + i - 1]
  BY <1>2
<1>5. ASSUME NEW i \in 1 .. n PROVE p + i - 1 = o + i
  BY <1>1
<1> HIDE DEF c
<1>6. \A i \in 1 .. n : c[i] = a[o + i]
  BY <1>2, <1>4, <1>5
<1>7. Cut(c, a, o, n)
  BY <1>2, <1>3, <1>6 DEF Cut
<1> QED  BY <1>1, <1>7 DEF c

LEMMA SameCells ==
    ASSUME NEW c \in Seq(Int), NEW d \in Seq(Int), Len(c) = Len(d), \A i \in 1 .. Len(c) : c[i] = d[i]
    PROVE  c = d
<1>1. /\ Len(c) \in Nat /\ DOMAIN c = 1 .. Len(c) /\ DOMAIN d = 1 .. Len(c)
      /\ c = [i \in DOMAIN c |-> c[i]] /\ d = [i \in DOMAIN d |-> d[i]]
  OBVIOUS
<1> QED  BY <1>1, Zenon

LEMMA FilledUp ==
    ASSUME NEW d \in Seq(Int), NEW n \in Nat, Len(d) <= n
    PROVE  /\ d \o Fill(n - Len(d), 0) \in Seq(Int) /\ Len(d \o Fill(n - Len(d), 0)) = n
           /\ \A i \in 1 .. n : (d \o Fill(n - Len(d), 0))[i] = IF i <= Len(d) THEN d[i] ELSE 0
<1> DEFINE z == Fill(n - Len(d), 0)
<1>1. z \in Seq(Int) /\ Len(z) = n - Len(d) /\ \A i \in 1 .. n - Len(d) : z[i] = 0
  <2>1. PICK k \in Nat : k = n - Len(d)
    OBVIOUS
  <2>2. Fill(k, 0) \in Seq(Int) /\ Len(Fill(k, 0)) = k
    <3>1. k \in Int /\ 0 \in Int /\ k >= 0
      OBVIOUS
    <3> QED  BY <3>1, FillType
  <2>3. \A i \in 1 .. n - Len(d) : z[i] = 0
    BY DEF Fill
  <2> QED  BY <2>1, <2>2, <2>3
<1> HIDE DEF z
<1>2. d \o z \in Seq(Int) /\ Len(d \o z) = n
  BY <1>1
<1>3. ASSUME NEW i \in 1 .. n PROVE (d \o z)[i] = IF i <= Len(d) THEN d[i] ELSE 0
  <2>1. CASE i <= Len(d)
    BY <1>1, <2>1
  <2>2. CASE ~(i <= Len(d))
    <3>1. i - Len(d) \in 1 .. n - Len(d)
      BY <2>2
    <3>2. (d \o z)[i] = z[i - Len(d)]
      BY <1>1, <2>2
    <3> QED  BY <1>1, <2>2, <3>1, <3>2
  <2> QED  BY <2>1, <2>2
<1> QED  BY <1>2, <1>3 DEF z

\* The file of a Log in the archive.
Holds(s, b, fo, v, a, p, l, f) ==
    /\ Len(Files(b)[f]) = Long(s, b, l)
    /\ ~Takes(s, b, fo, v, l) => Files(a)[f] = Files(b)[f]
    /\ Takes(s, b, fo, v, l) /\ ~(l >= p) =>
          Files(a)[f] = fo[f] \o Fill(Long(s, b, l) - Len(fo[f]), 0)

LEMMA CellsFiles ==
    ASSUME job \in DOMAIN Jobs, NEW b \in Seq(Int), Separate(Script, b),
           NEW fo, fo \in [DOMAIN fo -> Seq(Int)], NEW v,
           NEW a \in Seq(Int), NEW p, Cells(Script, b, fo, v, a, p), NEW l \in AllLogs(Script)
    PROVE  Holds(Script, b, fo, v, a, p, l, Script[l].name)
<1> DEFINE f == Script[l].name
           o == From(Script, b, l)
           n == Long(Script, b, l)
           W(i) == Wants(Script, b, fo, v, l, i)
           T == Takes(Script, b, fo, v, l)
<1>1. /\ o \in Nat /\ n \in Nat /\ o + n <= Len(b) /\ Len(a) = Len(b)
      /\ \A i \in 1 .. n : a[o + i] = W(i) \/ (l >= p /\ a[o + i] = b[o + i])
  BY PlaceWithin DEF Cells
<1>2. Files(a)[f] = SubSeq(a, o + 1, o + n) /\ Files(b)[f] = SubSeq(b, o + 1, o + n)
  BY AlikeSelf, CellsAlike, ExtractedFiles DEF Extracted, AllLogs
<1>3. \A i \in 1 .. n : W(i) = IF ~T THEN b[o + i] ELSE IF i <= Len(fo[f]) THEN fo[f][i] ELSE 0
  BY DEF Wants
<1>4. T => fo[f] \in Seq(Int) /\ Len(fo[f]) <= n
  BY DEF Takes
<1> HIDE DEF f, o, n, W, T
<1>5. Cut(Files(a)[f], a, o, n) /\ Cut(Files(b)[f], b, o, n)
  <2>1. Cut(SubSeq(a, o + 1, o + n), a, o, n) /\ Cut(SubSeq(b, o + 1, o + n), b, o, n)
    BY <1>1, SubSeqCells
  <2> QED  BY <1>2, <2>1
<1>7. ASSUME ~T PROVE Files(a)[f] = Files(b)[f]
  <2>1. \A i \in 1 .. n : a[o + i] = b[o + i]
    BY <1>1, <1>3, <1>7
  <2> DEFINE fa == Files(a)[f]  fb == Files(b)[f]
  <2> HIDE DEF f, fa, fb
  <2>2. /\ fa \in Seq(Int) /\ fb \in Seq(Int) /\ Len(fa) = Len(fb)
        /\ \A i \in 1 .. Len(fa) : fa[i] = fb[i]
    BY <1>5, <2>1 DEF Cut, fa, fb
  <2>3. fa = fb
    BY <2>2, SameCells
  <2> QED  BY <2>3 DEF fa, fb
<1>8. ASSUME T, ~(l >= p) PROVE Files(a)[f] = fo[f] \o Fill(n - Len(fo[f]), 0)
  <2> DEFINE g == fo[f] \o Fill(n - Len(fo[f]), 0)
  <2>1. g \in Seq(Int) /\ Len(g) = n /\ \A i \in 1 .. n : g[i] = IF i <= Len(fo[f]) THEN fo[f][i] ELSE 0
    BY <1>1, <1>4, <1>8, FilledUp
  <2>2. \A i \in 1 .. n : a[o + i] = IF i <= Len(fo[f]) THEN fo[f][i] ELSE 0
    BY <1>1, <1>3, <1>8
  <2> HIDE DEF g
  <2> DEFINE h == Files(a)[f]
  <2> HIDE DEF f, h
  <2>3. h \in Seq(Int) /\ Len(h) = n /\ \A i \in 1 .. Len(h) : h[i] = g[i]
    BY <1>5, <2>1, <2>2 DEF Cut, h
  <2>4. h = g
    BY <2>1, <2>3, SameCells
  <2> QED  BY <2>4 DEF g, h
<1>9. Len(Files(b)[f]) = n
  BY <1>5 DEF Cut
<1> QED  BY <1>7, <1>8, <1>9 DEF f, n, T, Holds

-----------------------------------------------------------------------------
(* The steps of a run in place *)

\* What is known of a run in place before a step.
Steady(b) ==
    /\ Inv /\ MODE = 1 /\ job \in DOMAIN Jobs /\ b \in Seq(Int) /\ Separate(Script, b)
    /\ "force" \notin Answers /\ "retry" \notin Answers /\ Begun(b)

\* What a step leaves of it.
Kept(b) ==
    /\ Cells(Script, b, folder', VoidDump, archive', pc')
    /\ Follow(Script, b, folder', pc', step', m', log')
    /\ first' = first

LEMMA SteadyFacts ==
    ASSUME NEW b, Steady(b)
    PROVE  /\ TypeInv /\ LogInv /\ job \in DOMAIN Jobs /\ MODE = 1 /\ pc \in Nat
           /\ b \in Seq(Int) /\ Separate(Script, b) /\ archive \in Seq(Int)
           /\ Cells(Script, b, folder, VoidDump, archive, pc)
           /\ Follow(Script, b, folder, pc, step, m, log)
           /\ Alike(Script, archive, b) /\ m \in Machine
           /\ Len(Script) \in Nat /\ DOMAIN Script = 1 .. Len(Script)
<1>1. /\ TypeInv /\ LogInv /\ job \in DOMAIN Jobs /\ MODE = 1 /\ pc \in Nat
      /\ b \in Seq(Int) /\ Separate(Script, b) /\ archive \in Seq(Int) /\ m \in Machine
      /\ Cells(Script, b, folder, VoidDump, archive, pc)
      /\ Follow(Script, b, folder, pc, step, m, log)
  BY DEF Steady, Inv, TypeInv, Begun
<1>2. Alike(Script, archive, b)
  BY <1>1, CellsAlike
<1> QED  BY <1>1, <1>2, ScriptLength

LEMMA ExitKeeps ==
    ASSUME NEW b, Steady(b), step' = "exit", UNCHANGED <<archive, folder, pc, first>>
    PROVE  Kept(b)
<1>1. Follow(Script, b, folder', pc', step', m', log')
  BY SteadyFacts DEF Follow
<1> QED  BY <1>1, SteadyFacts DEF Kept

LEMMA CommandKeeps ==
    ASSUME NEW b, Steady(b), Get \/ Math \/ SavePos \/ GoTo
    PROVE  Kept(b)
<1>1. UNCHANGED <<archive, folder, first>>
  BY DEF Get, Math, SavePos, GoTo, Do, Exit
<1>2. \/ step' = "exit" /\ pc' = pc
      \/ m' = Exec(archive, m, Cmd) /\ pc' = pc + 1 /\ step' = "next"
  BY DEF Get, Math, SavePos, GoTo, Do, Exit, Now
<1>3. pc \in DOMAIN Script /\ Cmd = Script[pc] /\ Cmd.op # "log" /\ step = "next"
  <2>1. TypeInv
    BY SteadyFacts
  <2>2. Now("get") \/ Now("math") \/ Now("savepos") \/ Now("goto")
    BY DEF Get, Math, SavePos, GoTo
  <2>3. "get" # "log" /\ "math" # "log" /\ "savepos" # "log" /\ "goto" # "log"
    OBVIOUS
  <2> QED  BY <2>1, <2>2, <2>3, NowCommand
<1>4. CASE step' = "exit" /\ pc' = pc
  BY <1>1, <1>4, ExitKeeps
<1>5. CASE m' = Exec(archive, m, Cmd) /\ pc' = pc + 1 /\ step' = "next"
  <2>1. pc \notin AllLogs(Script)
    BY <1>3 DEF AllLogs, Logs
  <2>2. Cells(Script, b, folder', VoidDump, archive', pc')
    <3>1. Cells(Script, b, folder, VoidDump, archive, pc + 1)
      BY <2>1, CellsNext, SteadyFacts
    <3> QED  BY <1>1, <1>5, <3>1
  <2>3. m = Outcome(Script, b, pc - 1).s
    BY <1>3, SteadyFacts DEF Follow
  <2>4. Outcome(Script, b, pc).s = Exec(archive, Found(Script, b, pc), Script[pc])
        /\ Found(Script, b, pc) = Outcome(Script, b, pc - 1).s
    BY <1>3, Along, SteadyFacts
  <2>5. m' = Outcome(Script, b, pc).s
    BY <1>3, <1>5, <2>3, <2>4
  <2>6. pc' - 1 = pc /\ pc' \in 1 .. Len(Script) + 1
    BY <1>3, <1>5, SteadyFacts
  <2>7. m' = Outcome(Script, b, pc' - 1).s
    BY <2>5, <2>6
  <2>8. Follow(Script, b, folder', pc', step', m', log')
    BY <1>5, <2>6, <2>7 DEF Follow
  <2> QED  BY <1>1, <2>2, <2>8 DEF Kept
<1> QED  BY <1>2, <1>4, <1>5

LEMMA PosBack ==
    ASSUME NEW s \in Machine, NEW t \in Machine, s.val = t.val
    PROVE  [s EXCEPT !.pos = t.pos] = t
  BY DEF Machine

\* A Log is left where it began.
LEMMA LeaveKeeps ==
    ASSUME NEW b, Steady(b), pc \in AllLogs(Script), NEW p, Leave(p), p = Found(Script, b, pc).pos,
           m.val = Found(Script, b, pc).val, folder' = folder, first' = first,
           Cells(Script, b, folder, VoidDump, archive', pc + 1)
    PROVE  Kept(b)
<1>1. m' = [m EXCEPT !.pos = p] /\ pc' = pc + 1 /\ step' = "next"
  BY DEF Leave
<1>2. pc \in DOMAIN Script /\ Script[pc].op = "log"
  BY SteadyFacts DEF AllLogs, Logs
<1>3. /\ Found(Script, b, pc) \in Machine
      /\ Outcome(Script, b, pc).s = Found(Script, b, pc)
  BY <1>2, Along, SteadyFacts
<1>4. m' = Outcome(Script, b, pc).s
  BY <1>1, <1>3, PosBack, SteadyFacts
<1>5. pc' - 1 = pc /\ pc' \in 1 .. Len(Script) + 1
  BY <1>1, <1>2, SteadyFacts
<1>6. m' = Outcome(Script, b, pc' - 1).s
  BY <1>4, <1>5
<1>7. Follow(Script, b, folder', pc', step', m', log')
  BY <1>1, <1>5, <1>6 DEF Follow
<1>8. Cells(Script, b, folder', VoidDump, archive', pc')
  BY <1>1
<1> QED  BY <1>7, <1>8 DEF Kept

LEMMA LogKeeps ==
    ASSUME NEW b, Steady(b), Log
    PROVE  Kept(b)
<1> DEFINE n == Cmd.name
           o == m.val[Cmd.var]
           z == m.val[Cmd.size]
<1>1. Now("log") /\ UNCHANGED <<archive, folder, first>>
  BY DEF Log
<1>2. pc \in DOMAIN Script /\ Cmd = Script[pc] /\ Cmd.op = "log" /\ step = "next"
  BY <1>1, NowCommand, SteadyFacts
<1>3. \/ n \notin DOMAIN folder /\ Leave(m.pos)
      \/ n \in DOMAIN folder /\ Opened(n, m.pos, o, z, m.pos) /\ pc' = pc
      \/ step' = "exit" /\ pc' = pc
  BY DEF Log
<1>4. pc \in AllLogs(Script)
  BY <1>2, SteadyFacts DEF AllLogs, Logs
<1>5. m = Found(Script, b, pc)
  BY <1>2, SteadyFacts DEF Follow, Found
<1>6. CASE n \notin DOMAIN folder /\ Leave(m.pos)
  <2>1. ~Takes(Script, b, folder, VoidDump, pc)
    BY <1>2, <1>6 DEF Takes
  <2>2. Cells(Script, b, folder, VoidDump, archive, pc + 1)
    BY <2>1, CellsLeft, SteadyFacts
  <2>3. Cells(Script, b, folder, VoidDump, archive', pc + 1)
    BY <1>1, <2>2
  <2> QED  BY <1>1, <1>4, <1>5, <1>6, <2>3, LeaveKeeps
<1>7. CASE n \in DOMAIN folder /\ Opened(n, m.pos, o, z, m.pos) /\ pc' = pc
  <2>1. /\ log' = [name |-> n, oldoff |-> m.pos, offset |-> o, old |-> z,
                   data |-> folder'[n], from |-> m.pos, tmpoff |-> 0, forced |-> FALSE]
        /\ m' = [m EXCEPT !.pos = o] /\ step' = "fit"
    BY <1>7 DEF Opened
  <2>2. m'.val = m.val
    <3>1. m = [pos |-> m.pos, val |-> m.val]
      BY SteadyFacts DEF Machine
    <3> QED  BY <2>1, <3>1
  <2>3. /\ log'.offset = o /\ log'.old = z /\ log'.oldoff = m.pos
        /\ log'.data = folder'[n] /\ ~log'.forced
    BY <2>1
  <2>4. o = From(Script, b, pc) /\ z = Long(Script, b, pc)
    BY <1>2, <1>5 DEF From, Long
  <2>5. pc \in 1 .. Len(Script) + 1
    BY SteadyFacts DEF Follow
  <2>6. Follow(Script, b, folder', pc', step', m', log')
    <3> HIDE DEF o, z
    <3> QED  BY <1>1, <1>2, <1>4, <1>5, <1>7, <2>1, <2>2, <2>3, <2>4, <2>5 DEF Follow
  <2>7. Cells(Script, b, folder', VoidDump, archive', pc')
    BY <1>1, <1>7, SteadyFacts
  <2> QED  BY <1>1, <2>6, <2>7 DEF Kept
<1>8. CASE step' = "exit" /\ pc' = pc
  BY <1>1, <1>8, ExitKeeps
<1> QED  BY <1>3, <1>6, <1>7, <1>8

\* Where a Log is when the file has been read.
LEMMA FitFacts ==
    ASSUME NEW b, Steady(b), step = "fit"
    PROVE  /\ pc \in AllLogs(Script) /\ pc \in Nat /\ m.val = Found(Script, b, pc).val
           /\ log.offset = From(Script, b, pc) /\ log.old = Long(Script, b, pc)
           /\ log.oldoff = Found(Script, b, pc).pos /\ ~log.forced
           /\ Script[pc].name \in DOMAIN folder /\ log.data = folder[Script[pc].name]
           /\ m.pos = From(Script, b, pc) /\ log.data \in Seq(Int)
           /\ log.offset \in Nat /\ log.old \in Nat
<1>1. /\ pc \in AllLogs(Script) /\ m.val = Found(Script, b, pc).val
      /\ log.offset = From(Script, b, pc) /\ log.old = Long(Script, b, pc)
      /\ log.oldoff = Found(Script, b, pc).pos /\ ~log.forced
      /\ Script[pc].name \in DOMAIN folder /\ log.data = folder[Script[pc].name]
  BY SteadyFacts DEF Follow
<1>2. m.pos = log.offset /\ log.data \in Seq(Int)
  BY SteadyFacts DEF LogInv
<1>3. From(Script, b, pc) \in Nat /\ Long(Script, b, pc) \in Nat
  BY <1>1, PlaceWithin, SteadyFacts
<1> QED  BY <1>1, <1>2, <1>3, SteadyFacts

LEMMA AskKeeps ==
    ASSUME NEW b, Steady(b), Ask
    PROVE  Kept(b)
<1>1. step = "fit" /\ Size > log.old
  BY DEF Ask
<1>2. Skip \/ Exit
  BY DEF Ask, Steady
<1>3. CASE Skip
  <2>1. Leave(log.oldoff) /\ UNCHANGED <<archive, folder, first>>
    BY <1>3 DEF Skip
  <2>2. ~Takes(Script, b, folder, VoidDump, pc)
    <3>1. Len(folder[Script[pc].name]) = Size /\ Size \in Nat
      BY <1>1, FitFacts DEF Size
    <3>2. log.old = Long(Script, b, pc) /\ log.old \in Nat
      BY <1>1, FitFacts
    <3> QED  BY <1>1, <3>1, <3>2 DEF Takes
  <2>3. Cells(Script, b, folder, VoidDump, archive, pc + 1)
    BY <2>2, CellsLeft, SteadyFacts
  <2>4. Cells(Script, b, folder, VoidDump, archive', pc + 1)
    BY <2>1, <2>3
  <2> QED  BY <1>1, <2>1, <2>4, FitFacts, LeaveKeeps
<1>4. CASE Exit
  BY <1>4, ExitKeeps DEF Exit
<1> QED  BY <1>2, <1>3, <1>4

LEMMA WriteKeeps ==
    ASSUME NEW b, Steady(b), WriteHere
    PROVE  Kept(b)
<1>1. step = "fit" /\ Write(Padded)
  BY DEF WriteHere
<1>2. Size <= log.old
  BY <1>1, FitFacts DEF WriteHere
<1>3. /\ archive' = IF VoidDump THEN archive ELSE Put(archive, m.pos, Padded)
      /\ Leave(log.oldoff) /\ UNCHANGED <<folder, first>>
  BY <1>1, SteadyFacts DEF Write
<1>4. Cells(Script, b, folder, VoidDump, archive', pc + 1)
  <2>1. CASE VoidDump
    <3>1. ~Takes(Script, b, folder, VoidDump, pc)
      BY <2>1 DEF Takes
    <3>2. Cells(Script, b, folder, VoidDump, archive, pc + 1)
      BY <3>1, CellsLeft, SteadyFacts
    <3> QED  BY <1>3, <2>1, <3>2
  <2>2. CASE ~VoidDump
    <3> DEFINE g == folder[Script[pc].name]
               n == Long(Script, b, pc)
    <3>1. g \in Seq(Int) /\ n \in Nat /\ Len(g) <= n /\ Padded = g \o Fill(n - Len(g), 0)
      BY <1>1, <1>2, FitFacts DEF Padded, Size
    <3>2. Takes(Script, b, folder, VoidDump, pc)
      BY <1>1, <2>2, <3>1, FitFacts DEF Takes
    <3>3. \A i \in 1 .. n : Wants(Script, b, folder, VoidDump, pc, i) = IF i <= Len(g) THEN g[i] ELSE 0
      BY <3>2 DEF Wants
    <3> HIDE DEF g, n
    <3>4. /\ Padded \in Seq(Int) /\ Len(Padded) = n
          /\ \A i \in 1 .. n : Padded[i] = IF i <= Len(g) THEN g[i] ELSE 0
      BY <3>1, FilledUp
    <3>5. \A i \in 1 .. Len(Padded) : Padded[i] = Wants(Script, b, folder, VoidDump, pc, i)
      BY <3>3, <3>4
    <3>6. Cells(Script, b, folder, VoidDump, Put(archive, From(Script, b, pc), Padded), pc + 1)
      BY <1>1, <3>4, <3>5, CellsPut, FitFacts, SteadyFacts DEF n
    <3> QED  BY <1>1, <1>3, <2>2, <3>6, FitFacts
  <2> QED  BY <2>1, <2>2
<1> QED  BY <1>1, <1>3, <1>4, FitFacts, LeaveKeeps

LEMMA AgainKeeps ==
    ASSUME NEW b, Steady(b), Again
    PROVE  Kept(b)
<1>1. m' = Fresh /\ pc' = 1 /\ step' = "next" /\ UNCHANGED <<archive, folder, first>>
  BY DEF Again
<1>2. Cells(Script, b, folder', VoidDump, archive', pc')
  BY <1>1, CellsAgain, SteadyFacts
<1>3. m' = Outcome(Script, b, 0).s
  BY <1>1, OutcomeSteps DEF Blank
<1>4. pc' - 1 = 0 /\ pc' \in 1 .. Len(Script) + 1
  BY <1>1, SteadyFacts
<1>5. Follow(Script, b, folder', pc', step', m', log')
  BY <1>1, <1>3, <1>4 DEF Follow
<1> QED  BY <1>1, <1>2, <1>5 DEF Kept

LEMMA StepKeeps ==
    ASSUME NEW b, Steady(b), [Next]_vars
    PROVE  Kept(b)
<1>1. step \in {"next", "fit", "exit"} /\ MODE = 1
  BY SteadyFacts DEF Follow
<1>2. CASE UNCHANGED vars
  BY <1>2, SteadyFacts DEF vars, Kept
<1>3. CASE Next
  <2>1. \/ Get \/ Math \/ SavePos \/ GoTo \/ Log \/ Ask \/ WriteHere \/ Again
        \/ UNCHANGED vars
        \/ Clear \/ AppendSpace \/ WriteOffset \/ WriteData \/ WriteSize
        \/ StartShift \/ MoveChunk \/ EndShift
    BY <1>3 DEF Next, Commands, InLog, Terminated
  <2>2. /\ ~Clear /\ ~AppendSpace /\ ~WriteOffset /\ ~WriteData /\ ~WriteSize
        /\ ~StartShift /\ ~MoveChunk /\ ~EndShift
    BY <1>1 DEF Clear, AppendSpace, WriteOffset, WriteData, WriteSize, StartShift, Shifts, MoveChunk,
                EndShift
  <2> QED
    BY <1>2, <2>1, <2>2, CommandKeeps, LogKeeps, AskKeeps, WriteKeeps, AgainKeeps
<1> QED  BY <1>2, <1>3

\* A script that runs in place.
LEMMA InPlaceFacts ==
    ASSUME InPlace, job \in DOMAIN Jobs, NEW b \in Jobs[job].archives
    PROVE  /\ MODE = 1 /\ "force" \notin Answers /\ "retry" \notin Answers
           /\ b \in Seq(Int) /\ Separate(Script, b)
<1>1. b \in Seq(Int)
  BY FilesAssumption
<1> QED  BY <1>1 DEF InPlace

LEMMA RunStep ==
    ASSUME Inv, RunInv, [Next]_vars
    PROVE  RunInv'
<1>1. job' = job /\ job \in DOMAIN Jobs
  BY DEF Next, Terminated, vars, Inv, TypeInv
<1>2. /\ Script' = Script /\ MODE' = MODE /\ Answers' = Answers /\ VoidDump' = VoidDump
      /\ Jobs[job'] = Jobs[job]
  BY <1>1 DEF Script, MODE, Answers, VoidDump
<1>3. InPlace' <=> InPlace
  BY <1>1, <1>2 DEF InPlace
<1>4. ASSUME InPlace PROVE \E b : Begun(b)'
  <2>1. PICK b : Begun(b)
    BY <1>4 DEF RunInv
  <2>2. b \in Jobs[job].archives /\ first = Files(b)
    BY <2>1 DEF Begun
  <2>3. Steady(b)
    BY <1>1, <1>4, <2>1, <2>2, InPlaceFacts DEF Steady
  <2>4. Kept(b)
    BY <2>3, StepKeeps
  <2>5. first' = Outcome(Script', b, Len(Script')).out
    BY <1>2, <2>2, <2>4 DEF Kept, Files
  <2>6. Begun(b)'
    BY <1>1, <1>2, <2>2, <2>4, <2>5 DEF Kept, Begun, Files
  <2> QED  BY <2>6
<1> QED  BY <1>3, <1>4 DEF RunInv

LEMMA RunInit ==
    ASSUME Init
    PROVE  RunInv
<1> SUFFICES ASSUME InPlace PROVE \E b : Begun(b)
  BY DEF RunInv
<1>1. /\ job \in DOMAIN Jobs /\ archive \in Jobs[job].archives /\ first = Files(archive)
      /\ m = Fresh /\ pc = 1 /\ step = "next"
  BY DEF Init, Begin
<1>2. archive \in Seq(Int) /\ Separate(Script, archive)
  BY <1>1, InPlaceFacts
<1>3. Cells(Script, archive, folder, VoidDump, archive, pc)
  <2>1. \A l \in AllLogs(Script) : l >= 1
    BY DEF AllLogs, Logs
  <2> QED  BY <1>1, <2>1 DEF Cells
<1>4. m = Outcome(Script, archive, 0).s
  BY <1>1, OutcomeSteps DEF Blank
<1>5. pc - 1 = 0 /\ pc \in 1 .. Len(Script) + 1
  BY <1>1, ScriptLength
<1>6. Follow(Script, archive, folder, pc, step, m, log)
  BY <1>1, <1>4, <1>5 DEF Follow
<1> QED  BY <1>1, <1>3, <1>6 DEF Begun

\* What is in the archive at any time, and at the end of a run.
LEMMA RunFiles ==
    ASSUME Inv, RunInv, InPlace
    PROVE  Recovered /\ LeftOriginal
<1>1. PICK b : Begun(b)
  BY DEF RunInv
<1>2. b \in Jobs[job].archives /\ first = Files(b) /\ job \in DOMAIN Jobs
  BY <1>1 DEF Begun, Inv, TypeInv
<1>3. Steady(b)
  BY <1>1, <1>2, InPlaceFacts DEF Steady
<1>4. /\ b \in Seq(Int) /\ Separate(Script, b) /\ archive \in Seq(Int) /\ MODE = 1 /\ pc \in Nat
      /\ Cells(Script, b, folder, VoidDump, archive, pc)
      /\ folder \in [DOMAIN folder -> Seq(Int)] /\ Alike(Script, archive, b) /\ Len(Script) \in Nat
  <2>1. TypeInv
    BY <1>3, SteadyFacts
  <2>2. folder \in [DOMAIN folder -> Seq(Int)]
    BY <2>1 DEF TypeInv
  <2> QED  BY <1>3, <2>2, SteadyFacts
<1> DEFINE a == Files(archive)
           N(l) == Script[l].name
<1>5. /\ Extracted(Script, archive, b, Len(Script), a)
      /\ Extracted(Script, b, b, Len(Script), first)
  BY <1>2, <1>4, AlikeSelf, ExtractedFiles
<1>6. /\ a = [n \in DOMAIN a |-> a[n]]
      /\ DOMAIN a = {N(l) : l \in AllLogs(Script)} /\ DOMAIN first = {N(l) : l \in AllLogs(Script)}
  BY <1>5 DEF Extracted, AllLogs
<1>7. ASSUME NEW l \in AllLogs(Script)
      PROVE  /\ Len(first[N(l)]) = Long(Script, b, l)
             /\ ~Takes(Script, b, folder, VoidDump, l) => a[N(l)] = first[N(l)]
             /\ Takes(Script, b, folder, VoidDump, l) /\ ~(l >= pc) =>
                   a[N(l)] = folder[N(l)] \o Fill(Long(Script, b, l) - Len(folder[N(l)]), 0)
  <2>1. Holds(Script, b, folder, VoidDump, archive, pc, l, N(l))
    BY <1>2, <1>4, CellsFiles
  <2> HIDE DEF N
  <2> QED  BY <1>2, <2>1 DEF Holds
<1> HIDE DEF a
<1>8. LeftOriginal
  <2>1. ASSUME NEW n \in DOMAIN first, n \notin DOMAIN folder PROVE n \in DOMAIN a /\ a[n] = first[n]
    <3>1. PICK l \in AllLogs(Script) : n = N(l)
      BY <1>6
    <3>2. ~Takes(Script, b, folder, VoidDump, l)
      BY <2>1, <3>1 DEF Takes
    <3> QED  BY <1>6, <1>7, <3>1, <3>2
  <2> QED  BY <2>1 DEF LeftOriginal, a
<1>9. ASSUME Finished PROVE a = [n \in DOMAIN first |-> Wanted(n)]
  <2>1. ASSUME NEW n \in DOMAIN first PROVE a[n] = Wanted(n)
    <3>1. PICK l \in AllLogs(Script) : n = N(l)
      BY <1>6
    <3>2. ~(l >= pc)
      BY <1>4, <1>9 DEF Finished, AllLogs, Logs
    <3>3. Long(Script, b, l) = Len(first[n]) /\ Len(first[n]) \in Nat
      BY <1>2, <1>4, <1>7, <3>1, PlaceWithin
    <3>4. Takes(Script, b, folder, VoidDump, l) <=> ~(n \notin DOMAIN folder \/ Refused(n))
      <4>1. n \in DOMAIN folder => Len(folder[n]) \in Nat
        BY <1>4
      <4>2. Refused(n) <=> VoidDump \/ Len(folder[n]) > Len(first[n])
        BY <1>4 DEF Refused
      <4> QED  BY <3>1, <3>3, <4>1, <4>2 DEF Takes
    <3>5. CASE Takes(Script, b, folder, VoidDump, l)
      <4>1. a[n] = folder[n] \o Fill(Len(first[n]) - Len(folder[n]), 0)
        BY <1>7, <3>1, <3>2, <3>3, <3>5
      <4> QED  BY <1>4, <3>4, <3>5, <4>1 DEF Wanted
    <3>6. CASE ~Takes(Script, b, folder, VoidDump, l)
      <4>1. a[n] = first[n]
        BY <1>7, <3>1, <3>6
      <4> QED  BY <3>4, <3>6, <4>1 DEF Wanted
    <3> QED  BY <3>5, <3>6
  <2> QED  BY <1>6, <2>1
<1>10. Recovered
  BY <1>9 DEF Recovered, a
<1> QED  BY <1>8, <1>10

LEMMA RunAlways == Spec => [](InPlace => Recovered /\ LeftOriginal)
<1>1. Init => Inv /\ RunInv
  BY InitInv, RunInit
<1>2. Inv /\ RunInv /\ [Next]_vars => (Inv /\ RunInv)'
  BY NextStep, RunStep DEF Safe
<1>3. Inv /\ RunInv => (InPlace => Recovered /\ LeftOriginal)
  BY RunFiles
<1> QED  BY <1>1, <1>2, <1>3, PTL DEF Spec

\* readme.md:361-398: a run of the reinjector that gets to its end has put all files of
\* the folder back, but those that are longer, over any files that share no cells, and
\* whatever the runs before it have left half done.
THEOREM ReinjectorRecovers == Spec => [](InPlace => Recovered)
<1>1. (InPlace => Recovered /\ LeftOriginal) => (InPlace => Recovered)
  OBVIOUS
<1> QED  BY <1>1, RunAlways, PTL

\* bms.c:3097: a file that is not in the folder can be extracted as before at any time.
THEOREM ReinjectorLeavesOriginal == Spec => [](InPlace => LeftOriginal)
<1>1. (InPlace => Recovered /\ LeftOriginal) => (InPlace => LeftOriginal)
  OBVIOUS
<1> QED  BY <1>1, RunAlways, PTL

-----------------------------------------------------------------------------
(* The archive as a table of files (mode 1) *)

\* A Log has not written anything when it is about to write the file.
StartInv == MODE = 1 /\ step = "fit" => before = archive

LEMMA StartStep ==
    ASSUME ModeInv, StartInv, [Next]_vars
    PROVE  StartInv'
<1>1. job' = job
  BY DEF Next, Terminated, vars
<1>2. MODE' = MODE
  BY <1>1 DEF MODE
<1>3. CASE MODE # 1
  BY <1>2, <1>3 DEF StartInv
<1>4. CASE MODE = 1
  <2>1. step \in {"next", "fit", "exit"}
    BY <1>4 DEF ModeInv
  <2>2. CASE Get \/ Math \/ SavePos \/ GoTo
    BY <2>2 DEF Get, Math, SavePos, GoTo, Do, Exit, Now, StartInv
  <2>3. CASE Log
    BY <2>3 DEF Log, StartInv
  <2>4. CASE Ask
    BY <1>4, <2>4 DEF Ask, Skip, Leave, Exit, StartInv
  <2>5. CASE WriteHere
    BY <1>4, <2>5 DEF WriteHere, Write, Leave, StartInv
  <2>6. CASE Again
    BY <2>6 DEF Again, StartInv
  <2>7. CASE Terminated \/ UNCHANGED vars
    BY <1>2, <2>7 DEF Terminated, vars, StartInv
  <2>8. ~(\/ Clear \/ AppendSpace \/ WriteOffset \/ WriteData \/ WriteSize
          \/ StartShift \/ MoveChunk \/ EndShift)
    BY <1>4, <2>1 DEF Clear, AppendSpace, WriteOffset, WriteData, WriteSize, StartShift, Shifts,
                      MoveChunk, EndShift
  <2> QED  BY <2>2, <2>3, <2>4, <2>5, <2>6, <2>7, <2>8 DEF Next, Commands, InLog
<1> QED  BY <1>3, <1>4

\* What is put into a place is the file there, and no other file changes.
LEMMA FilesPut ==
    ASSUME job \in DOMAIN Jobs, NEW b \in Seq(Int), Separate(Script, b), NEW p \in AllLogs(Script),
           NEW a \in Seq(Int), Alike(Script, a, b), NEW d \in Seq(Int), Len(d) = Long(Script, b, p),
           NEW e \in Seq(Int), e = Put(a, From(Script, b, p), d), Alike(Script, e, b)
    PROVE  /\ Files(e) = [Files(a) EXCEPT ![Script[p].name] = d]
           /\ Script[p].name \in DOMAIN Files(a) /\ Len(Files(a)[Script[p].name]) = Len(d)
<1> DEFINE o(l) == From(Script, b, l)
           n(l) == Long(Script, b, l)
           N(l) == Script[l].name
           fa == Files(a)
           fe == Files(e)
<1>1. /\ Extracted(Script, a, b, Len(Script), fa) /\ Extracted(Script, e, b, Len(Script), fe)
  BY ExtractedFiles
<1>2. /\ fa = [f \in DOMAIN fa |-> fa[f]] /\ fe = [f \in DOMAIN fe |-> fe[f]]
      /\ DOMAIN fa = {N(l) : l \in AllLogs(Script)} /\ DOMAIN fe = {N(l) : l \in AllLogs(Script)}
      /\ \A l \in AllLogs(Script) : /\ fa[N(l)] = SubSeq(a, o(l) + 1, o(l) + n(l))
                                    /\ fe[N(l)] = SubSeq(e, o(l) + 1, o(l) + n(l))
  BY <1>1 DEF Extracted, AllLogs
<1>3. \A l \in AllLogs(Script) : /\ l \in DOMAIN Script /\ Script[l].op = "log" /\ l \in Nat
                                 /\ o(l) \in Nat /\ n(l) \in Nat /\ o(l) + n(l) <= Len(b)
  <2>1. ASSUME NEW l \in AllLogs(Script)
        PROVE  /\ l \in DOMAIN Script /\ Script[l].op = "log"
               /\ o(l) \in Nat /\ n(l) \in Nat /\ o(l) + n(l) <= Len(b)
    BY PlaceWithin
  <2>2. ASSUME NEW l \in AllLogs(Script) PROVE l \in Nat
    BY DEF AllLogs, Logs
  <2> HIDE DEF o, n
  <2> QED  BY <2>1, <2>2
<1>4. \A l \in AllLogs(Script) : l # p =>
         N(l) # N(p) /\ Place(Script, b, l) \cap Place(Script, b, p) = {}
  BY <1>3 DEF Separate
<1>5. \A l \in AllLogs(Script) : Place(Script, b, l) = o(l) + 1 .. o(l) + n(l)
  BY DEF Place
<1>6. Len(a) = Len(b) /\ Len(d) = n(p)
  BY DEF Alike
<1> HIDE DEF o, n, N, fa, fe
<1>7. PICK x \in Nat, y \in Nat : x = o(p) /\ y = n(p) /\ x + y <= Len(a) /\ Len(a) \in Nat
  BY <1>3, <1>6
<1>8. /\ Len(e) = Len(a)
      /\ \A k \in 1 .. Len(a) : e[k] = IF k > x /\ k <= x + y THEN d[k - x] ELSE a[k]
  <2>1. e = Put(a, x, d) /\ x + Len(d) <= Len(a) /\ Len(d) = y
    BY <1>6, <1>7 DEF o
  <2>2. /\ Len(Put(a, x, d)) = Len(a)
        /\ \A k \in 1 .. Len(a) :
              Put(a, x, d)[k] = IF k > x /\ k <= x + Len(d) THEN d[k - x] ELSE a[k]
    BY <2>1, PutWithin
  <2> QED  BY <2>1, <2>2
<1>9. fe[N(p)] = d
  <2> DEFINE g == SubSeq(e, x + 1, x + y)
  <2>1. Cut(g, e, x, y)
    BY <1>7, <1>8, SubSeqCells
  <2>2. ASSUME NEW i \in 1 .. y PROVE e[x + i] = d[i]
    <3>1. x + i \in 1 .. Len(a) /\ x + i > x /\ x + i <= x + y /\ (x + i) - x = i
      <4>1. Inside(i, x, y, Len(a))
        BY <1>7, InRange, Zenon
      <4> QED  BY <4>1, Zenon DEF Inside
    <3> QED  BY <1>8, <3>1
  <2> HIDE DEF g
  <2>3. g = d
    <3>1. /\ g \in Seq(Int) /\ Len(g) = Len(d) /\ \A i \in 1 .. Len(g) : g[i] = d[i]
      BY <1>6, <1>7, <2>1, <2>2 DEF Cut
    <3> QED  BY <3>1, SameCells
  <2> QED  BY <1>2, <1>7, <2>3 DEF g
<1>10. ASSUME NEW l \in AllLogs(Script), l # p PROVE fe[N(l)] = fa[N(l)]
  <2>1. PICK u \in Nat, w \in Nat :
            u = o(l) /\ w = n(l) /\ u + w <= Len(a) /\ Len(a) \in Nat
    BY <1>3, <1>6
  <2> DEFINE g == fe[N(l)]
             h == fa[N(l)]
  <2>2. Cut(g, e, u, w)
    <3>1. Cut(SubSeq(e, u + 1, u + w), e, u, w)
      BY <1>8, <2>1, SubSeqCells
    <3>2. g = SubSeq(e, u + 1, u + w)
      BY <1>2, <2>1, Zenon
    <3> QED  BY <3>1, <3>2, Zenon
  <2>3. Cut(h, a, u, w)
    <3>1. Cut(SubSeq(a, u + 1, u + w), a, u, w)
      BY <2>1, SubSeqCells
    <3>2. h = SubSeq(a, u + 1, u + w)
      BY <1>2, <2>1, Zenon
    <3> QED  BY <3>1, <3>2, Zenon
  <2>4. (u + 1 .. u + w) \cap (x + 1 .. x + y) = {}
    BY <1>4, <1>5, <1>7, <1>10, <2>1
  <2>5. ASSUME NEW i \in 1 .. w PROVE e[u + i] = a[u + i]
    <3>1. u + i \in 1 .. Len(a) /\ u + i \in u + 1 .. u + w
      <4>1. Inside(i, u, w, Len(a))
        BY <2>1, InRange, Zenon
      <4> QED  BY <4>1, Zenon DEF Inside
    <3>2. u + i \notin x + 1 .. x + y
      BY <2>4, <3>1, Zenon
    <3>3. ~(u + i > x /\ u + i <= x + y)
      BY <3>2
    <3> QED  BY <1>8, <3>1, <3>3
  <2> HIDE DEF g, h
  <2>6. g = h
    <3>1. /\ g \in Seq(Int) /\ h \in Seq(Int) /\ Len(g) = Len(h)
          /\ \A i \in 1 .. Len(g) : g[i] = h[i]
      BY <2>2, <2>3, <2>5 DEF Cut
    <3> QED  BY <3>1, SameCells
  <2> QED  BY <2>6 DEF g, h
<1>11. N(p) \in DOMAIN fa /\ DOMAIN fe = DOMAIN fa
  BY <1>2
<1>12. ASSUME NEW f \in DOMAIN fa PROVE fe[f] = [fa EXCEPT ![N(p)] = d][f]
  <2>1. PICK l \in AllLogs(Script) : f = N(l)
    BY <1>2
  <2>2. CASE l = p
    BY <1>9, <1>11, <2>1, <2>2
  <2>3. CASE l # p
    <3>1. f # N(p) /\ fe[f] = fa[f]
      BY <1>4, <1>10, <2>1, <2>3
    <3> QED  BY <3>1
  <2> QED  BY <2>2, <2>3
<1>13. fe = [fa EXCEPT ![N(p)] = d]
  <2> DEFINE g == [fa EXCEPT ![N(p)] = d]
  <2>1. DOMAIN g = DOMAIN fa /\ g = [f \in DOMAIN fa |-> g[f]]
    BY <1>2
  <2> HIDE DEF g
  <2>2. fe = [f \in DOMAIN fa |-> g[f]]
    BY <1>2, <1>11, <1>12 DEF g
  <2> QED  BY <2>1, <2>2 DEF g
<1>14. Len(fa[N(p)]) = Len(d)
  <2>1. Cut(SubSeq(a, x + 1, x + y), a, x, y)
    BY <1>7, SubSeqCells
  <2> QED  BY <1>2, <1>6, <1>7, <2>1 DEF Cut
<1> QED  BY <1>11, <1>13, <1>14 DEF fa, fe, N

\* A step puts one file back, or leaves the archive alone.
Reinjects ==
    LET n == Script[pc].name IN
    /\ n \in DOMAIN folder /\ n \in DOMAIN Files(archive)
    /\ Len(folder[n]) <= Len(Files(archive)[n])
    /\ Files(archive)' = [Files(archive) EXCEPT ![n] =
                             folder[n] \o Fill(Len(@) - Len(folder[n]), 0)]
    /\ step = "fit" /\ step' = "next"

LEMMA WriteReinjects ==
    ASSUME NEW b, Steady(b), WriteHere, job' = job
    PROVE  archive' = archive \/ Reinjects
<1>1. step = "fit" /\ Write(Padded) /\ step' = "next"
  BY SteadyFacts DEF WriteHere, Write, Leave
<1>2. Size <= log.old
  BY <1>1, FitFacts DEF WriteHere
<1>3. archive' = IF VoidDump THEN archive ELSE Put(archive, m.pos, Padded)
  BY <1>1 DEF Write
<1>4. CASE VoidDump
  BY <1>3, <1>4
<1>5. CASE ~VoidDump
  <2> DEFINE n == Script[pc].name
             e == Put(archive, From(Script, b, pc), Padded)
  <2>1. folder[n] \in Seq(Int) /\ Padded = folder[n] \o Fill(Long(Script, b, pc) - Len(folder[n]), 0)
        /\ Long(Script, b, pc) \in Nat /\ Len(folder[n]) <= Long(Script, b, pc) /\ n \in DOMAIN folder
    BY <1>1, <1>2, FitFacts DEF Padded, Size
  <2>2. Padded \in Seq(Int) /\ Len(Padded) = Long(Script, b, pc)
    <3> HIDE DEF n
    <3> QED  BY <2>1, FilledUp
  <2>3. archive' = e
    BY <1>1, <1>3, <1>5, FitFacts
  <2>4. e \in Seq(Int)
    BY <1>1, <2>2, FitFacts, PutWrites, SteadyFacts
  <2>5. Alike(Script, e, b)
    <3>1. Kept(b)
      BY WriteKeeps
    <3>2. Cells(Script, b, folder', VoidDump, e, pc')
      BY <2>3, <3>1 DEF Kept
    <3> QED  BY <2>4, <3>2, CellsAlike, SteadyFacts
  <2>6. pc \in AllLogs(Script)
    BY <1>1, FitFacts
  <2> HIDE DEF e
  <2>7. /\ Files(e) = [Files(archive) EXCEPT ![n] = Padded]
        /\ n \in DOMAIN Files(archive) /\ Len(Files(archive)[n]) = Len(Padded)
    BY <2>2, <2>4, <2>5, <2>6, FilesPut, SteadyFacts DEF e
  <2>8. Files(archive)' = Files(e)
    <3>1. Script' = Script
      BY JobStays
    <3> QED  BY <2>3, <3>1 DEF Files
  <2> HIDE DEF n
  <2>9. Files(archive)' = [Files(archive) EXCEPT ![n] =
                              folder[n] \o Fill(Len(@) - Len(folder[n]), 0)]
    BY <2>1, <2>2, <2>7, <2>8
  <2> QED  BY <1>1, <2>1, <2>2, <2>7, <2>9 DEF Reinjects, n
<1> QED  BY <1>4, <1>5

LEMMA OthersLeave ==
    ASSUME NEW b, Steady(b), [Next]_vars, ~WriteHere
    PROVE  archive' = archive
<1>1. step \in {"next", "fit", "exit"} /\ MODE = 1 /\ "retry" \notin Answers
  BY SteadyFacts DEF Follow, Steady
<1>2. ~(\/ Clear \/ AppendSpace \/ WriteOffset \/ WriteData \/ WriteSize
        \/ StartShift \/ MoveChunk \/ EndShift)
  BY <1>1 DEF Clear, AppendSpace, WriteOffset, WriteData, WriteSize, StartShift, Shifts,
              MoveChunk, EndShift
<1>3. \/ Get \/ Math \/ SavePos \/ GoTo \/ Log \/ Ask \/ Again \/ UNCHANGED vars
  BY <1>2 DEF Next, Commands, InLog, Terminated
<1> QED
  BY <1>1, <1>3 DEF Get, Math, SavePos, GoTo, Do, Exit, Log, Ask, Skip, Again, vars

\* The table of files, step by step.
LEMMA TableStep ==
    ASSUME NEW b, Steady(b), ModeInv, ModeInv', StartInv, StartInv', [Next]_vars
    PROVE  [Table!Next]_(Table!vars)
<1> DEFINE now == IF step \in {"next", "exit"} THEN archive ELSE before
           F == IF Forcing THEN <<>> ELSE Files(now)
<1>1. job' = job
  BY DEF Next, Terminated, vars
<1>2. /\ Script' = Script /\ MODE' = MODE /\ Answers' = Answers /\ Stops' = Stops
      /\ MODE = 1 /\ ~Forcing /\ ~Forcing'
  BY <1>1, SteadyFacts DEF Script, MODE, Answers, Stops, Forcing, Steady
<1>3. now = archive /\ now' = archive'
  BY <1>2 DEF ModeInv, StartInv
<1>4. folder' = folder
  <2>1. step \in {"next", "fit", "exit"} /\ "retry" \notin Answers
    BY SteadyFacts DEF Follow, Steady
  <2>2. ~(\/ Clear \/ AppendSpace \/ WriteOffset \/ WriteData \/ WriteSize
          \/ StartShift \/ MoveChunk \/ EndShift)
    BY <1>2, <2>1 DEF Clear, AppendSpace, WriteOffset, WriteData, WriteSize, StartShift, Shifts,
                      MoveChunk, EndShift
  <2>3. \/ Get \/ Math \/ SavePos \/ GoTo \/ Log \/ Ask \/ WriteHere \/ Again \/ UNCHANGED vars
    BY <2>2 DEF Next, Commands, InLog, Terminated
  <2> QED
    BY <2>1, <2>3 DEF Get, Math, SavePos, GoTo, Do, Exit, Log, Ask, Skip, WriteHere, Write, Again, vars
<1>5. F = Files(archive) /\ F' = Files(archive)'
  <2>1. F = Files(archive)
    BY <1>2, <1>3
  <2>2. F' = Files(archive)'
    BY <1>2, <1>3 DEF Files
  <2> QED  BY <2>1, <2>2
<1>6. (MODE # 1)' = (MODE # 1)
  BY <1>2
<1>7. CASE archive' = archive
  <2>1. Files(archive)' = Files(archive)
    BY <1>2, <1>7 DEF Files
  <2>2. F' = F
    BY <1>5, <2>1
  <2> QED  BY <1>2, <1>4, <1>6, <2>2 DEF Table!vars
<1>8. CASE archive' # archive
  <2>1. WriteHere
    BY <1>8, OthersLeave
  <2>2. Reinjects
    BY <1>1, <1>8, <2>1, WriteReinjects
  <2> DEFINE n == Script[pc].name
  <2>3. /\ n \in DOMAIN folder /\ n \in DOMAIN F /\ Len(folder[n]) <= Len(F[n])
        /\ F' = [F EXCEPT ![n] = folder[n] \o Fill(Len(@) - Len(folder[n]), 0)]
    BY <1>5, <2>2 DEF Reinjects
  <2>4. \A k : Table!Zeros(k) = Fill(k, 0)
    BY DEF Table!Zeros, Fill
  <2> HIDE DEF n, F
  <2>5. F' = [F EXCEPT ![n] = folder[n] \o Table!Zeros(Len(@) - Len(folder[n]))]
    BY <2>3, <2>4
  <2>6. Table!Import(n)
    BY <1>2, <1>4, <2>3, <2>5 DEF Table!Import, F
  <2> QED  BY <1>2, <1>6, <2>3, <2>6 DEF Table!Next
<1> QED  BY <1>7, <1>8

\* readme.md:355-446: over files that share no cells, the reinjector replaces files of a
\* table, one at a time, by those of the folder that are not longer, wherever it is stopped.
THEOREM ReinjectorImplementsTable == Spec /\ InPlace => ImplementsTable
<1> DEFINE I == Inv /\ RunInv /\ ModeInv /\ StartInv /\ InPlace
<1>1. Init /\ InPlace => I
  <2>1. Init => ModeInv /\ StartInv
    BY DEF Init, Begin, ModeInv, StartInv
  <2> QED  BY <2>1, InitInv, RunInit
<1>2. I /\ [Next]_vars => I'
  <2> SUFFICES ASSUME I, [Next]_vars PROVE I'
    OBVIOUS
  <2>1. Inv' /\ RunInv' /\ ModeInv' /\ StartInv'
    BY NextStep, RunStep, ModeStep, StartStep DEF Safe
  <2>2. job' = job
    BY DEF Next, Terminated, vars
  <2>3. InPlace'
    BY <2>2 DEF InPlace, MODE, Answers, Script
  <2> QED  BY <2>1, <2>3
<1>3. I /\ I' /\ [Next]_vars => [Table!Next]_(Table!vars)
  <2> SUFFICES ASSUME I, I', [Next]_vars PROVE [Table!Next]_(Table!vars)
    OBVIOUS
  <2>1. PICK b : Begun(b)
    BY DEF RunInv
  <2>2. b \in Jobs[job].archives /\ job \in DOMAIN Jobs
    BY <2>1 DEF Begun, Inv, TypeInv
  <2>3. Steady(b)
    BY <2>1, <2>2, InPlaceFacts DEF Steady
  <2> QED  BY <2>3, TableStep
<1> HIDE DEF I
<1> QED  BY <1>1, <1>2, <1>3, PTL DEF Spec, ImplementsTable, Table!Spec

\* readme.md:218: with -0 the archive of mode 1 keeps all its files, whatever is answered.
THEOREM VoidKeepsFiles == Spec => [](VoidDump /\ MODE = 1 => Recovered /\ LeftOriginal)
<1> DEFINE FirstInv == VoidDump /\ MODE = 1 => first = Files(archive)
<1>1. Init => Inv /\ ModeInv /\ FirstInv
  BY InitInv DEF Init, Begin, ModeInv
<1>2. Inv /\ ModeInv /\ FirstInv /\ [Next]_vars => (Inv /\ ModeInv /\ FirstInv)'
  <2> SUFFICES ASSUME Inv, ModeInv, FirstInv, [Next]_vars PROVE Inv' /\ ModeInv' /\ FirstInv'
    OBVIOUS
  <2>1. Inv' /\ ModeInv' /\ (VoidDump /\ MODE = 1 => archive' = archive)
    BY NextStep, ModeStep DEF Safe
  <2>2. job' = job
    BY DEF Next, Terminated, vars
  <2>3. Script' = Script /\ MODE' = MODE /\ VoidDump' = VoidDump
    BY <2>2 DEF Script, MODE, VoidDump
  <2>4. first' = first
    BY DEF Next, Terminated, vars, Commands, InLog, Get, Math, SavePos, GoTo, Log, Do, Exit, Ask, Skip,
           WriteHere, Write, Clear, AppendSpace, WriteOffset, WriteData, WriteSize, StartShift,
           MoveChunk, EndShift, Again
  <2>5. FirstInv'
    BY <2>1, <2>3, <2>4 DEF Files
  <2> QED  BY <2>1, <2>5
<1>3. Inv /\ ModeInv /\ FirstInv => (VoidDump /\ MODE = 1 => Recovered /\ LeftOriginal)
  <2> SUFFICES ASSUME Inv, FirstInv, VoidDump, MODE = 1 PROVE Recovered /\ LeftOriginal
    OBVIOUS
  <2>1. job \in DOMAIN Jobs /\ archive \in Seq(Int) /\ first = Files(archive)
    BY DEF Inv, TypeInv
  <2>2. Files(archive) = [n \in DOMAIN Files(archive) |-> Files(archive)[n]]
    <3>1. Len(Script) \in 0 .. Len(Script)
      BY <2>1, ScriptLength
    <3>2. Three(Outcome(Script, archive, Len(Script)))
      BY <2>1, <3>1, OutcomeType
    <3> QED  BY <3>2 DEF Three, Files
  <2>3. \A n : Wanted(n) = first[n]
    BY DEF Wanted, Refused
  <2> QED  BY <2>1, <2>2, <2>3 DEF Recovered, LeftOriginal
<1> QED  BY <1>1, <1>2, <1>3, PTL DEF Spec
=============================================================================
