---------------------------- MODULE BmsArray_proofs ----------------------------
(***************************************************************************)
(* Arrays of any number and length, and any values: no element shows what  *)
(* the buffer held before, the buffer is always large enough, and          *)
(* SortArray sorts an array of one kind and loses nothing.                 *)
(***************************************************************************)
EXTENDS BmsArray, TLAPS, SequenceTheorems

Elem == Value \cup {Junk}

\* What is true of an array and its buffer between two steps.
Sound(s, r) ==
    /\ s \in Seq(Elem) /\ r \in Nat
    /\ Len(s) <= r
    /\ \A i \in 1 .. Len(s) : s[i] # Junk

\* The inductive invariant.
IInv == TypeOK /\ NothingStale /\ RoomEnough /\ SortInv

-----------------------------------------------------------------------------
(* Growing and putting *)

\* A grown array reaches up to the element, and shows nothing of the buffer.
LEMMA GrownType ==
    ASSUME NEW s \in Seq(Elem), NEW at \in Nat \ {0}, \A i \in 1 .. Len(s) : s[i] # Junk
    PROVE  /\ Grown(s, at) \in Seq(Elem)
           /\ Len(Grown(s, at)) = IF at > Len(s) THEN at ELSE Len(s)
           /\ at \in DOMAIN Grown(s, at)
           /\ \A i \in 1 .. Len(Grown(s, at)) : Grown(s, at)[i] # Junk
<1> DEFINE n == IF at > Len(s) THEN at ELSE Len(s)
           G == [i \in 1 .. n |-> IF i <= Len(s) THEN s[i] ELSE IF i <= at THEN Hole ELSE Junk]
<1>1. n \in Nat /\ at \in 1 .. n
    OBVIOUS
<1>2. Hole \in Elem /\ Hole # Junk
    BY ValueAssumption DEF Elem, Value
<1>3. \A i \in 1 .. n : G[i] \in Elem /\ G[i] # Junk
  <2> SUFFICES ASSUME NEW i \in 1 .. n PROVE G[i] \in Elem /\ G[i] # Junk
    OBVIOUS
  <2>1. CASE i <= Len(s)
    BY <2>1, ElementOfSeq
  <2>2. CASE i > Len(s)
    BY <2>2, <1>2
  <2> QED BY <2>1, <2>2
<1>4. Grown(s, at) = G
    BY DEF Grown
<1> HIDE DEF n
<1>5. G \in Seq(Elem) /\ Len(G) = n /\ DOMAIN G = 1 .. n
    BY <1>1, <1>3
<1> HIDE DEF G
<1> QED BY <1>1, <1>3, <1>4, <1>5 DEF n

\* Putting a value leaves an array sound, with the room PutArray gives it.
LEMMA PutSound ==
    ASSUME NEW s \in Seq(Elem), NEW r \in Nat, Sound(s, r), NEW at \in Nat \ {0}, NEW v \in Num \cup Text,
           NEW r2 \in Nat, r2 = IF at > Len(s) /\ at - 1 >= r THEN at - 1 + Blocks ELSE r
    PROVE  Sound([Grown(s, at) EXCEPT ![at] = Copied(@, v)], r2)
<1> DEFINE G == Grown(s, at)
           P == [G EXCEPT ![at] = Copied(@, v)]
<1>1. /\ G \in Seq(Elem) /\ Len(G) = (IF at > Len(s) THEN at ELSE Len(s))
      /\ at \in 1 .. Len(G) /\ \A i \in 1 .. Len(G) : G[i] # Junk
    BY GrownType DEF Sound
<1> HIDE DEF G
<1>2. Copied(G[at], v) \in Elem /\ Copied(G[at], v) # Junk
    BY <1>1, ValueAssumption DEF Copied, Elem, Value
<1>3. P \in Seq(Elem) /\ Len(P) = Len(G) /\ \A i \in 1 .. Len(P) : P[i] # Junk
    BY <1>1, <1>2
<1>4. Len(G) <= r2
    BY <1>1, NumbersAssumption DEF Sound
<1> HIDE DEF P
<1>5. Sound(P, r2)
    BY <1>3, <1>4 DEF Sound
<1> QED BY <1>5 DEF P, G

\* Elements in another order, or exchanged, are still elements.
LEMMA SwappedType ==
    ASSUME NEW s \in Seq(Elem), NEW i \in 1 .. Len(s), NEW k \in 1 .. Len(s)
    PROVE  /\ Swapped(s, i, k) \in Seq(Elem)
           /\ Len(Swapped(s, i, k)) = Len(s)
           /\ \A x \in 1 .. Len(s) :
                 Swapped(s, i, k)[x] = IF x = k THEN s[i] ELSE IF x = i THEN s[k] ELSE s[x]
<1>1. s[i] \in Elem /\ s[k] \in Elem
    BY ElementOfSeq
<1> QED BY <1>1 DEF Swapped

\* An exchange after a permutation is a permutation.
LEMMA SwapPermuted ==
    ASSUME NEW s \in Seq(Elem), NEW n \in Nat, n <= Len(s), NEW p \in Orders(n),
           NEW i \in 1 .. n, NEW k \in 1 .. n
    PROVE  /\ Swapped(p, i, k) \in Orders(n)
           /\ Swapped(Permuted(s, p), i, k) = Permuted(s, Swapped(p, i, k))
<1> DEFINE q == Swapped(p, i, k)
<1>1. p \in [1 .. n -> 1 .. n] /\ \A a, b \in 1 .. n : p[a] = p[b] => a = b
    BY DEF Orders
<1>2. q \in [1 .. n -> 1 .. n]
    BY <1>1 DEF Swapped
<1>3. \A a \in 1 .. n : q[a] = IF a = k THEN p[i] ELSE IF a = i THEN p[k] ELSE p[a]
    BY <1>1 DEF Swapped
<1> HIDE DEF q
<1>4. \A a, b \in 1 .. n : q[a] = q[b] => a = b
    BY <1>1, <1>3
<1>5. DOMAIN p = 1 .. n /\ DOMAIN q = 1 .. n
    BY <1>1, <1>2
<1>6. q \in Orders(n)
    BY <1>2, <1>4 DEF Orders
<1> DEFINE P == Permuted(s, p)
           Q == Permuted(s, q)
<1>7. /\ P = [a \in 1 .. Len(s) |-> IF a \in 1 .. n THEN s[p[a]] ELSE s[a]]
      /\ Q = [a \in 1 .. Len(s) |-> IF a \in 1 .. n THEN s[q[a]] ELSE s[a]]
    BY <1>5 DEF Permuted
<1>8. i \in 1 .. Len(s) /\ k \in 1 .. Len(s)
    OBVIOUS
<1> HIDE DEF P, Q
<1>9. Swapped(P, i, k) = [a \in 1 .. Len(s) |-> IF a = k THEN P[i] ELSE IF a = i THEN P[k] ELSE P[a]]
    BY <1>7, <1>8 DEF Swapped
<1>10. \A a \in 1 .. Len(s) : Q[a] = IF a = k THEN P[i] ELSE IF a = i THEN P[k] ELSE P[a]
  <2>1. /\ \A a \in 1 .. n : P[a] = s[p[a]] /\ Q[a] = s[q[a]]
        /\ \A a \in 1 .. Len(s) : a \notin 1 .. n => P[a] = s[a] /\ Q[a] = s[a]
    BY <1>7
  <2>2. \A a \in 1 .. n : Q[a] = IF a = k THEN P[i] ELSE IF a = i THEN P[k] ELSE P[a]
    BY <1>3, <2>1
  <2> QED BY <2>1, <2>2
<1>11. Swapped(P, i, k) = Q
    BY <1>7, <1>9, <1>10
<1> QED BY <1>6, <1>11 DEF P, Q, q

\* The order that leaves all where it is.
LEMMA IdentityOrder ==
    ASSUME NEW n \in Nat
    PROVE  LET p == [i \in 1 .. n |-> i]
           IN  p \in Orders(n) /\ \A s \in Seq(Elem) : n <= Len(s) => Permuted(s, p) = s
<1> DEFINE p == [i \in 1 .. n |-> i]
<1>1. p \in Orders(n) /\ DOMAIN p = 1 .. n /\ \A i \in 1 .. n : p[i] = i
    BY DEF Orders
<1> HIDE DEF p
<1>2. ASSUME NEW s \in Seq(Elem), n <= Len(s) PROVE Permuted(s, p) = s
  <2>1. Permuted(s, p) = [i \in 1 .. Len(s) |-> s[i]]
    BY <1>1 DEF Permuted
  <2> QED BY <2>1
<1> QED BY <1>1, <1>2 DEF p

-----------------------------------------------------------------------------
(* The order of the elements *)

\* Elements of one kind are compared by a number.
Key(v) == IF v \in Num THEN v % Wrap ELSE Rank[v]

LEMMA LessIsOrder ==
    ASSUME NEW s \in Seq(Elem), \A i \in 1 .. Len(s) : s[i] # Junk, Uniform(s)
    PROVE  /\ \A i \in 1 .. Len(s) : Key(s[i]) \in Int
           /\ \A i, k \in 1 .. Len(s) : Less(s[i], s[k]) <=> Key(s[i]) < Key(s[k])
<1>1. \A i \in 1 .. Len(s) : s[i] \in Value
    BY ElementOfSeq DEF Elem
<1>2. \A v \in Num : v % Wrap \in Int
    BY ValueAssumption, NumbersAssumption
<1>3. \A v \in Value : Rank[v] \in Int
    BY RankAssumption
<1>4. DOMAIN s = 1 .. Len(s)
    OBVIOUS
<1>5. CASE \A i \in 1 .. Len(s) : s[i] \in Num
    BY <1>2, <1>5 DEF Key, Less
<1>6. CASE \A i \in 1 .. Len(s) : s[i] \notin Num
    BY <1>1, <1>3, <1>6 DEF Key, Less
<1> QED BY <1>4, <1>5, <1>6 DEF Uniform

\* Elements in another order are of one kind if they were.
LEMMA PermutedType ==
    ASSUME NEW s \in Seq(Elem), NEW n \in Nat, n <= Len(s), NEW p \in Orders(n)
    PROVE  /\ Len(Permuted(s, p)) = Len(s) /\ DOMAIN Permuted(s, p) = 1 .. Len(s)
           /\ Uniform(s) => Uniform(Permuted(s, p))
<1>1. DOMAIN p = 1 .. n /\ \A i \in 1 .. n : p[i] \in 1 .. n
    BY DEF Orders
<1>2. Permuted(s, p) = [i \in 1 .. Len(s) |-> IF i \in 1 .. n THEN s[p[i]] ELSE s[i]]
    BY <1>1 DEF Permuted
<1> DEFINE P == Permuted(s, p)
<1>3. DOMAIN P = 1 .. Len(s) /\ \A i \in 1 .. Len(s) : \E k \in 1 .. Len(s) : P[i] = s[k]
  <2>1. \A i \in 1 .. n : p[i] \in 1 .. Len(s) /\ P[i] = s[p[i]]
    BY <1>1, <1>2
  <2>2. \A i \in 1 .. Len(s) : i \notin 1 .. n => P[i] = s[i]
    BY <1>2
  <2>3. DOMAIN P = 1 .. Len(s)
    BY <1>2
  <2> QED BY <2>1, <2>2, <2>3
<1>4. Len(P) = Len(s)
    BY <1>2
<1>5. DOMAIN s = 1 .. Len(s)
    OBVIOUS
<1> HIDE DEF P
<1>6. Uniform(s) => Uniform(P)
    BY <1>3, <1>5 DEF Uniform
<1> QED BY <1>3, <1>4, <1>6 DEF P

\* What SortInv says of the order of the elements.
Prefix(s, i) == \A a \in 1 .. i - 1 : \A b \in a + 1 .. Len(s) : ~Less(s[b], s[a])
Least(s, best, i, j) == \A b \in i .. j - 1 : ~Less(s[b], s[best])

\* One turn of the inner loop keeps the least element.
LEMMA ScanLeast ==
    ASSUME NEW s \in Seq(Elem), \A k \in 1 .. Len(s) : s[k] # Junk, Uniform(s),
           NEW i \in Nat \ {0}, NEW best \in Nat, NEW j \in Nat,
           i <= best, best < j, j <= Len(s), Least(s, best, i, j)
    PROVE  Least(s, IF Less(s[j], s[best]) THEN j ELSE best, i, j + 1)
<1>1. /\ \A a \in 1 .. Len(s) : Key(s[a]) \in Int
      /\ \A a, b \in 1 .. Len(s) : Less(s[a], s[b]) <=> Key(s[a]) < Key(s[b])
    BY LessIsOrder
<1>2. \A b \in i .. j - 1 : b \in 1 .. Len(s) /\ ~(Key(s[b]) < Key(s[best]))
    BY <1>1 DEF Least
<1>3. j \in 1 .. Len(s) /\ best \in 1 .. Len(s)
    OBVIOUS
<1>4. ASSUME NEW b \in i .. j
      PROVE  ~Less(s[b], s[IF Less(s[j], s[best]) THEN j ELSE best])
  <2>1. b \in 1 .. Len(s) /\ (b = j \/ b \in i .. j - 1)
    OBVIOUS
  <2>2. CASE Less(s[j], s[best])
    BY <1>1, <1>2, <1>3, <2>1, <2>2
  <2>3. CASE ~Less(s[j], s[best])
    BY <1>1, <1>2, <1>3, <2>1, <2>3
  <2> QED BY <2>2, <2>3
<1> QED BY <1>4 DEF Least

\* The end of a turn of the outer loop makes one more element final.
LEMMA PlacePrefix ==
    ASSUME NEW s \in Seq(Elem), \A k \in 1 .. Len(s) : s[k] # Junk, Uniform(s),
           NEW i \in 1 .. Len(s), NEW best \in i .. Len(s),
           Prefix(s, i), Least(s, best, i, Len(s) + 1)
    PROVE  Prefix(Swapped(s, i, best), i + 1)
<1> DEFINE S == Swapped(s, i, best)
<1>1. /\ \A a \in 1 .. Len(s) : Key(s[a]) \in Int
      /\ \A a, b \in 1 .. Len(s) : Less(s[a], s[b]) <=> Key(s[a]) < Key(s[b])
    BY LessIsOrder
<1>2. best \in 1 .. Len(s)
    OBVIOUS
<1>3. /\ Len(S) = Len(s)
      /\ \A x \in 1 .. Len(s) : S[x] = IF x = best THEN s[i] ELSE IF x = i THEN s[best] ELSE s[x]
    BY <1>2, SwappedType
<1> HIDE DEF S
<1>4. ASSUME NEW a \in 1 .. i, NEW b \in a + 1 .. Len(s) PROVE ~Less(S[b], S[a])
  <2>1. b \in 1 .. Len(s) /\ a \in 1 .. Len(s)
    OBVIOUS
  <2>2. CASE a < i
    <3>1. S[a] = s[a]
      BY <1>3, <2>1, <2>2
    <3>2. PICK c \in a + 1 .. Len(s) : S[b] = s[c]
      <4>1. CASE b = best
        BY <1>3, <2>1, <2>2, <4>1
      <4>2. CASE b # best /\ b = i
        BY <1>3, <2>1, <2>2, <4>2
      <4>3. CASE b # best /\ b # i
        BY <1>3, <2>1, <4>3
      <4> QED BY <4>1, <4>2, <4>3
    <3> QED BY <2>2, <3>1, <3>2 DEF Prefix
  <2>3. CASE a = i
    <3>1. S[a] = s[best]
      BY <1>3, <2>1, <2>3
    <3>2. PICK c \in i .. Len(s) : S[b] = s[c]
      <4>1. CASE b = best
        BY <1>3, <2>1, <4>1
      <4>2. CASE b # best
        BY <1>3, <2>1, <2>3, <4>2
      <4> QED BY <4>1, <4>2
    <3> QED BY <3>1, <3>2 DEF Least
  <2> QED BY <2>2, <2>3
<1>5. Prefix(S, i + 1)
    BY <1>3, <1>4 DEF Prefix
<1> QED BY <1>5 DEF S

-----------------------------------------------------------------------------
(* The commands *)

\* The part of the invariant that speaks of the arrays alone.
Arrays == arr \in [Array -> Seq(Elem)] /\ room \in [Array -> Nat]
          /\ \A x \in Array : Sound(arr[x], room[x])

LEMMA InvArrays == IInv => Arrays
BY DEF IInv, TypeOK, NothingStale, RoomEnough, Arrays, Sound, Elem

\* Between two commands nothing else has to be said.
LEMMA IdleInv ==
    ASSUME Arrays', sort' \in Sort, ~sort'.on, got' \in Seq(Elem \cup Int), st' \in {"run", "exit"}
    PROVE  IInv'
<1>1. TypeOK'
    BY DEF TypeOK, Arrays, Elem
<1>2. \A x \in Array : arr'[x] \in Seq(Elem) /\ DOMAIN arr'[x] = 1 .. Len(arr'[x])
    BY DEF Arrays
<1>3. NothingStale' /\ RoomEnough'
    BY <1>2 DEF NothingStale, RoomEnough, Arrays, Sound
<1> QED BY <1>1, <1>3 DEF IInv, SortInv

LEMMA InitInv == Init => IInv
<1> SUFFICES ASSUME Init PROVE IInv
    OBVIOUS
<1> DEFINE none == [x \in Array |-> <<>>]
<1>1. <<>> \in Seq(Elem) /\ Len(<<>>) = 0 /\ <<>> \in Seq(Value \cup {Junk}) /\ <<>> \in Seq(Elem \cup Int)
    OBVIOUS
<1>2. none \in [Array -> Seq(Value \cup {Junk})] /\ none \in [Array -> Seq(Elem)]
    BY <1>1
<1>3. Arrays
    BY <1>1, <1>2 DEF Init, Arrays, Sound
<1> HIDE DEF none
<1>4. Idle = [on |-> FALSE, ar |-> 0, all |-> FALSE, i |-> 0, j |-> 0, best |-> 0, old |-> none]
    BY DEF Idle, none
<1>5. Idle \in Sort /\ ~Idle.on
    BY <1>2, <1>4 DEF Sort
<1>6. TypeOK
    BY <1>1, <1>3, <1>5 DEF Init, TypeOK, Arrays, Elem
<1>7. NothingStale /\ RoomEnough
    BY <1>1 DEF Init, NothingStale, RoomEnough
<1> QED BY <1>5, <1>6, <1>7 DEF Init, IInv, SortInv

\* PutArray clears what it grows by and writes inside the buffer.
LEMMA PutArrayInv ==
    ASSUME IInv, NEW a \in Int, NEW idx \in Indices, NEW n \in 1 .. MAX_ARRAYS,
           NEW values \in [1 .. n -> Num \cup Text], a >= 0, a + n - 1 < MAX_ARRAYS,
           PutArray(a, idx, values)
    PROVE  Arrays'
<1> DEFINE last == a + n - 1
           at == [x \in Array |-> Place(x, idx)]
           Put(x) == [Grown(arr[x], at[x]) EXCEPT ![at[x]] = Copied(@, values[x - a + 1])]
<1>1. n \in Nat /\ n >= 1 /\ MAX_ARRAYS \in Nat /\ idx \in Int
    BY ArraysAssumption, IndicesAssumption
<1>2. Len(values) = n
    BY <1>1
<1>3. Arrays
    BY InvArrays
<1>4. /\ arr' = [x \in Array |-> IF x \in a .. last THEN Put(x) ELSE arr[x]]
      /\ room' = [x \in Array |-> IF x \in a .. last THEN Roomy(x, at[x]) ELSE room[x]]
    BY <1>1, <1>2 DEF PutArray
<1>5. ASSUME NEW x \in Array, x \in a .. last
      PROVE  Sound(Put(x), Roomy(x, at[x]))
  <2>1. arr[x] \in Seq(Elem) /\ room[x] \in Nat /\ Sound(arr[x], room[x])
    BY <1>3 DEF Arrays
  <2>2. at[x] = (IF idx < 0 THEN Len(arr[x]) + 1 ELSE idx + 1)
    BY DEF Place
  <2>3. at[x] \in Nat \ {0}
    BY <1>1, <2>1, <2>2
  <2>4. values[x - a + 1] \in Num \cup Text
    BY <1>1, <1>5
  <2>5. Roomy(x, at[x]) = (IF at[x] > Len(arr[x]) /\ at[x] - 1 >= room[x] THEN at[x] - 1 + Blocks ELSE room[x])
    BY DEF Roomy
  <2> HIDE DEF at
  <2>6. Roomy(x, at[x]) \in Nat
    BY <2>1, <2>3, <2>5, NumbersAssumption
  <2> QED BY <2>1, <2>3, <2>4, <2>5, <2>6, PutSound
<1> HIDE DEF at, last
<1>6. ASSUME NEW x \in Array PROVE Sound(arr'[x], room'[x])
  <2>1. CASE x \in a .. last
    BY <1>4, <1>5, <2>1
  <2>2. CASE x \notin a .. last
    BY <1>3, <1>4, <2>2 DEF Arrays
  <2> QED BY <2>1, <2>2
<1>7. /\ arr' = [x \in Array |-> arr'[x]] /\ room' = [x \in Array |-> room'[x]]
    BY <1>4
<1>8. /\ arr' \in [Array -> Seq(Elem)] /\ room' \in [Array -> Nat]
    BY <1>6, <1>7 DEF Sound
<1> QED BY <1>6, <1>8 DEF Arrays

\* What GetArray delivers is typed.
LEMMA GetArrayType ==
    ASSUME IInv, NEW a \in Int, NEW idx \in Indices, NEW n \in 1 .. MAX_ARRAYS,
           GetArray(a, idx, n)
    PROVE  /\ UNCHANGED <<arr, room, sort>>
           /\ got' \in Seq(Elem \cup Int) /\ st' \in {"run", "exit"}
<1>1. Arrays /\ got \in Seq(Elem \cup Int) /\ st \in {"run", "exit"}
    BY InvArrays DEF IInv, TypeOK, Elem
<1>2. n \in Nat
    BY ArraysAssumption
<1> DEFINE read(k) == [l \in 1 .. k - 1 |-> arr[a + l - 1][From(a + l - 1, idx)]]
<1>3. PICK k \in 1 .. n + 1 :
        /\ \A l \in 1 .. k - 1 : Readable(a + l - 1, idx)
        /\ \/ Deliver(read(k))
           \/ a + k - 1 \in Array /\ Deliver(Append(read(k), Len(arr[a + k - 1])))
           \/ Exit
  <2> HIDE DEF Deliver, Exit
  <2> QED BY DEF GetArray
<1>4. k \in Nat /\ k - 1 \in Nat
    BY <1>2
<1>5. \A l \in 1 .. k - 1 : arr[a + l - 1][From(a + l - 1, idx)] \in Elem \cup Int
  <2> SUFFICES ASSUME NEW l \in 1 .. k - 1
               PROVE  arr[a + l - 1][From(a + l - 1, idx)] \in Elem
    OBVIOUS
  <2>1. Readable(a + l - 1, idx)
    BY <1>3
  <2>2. arr[a + l - 1] \in Seq(Elem) /\ From(a + l - 1, idx) \in 1 .. Len(arr[a + l - 1])
    BY <1>1, <2>1 DEF Readable, Arrays
  <2> QED BY <2>2, ElementOfSeq
<1>6. read(k) \in Seq(Elem \cup Int)
    BY <1>4, <1>5
<1> HIDE DEF read
<1>7. CASE Deliver(read(k))
    BY <1>1, <1>6, <1>7 DEF Deliver
<1>8. CASE a + k - 1 \in Array /\ Deliver(Append(read(k), Len(arr[a + k - 1])))
  <2>1. Len(arr[a + k - 1]) \in Elem \cup Int
    BY <1>1, <1>8 DEF Arrays
  <2>2. Append(read(k), Len(arr[a + k - 1])) \in Seq(Elem \cup Int)
    BY <1>6, <2>1
  <2> QED BY <1>1, <1>8, <2>2 DEF Deliver
<1>9. CASE Exit
    BY <1>1, <1>9 DEF Exit
<1> QED BY <1>3, <1>7, <1>8, <1>9

\* SortArray starts with the rows as they are.
LEMMA SortArrayInv ==
    ASSUME IInv, ~sort.on, NEW a \in Int, NEW all \in BOOLEAN, SortArray(a, all)
    PROVE  IInv'
<1>1. Arrays /\ sort \in Sort /\ got \in Seq(Elem \cup Int) /\ st \in {"run", "exit"}
    BY InvArrays DEF IInv, TypeOK, Elem
<1>2. <<>> \in Seq(Elem \cup Int)
    OBVIOUS
<1>3. CASE Exit \/ Deliver(<<>>)
  <2>1. UNCHANGED <<arr, room, sort>> /\ got' \in Seq(Elem \cup Int) /\ st' \in {"run", "exit"}
    BY <1>1, <1>2, <1>3 DEF Exit, Deliver
  <2>2. Arrays'
    BY <1>1, <2>1 DEF Arrays
  <2>3. (sort \in Sort)' /\ ~sort'.on
    BY <1>1, <2>1
  <2> QED BY <2>1, <2>2, <2>3, IdleInv
<1>4. CASE ~(Exit \/ Deliver(<<>>))
  <2> DEFINE s == arr[a]
  <2>1. /\ a \in Array /\ Len(s) > 1
        /\ sort' = [on |-> TRUE, ar |-> a, all |-> all, i |-> 1, j |-> 2, best |-> 1, old |-> arr]
        /\ got' = <<>> /\ UNCHANGED <<arr, room, st>>
    <3>1. a \in Array
      BY <1>4 DEF SortArray
    <3>2. Len(s) \in Nat
      BY <1>1, <3>1 DEF Arrays
    <3> QED BY <1>4, <3>1, <3>2 DEF SortArray
  <2>2. s \in Seq(Elem) /\ (\A k \in 1 .. Len(s) : s[k] # Junk) /\ Len(s) \in Nat /\ DOMAIN s = 1 .. Len(s)
    BY <1>1, <2>1 DEF Arrays, Sound
  <2>3. arr \in [Array -> Seq(Value \cup {Junk})]
    BY <1>1 DEF Arrays, Elem
  <2>4. sort' \in Sort
    BY <2>1, <2>3 DEF Sort
  <2>5. TypeOK'
    BY <1>1, <1>2, <2>1, <2>2, <2>3, <2>4 DEF TypeOK, Arrays, Elem
  <2>6. NothingStale' /\ RoomEnough'
    BY <2>1 DEF IInv, NothingStale, RoomEnough
  <2>7. PICK p \in Orders(Len(s)) : \A t \in Seq(Elem) : Len(s) <= Len(t) => Permuted(t, p) = t
    BY <2>2, IdentityOrder
  <2>8. arr' = Reordered(p)'
    <3>1. ASSUME NEW x \in Array PROVE arr[x] = IF Follows(x)' THEN Permuted(arr[x], p) ELSE arr[x]
      <4>1. Follows(x)' => Len(s) <= Len(arr[x])
        BY <1>1, <2>1, <2>2 DEF Follows, Arrays
      <4> QED BY <1>1, <2>7, <4>1 DEF Arrays
    <3>2. arr = [x \in Array |-> arr[x]]
      BY <1>1 DEF Arrays
    <3>3. \A x \in Array : Follows(x)' <=> (x = a \/ (all /\ Len(arr[x]) >= Len(s)))
      BY <2>1 DEF Follows
    <3> QED BY <2>1, <3>1, <3>2 DEF Reordered, Follows
  <2>9. ASSUME Uniform(s) PROVE Prefix(s, 1) /\ Least(s, 1, 1, 2)
    <3>1. Key(s[1]) \in Int /\ (Less(s[1], s[1]) <=> Key(s[1]) < Key(s[1]))
      BY <2>1, <2>2, <2>9, LessIsOrder
    <3> QED BY <3>1 DEF Prefix, Least
  <2>10. SortInv'
    <3> HIDE DEF s
    <3>1. /\ sort'.on /\ sort'.ar = a /\ sort'.i = 1 /\ sort'.j = 2 /\ sort'.best = 1
          /\ arr'[a] = s /\ sort'.old[a] = s
      BY <2>1 DEF s
    <3> QED BY <2>1, <2>2, <2>7, <2>8, <2>9, <3>1 DEF SortInv, Prefix, Least
  <2> QED BY <2>5, <2>6, <2>10 DEF IInv
<1> QED BY <1>3, <1>4

LEMMA CommandInv ==
    ASSUME IInv, Command
    PROVE  IInv'
<1>1. Arrays /\ sort \in Sort /\ got \in Seq(Elem \cup Int) /\ st \in {"run", "exit"} /\ ~sort.on
    BY InvArrays DEF IInv, TypeOK, Elem, Command
<1>2. ASSUME Arrays', UNCHANGED sort, got' \in Seq(Elem \cup Int), st' \in {"run", "exit"} PROVE IInv'
  <2>1. (sort \in Sort)' /\ ~sort'.on
    BY <1>1, <1>2
  <2> QED BY <1>2, <2>1, IdleInv
<1>3. ASSUME UNCHANGED <<arr, room>> PROVE Arrays'
  BY <1>1, <1>3 DEF Arrays
<1>4. CASE Exit
  BY <1>1, <1>2, <1>3, <1>4 DEF Exit
<1>5. CASE Restart
  <2>1. <<>> \in Seq(Elem) /\ Len(<<>>) = 0 /\ <<>> \in Seq(Elem \cup Int)
    OBVIOUS
  <2>2. Arrays'
    BY <1>1, <1>5, <2>1 DEF Restart, Arrays, Sound
  <2> QED BY <1>1, <1>2, <1>5, <2>1, <2>2 DEF Restart
<1>6. ASSUME NEW a \in -1 .. MAX_ARRAYS, NEW all \in BOOLEAN, SortArray(a, all) PROVE IInv'
  BY <1>1, <1>6, SortArrayInv
<1>7. ASSUME NEW a \in -1 .. MAX_ARRAYS, NEW v \in Num \cup Text, SearchArray(a, v) PROVE IInv'
  <2>1. ASSUME NEW i \in Int, Deliver(<<i>>) PROVE IInv'
    <3>1. <<i>> \in Seq(Elem \cup Int)
      OBVIOUS
    <3> QED BY <1>1, <1>2, <1>3, <2>1, <3>1 DEF Deliver
  <2>2. CASE a \notin Array
    BY <1>4, <1>7, <2>2 DEF SearchArray
  <2>3. CASE a \in Array
    <3>1. PICK i \in -1 .. Len(arr[a]) - 1 : Deliver(<<i>>)
      BY <1>7, <2>3 DEF SearchArray
    <3> QED BY <2>1, <3>1
  <2> QED BY <2>2, <2>3
<1>8. ASSUME NEW a \in -1 .. MAX_ARRAYS, NEW idx \in Indices, NEW n \in 1 .. MAX_ARRAYS,
             GetArray(a, idx, n)
      PROVE  IInv'
  BY <1>2, <1>3, <1>8, GetArrayType
<1>9. ASSUME NEW a \in -1 .. MAX_ARRAYS, NEW idx \in Indices, NEW n \in 1 .. MAX_ARRAYS,
             NEW values \in [1 .. n -> Num \cup Text], PutArray(a, idx, values)
      PROVE  IInv'
  <2>1. n \in Nat /\ Len(values) = n
    BY ArraysAssumption
  <2>2. CASE a < 0 \/ a + n - 1 >= MAX_ARRAYS
    BY <1>4, <1>9, <2>1, <2>2 DEF PutArray
  <2>3. CASE ~(a < 0 \/ a + n - 1 >= MAX_ARRAYS)
    <3>1. a >= 0 /\ a + n - 1 < MAX_ARRAYS
      BY <2>1, <2>3, ArraysAssumption
    <3>2. Arrays'
      BY <1>9, <3>1, PutArrayInv
    <3>3. UNCHANGED <<sort, st>> /\ got' = <<>>
      BY <1>9, <2>1, <2>3 DEF PutArray
    <3> QED BY <1>1, <1>2, <3>2, <3>3
  <2> QED BY <2>2, <2>3
<1> QED BY <1>5, <1>6, <1>7, <1>8, <1>9 DEF Command

-----------------------------------------------------------------------------
(* The turns of the loops of SortArray *)

\* What holds while an array is sorted, with the parts of SortInv named.
LEMMA WhileSorting ==
    ASSUME IInv, sort.on
    PROVE  /\ sort.ar \in Array
           /\ sort.i \in Nat \ {0} /\ sort.best \in Nat /\ sort.j \in Nat
           /\ arr[sort.ar] \in Seq(Elem)
           /\ \A k \in 1 .. Len(arr[sort.ar]) : arr[sort.ar][k] # Junk
           /\ sort.i < Len(arr[sort.ar]) /\ sort.i <= sort.best
           /\ sort.best < sort.j /\ sort.j <= Len(arr[sort.ar]) + 1
           /\ sort.old \in [Array -> Seq(Elem)]
           /\ \A x \in Array : Len(arr[x]) = Len(sort.old[x])
           /\ \E p \in Orders(Len(sort.old[sort.ar])) : arr = Reordered(p)
           /\ Uniform(sort.old[sort.ar]) =>
                 /\ Uniform(arr[sort.ar])
                 /\ Prefix(arr[sort.ar], sort.i)
                 /\ Least(arr[sort.ar], sort.best, sort.i, sort.j)
<1>1. Arrays
    BY InvArrays
<1>2. sort \in Sort /\ sort.i \in DOMAIN arr[sort.ar]
    BY DEF IInv, TypeOK
<1>3. /\ sort.ar \in Array
      /\ sort.i < Len(arr[sort.ar]) /\ sort.i <= sort.best
      /\ sort.best < sort.j /\ sort.j <= Len(arr[sort.ar]) + 1
      /\ \E p \in Orders(Len(sort.old[sort.ar])) : arr = Reordered(p)
      /\ Uniform(sort.old[sort.ar]) =>
            /\ Prefix(arr[sort.ar], sort.i)
            /\ Least(arr[sort.ar], sort.best, sort.i, sort.j)
    BY DEF IInv, SortInv, Prefix, Least
<1>4. /\ arr[sort.ar] \in Seq(Elem)
      /\ \A k \in 1 .. Len(arr[sort.ar]) : arr[sort.ar][k] # Junk
    BY <1>1, <1>3 DEF Arrays, Sound
<1>5. sort.i \in Nat \ {0} /\ sort.best \in Nat /\ sort.j \in Nat
    BY <1>2, <1>4 DEF Sort
<1>6. sort.old \in [Array -> Seq(Elem)]
    BY <1>2 DEF Sort, Elem
<1>7. PICK p \in Orders(Len(sort.old[sort.ar])) : arr = Reordered(p)
    BY <1>3
<1>8. \A x \in Array : arr[x] = IF Follows(x) THEN Permuted(sort.old[x], p) ELSE sort.old[x]
    BY <1>7 DEF Reordered
<1>9. ASSUME NEW x \in Array
      PROVE  Len(arr[x]) = Len(sort.old[x]) /\ (Follows(x) => arr[x] = Permuted(sort.old[x], p) /\ (Uniform(sort.old[x]) => Uniform(arr[x])))
  <2>1. sort.old[x] \in Seq(Elem) /\ Len(sort.old[sort.ar]) \in Nat
    BY <1>3, <1>6
  <2>2. Follows(x) => Len(sort.old[sort.ar]) <= Len(sort.old[x])
    BY <1>3, <1>6 DEF Follows
  <2> QED BY <1>8, <2>1, <2>2, PermutedType
<1>10. Follows(sort.ar)
    BY DEF Follows
<1> QED BY <1>3, <1>4, <1>5, <1>6, <1>9, <1>10

LEMMA SortScanInv ==
    ASSUME IInv, SortScan
    PROVE  IInv'
<1> DEFINE s == arr[sort.ar]
           best == IF Less(s[sort.j], s[sort.best]) THEN sort.j ELSE sort.best
           r == [sort EXCEPT !.j = @ + 1, !.best = best]
<1>1. sort.on /\ sort.j <= Len(s) /\ sort' = r /\ UNCHANGED <<arr, room, got, st>>
    BY DEF SortScan
<1>2. sort \in Sort
    BY DEF IInv, TypeOK
<1>3. /\ sort.ar \in Array
      /\ sort.i \in Nat \ {0} /\ sort.best \in Nat /\ sort.j \in Nat
      /\ s \in Seq(Elem) /\ \A k \in 1 .. Len(s) : s[k] # Junk
      /\ sort.i < Len(s) /\ sort.i <= sort.best /\ sort.best < sort.j
      /\ Uniform(sort.old[sort.ar]) =>
            Uniform(s) /\ Prefix(s, sort.i) /\ Least(s, sort.best, sort.i, sort.j)
    BY <1>1, WhileSorting
<1>4. PICK p \in Orders(Len(sort.old[sort.ar])) : arr = Reordered(p)
    BY <1>1, WhileSorting
<1>5. best \in Nat /\ sort.i <= best /\ best < sort.j + 1 /\ best <= Len(s)
    BY <1>1, <1>3
<1>6. Uniform(sort.old[sort.ar]) => Least(s, best, sort.i, sort.j + 1)
    BY <1>1, <1>3, ScanLeast
<1> DEFINE j == sort.j + 1
<1> HIDE DEF best, j
<1>7. r = [sort EXCEPT !.j = j, !.best = best]
    BY DEF j
<1> HIDE DEF r
<1>8. r = [on |-> sort.on, ar |-> sort.ar, all |-> sort.all, i |-> sort.i, j |-> j,
           best |-> best, old |-> sort.old]
    BY <1>2, <1>7 DEF Sort
<1>9. r = [on |-> sort.on, ar |-> sort.ar, all |-> sort.all, i |-> sort.i, j |-> sort.j + 1,
           best |-> best, old |-> sort.old]
    BY <1>8 DEF j
<1>10. r \in Sort
    BY <1>2, <1>3, <1>5, <1>9 DEF Sort
<1>11. TypeOK'
    BY <1>1, <1>3, <1>5, <1>9, <1>10 DEF IInv, TypeOK
<1>12. NothingStale' /\ RoomEnough'
    BY <1>1 DEF IInv, NothingStale, RoomEnough
<1>13. arr' = Reordered(p)'
    BY <1>1, <1>4, <1>9 DEF Reordered, Follows
<1>14. SortInv'
  <2> HIDE DEF s
  <2>1. /\ sort'.on /\ sort'.ar = sort.ar /\ sort'.i = sort.i /\ sort'.j = sort.j + 1 /\ sort'.best = best
        /\ sort'.old = sort.old /\ arr'[sort.ar] = s
    BY <1>1, <1>9 DEF s
  <2>2. sort.j + 1 <= Len(s) + 1
    BY <1>1, <1>3
  <2> QED BY <1>3, <1>4, <1>5, <1>6, <1>13, <2>1, <2>2 DEF SortInv, Prefix, Least
<1> QED BY <1>11, <1>12, <1>14 DEF IInv

\* The end of a turn of the outer loop keeps the rows and finishes an element.
LEMMA PlaceStep ==
    ASSUME IInv, SortPlace
    PROVE  /\ Arrays'
           /\ Len(arr'[sort.ar]) = Len(arr[sort.ar])
           /\ \E p \in Orders(Len(sort.old[sort.ar])) : arr' = Reordered(p)
           /\ Uniform(sort.old[sort.ar]) => Uniform(arr'[sort.ar]) /\ Prefix(arr'[sort.ar], sort.i + 1)
<1> DEFINE s == arr[sort.ar]
           n == Len(sort.old[sort.ar])
<1>1. /\ sort.on /\ sort.j > Len(s) /\ UNCHANGED room
      /\ arr' = [x \in Array |-> IF Moves(x) THEN Swapped(arr[x], sort.i, sort.best) ELSE arr[x]]
    BY DEF SortPlace
<1>2. /\ sort.ar \in Array
      /\ sort.i \in Nat \ {0} /\ sort.best \in Nat /\ sort.j \in Nat
      /\ s \in Seq(Elem) /\ \A k \in 1 .. Len(s) : s[k] # Junk
      /\ sort.i < Len(s) /\ sort.i <= sort.best /\ sort.best < sort.j /\ sort.j <= Len(s) + 1
      /\ sort.old \in [Array -> Seq(Elem)]
      /\ \A x \in Array : Len(arr[x]) = Len(sort.old[x])
      /\ Uniform(sort.old[sort.ar]) =>
            Uniform(s) /\ Prefix(s, sort.i) /\ Least(s, sort.best, sort.i, sort.j)
    BY <1>1, WhileSorting
<1>3. PICK p \in Orders(n) : arr = Reordered(p)
    BY <1>1, WhileSorting
<1>4. Arrays
    BY InvArrays
<1>5. sort.j = Len(s) + 1 /\ n = Len(s) /\ n \in Nat /\ sort.i \in 1 .. n /\ sort.best \in sort.i .. n
  <2>1. Len(s) \in Nat /\ n = Len(s)
    BY <1>2
  <2> HIDE DEF s, n
  <2>2. sort.j = Len(s) + 1
    BY <1>1, <1>2, <2>1
  <2> QED BY <1>2, <2>1, <2>2
<1>6. ASSUME NEW x \in Array PROVE (Moves(x) <=> Follows(x)) /\ (Follows(x) => n <= Len(arr[x]))
    BY <1>2, <1>5 DEF Moves, Follows
<1> DEFINE q == Swapped(p, sort.i, sort.best)
<1>7. ASSUME NEW x \in Array, Follows(x)
      PROVE  /\ q \in Orders(n)
             /\ Swapped(arr[x], sort.i, sort.best) = Permuted(sort.old[x], q)
  <2>1. sort.old[x] \in Seq(Elem) /\ n <= Len(sort.old[x]) /\ sort.best \in 1 .. n
    BY <1>2, <1>5, <1>6, <1>7
  <2>2. arr[x] = Permuted(sort.old[x], p)
    BY <1>3, <1>7 DEF Reordered
  <2> DEFINE i == sort.i
             best == sort.best
             o == sort.old[x]
  <2>3. i \in 1 .. n /\ best \in 1 .. n /\ o \in Seq(Elem) /\ n \in Nat /\ n <= Len(o)
    BY <1>5, <2>1
  <2>4. arr[x] = Permuted(o, p)
    BY <2>2
  <2> HIDE DEF n, i, best, o
  <2>6. Swapped(p, i, best) \in Orders(n) /\ Swapped(Permuted(o, p), i, best) = Permuted(o, Swapped(p, i, best))
    BY <2>3, SwapPermuted
  <2> QED BY <2>4, <2>6 DEF i, best, o
<1>8. Follows(sort.ar)
    BY DEF Follows
<1>9. q \in Orders(n)
    BY <1>2, <1>7, <1>8
<1> HIDE DEF q
<1>10. ASSUME NEW x \in Array
       PROVE  arr'[x] = IF Follows(x) THEN Permuted(sort.old[x], q) ELSE sort.old[x]
  <2>1. CASE Follows(x)
    BY <1>1, <1>6, <1>7, <2>1
  <2>2. CASE ~Follows(x)
    <3>1. arr[x] = sort.old[x]
      BY <1>3, <2>2 DEF Reordered
    <3> QED BY <1>1, <1>6, <2>2, <3>1
  <2> QED BY <2>1, <2>2
<1>11. arr' = Reordered(q)
    BY <1>1, <1>10 DEF Reordered
<1>12. ASSUME NEW x \in Array
       PROVE  Sound(arr'[x], room[x]) /\ Len(arr'[x]) = Len(arr[x])
  <2>1. Sound(arr[x], room[x])
    BY <1>4 DEF Arrays
  <2>2. CASE Moves(x)
    <3> DEFINE t == arr[x]
               i == sort.i
               best == sort.best
               T == Swapped(t, i, best)
    <3>1. t \in Seq(Elem) /\ i \in 1 .. Len(t) /\ best \in 1 .. Len(t)
      <4>1. t \in Seq(Elem) /\ Len(t) \in Nat
        BY <1>4 DEF Arrays
      <4>2. n <= Len(t)
        BY <1>6, <2>2
      <4> HIDE DEF t, n
      <4> QED BY <1>5, <4>1, <4>2
    <3>2. /\ T \in Seq(Elem) /\ Len(T) = Len(t)
          /\ \A k \in 1 .. Len(t) :
                T[k] = IF k = best THEN t[i] ELSE IF k = i THEN t[best] ELSE t[k]
      <4> HIDE DEF t, i, best
      <4> QED BY <3>1, SwappedType
    <3>3. arr'[x] = T
      BY <1>1, <2>2
    <3> HIDE DEF T, i, best
    <3> QED BY <2>1, <3>1, <3>2, <3>3 DEF Sound
  <2>3. CASE ~Moves(x)
    BY <1>1, <2>1, <2>3
  <2> QED BY <2>2, <2>3
<1>13. Arrays'
  <2>1. arr' = [x \in Array |-> arr'[x]]
    BY <1>1
  <2>2. arr' \in [Array -> Seq(Elem)]
    BY <1>12, <2>1 DEF Sound
  <2> QED BY <1>1, <1>4, <1>12, <2>2 DEF Arrays
<1>14. ASSUME Uniform(sort.old[sort.ar])
       PROVE  Uniform(arr'[sort.ar]) /\ Prefix(arr'[sort.ar], sort.i + 1)
  <2>1. arr'[sort.ar] = Swapped(s, sort.i, sort.best)
    BY <1>1, <1>2, <1>6, <1>8
  <2>2. Prefix(Swapped(s, sort.i, sort.best), sort.i + 1)
    BY <1>2, <1>5, <1>14, PlacePrefix
  <2>3. arr'[sort.ar] = Permuted(sort.old[sort.ar], q)
    BY <1>2, <1>8, <1>10
  <2>4. Uniform(Permuted(sort.old[sort.ar], q))
    BY <1>2, <1>9, <1>14, PermutedType
  <2> QED BY <2>1, <2>2, <2>3, <2>4
<1> QED BY <1>2, <1>9, <1>11, <1>12, <1>13, <1>14

LEMMA SortPlaceInv ==
    ASSUME IInv, SortPlace
    PROVE  IInv'
<1> DEFINE s == arr[sort.ar]
           r == [sort EXCEPT !.i = @ + 1, !.j = sort.i + 2, !.best = sort.i + 1]
<1>1. /\ sort.on /\ UNCHANGED <<got, st>>
      /\ sort' = IF sort.i + 1 = Len(s) THEN Idle ELSE r
    BY DEF SortPlace
<1>2. /\ Arrays' /\ Len(arr'[sort.ar]) = Len(s)
      /\ Uniform(sort.old[sort.ar]) => Uniform(arr'[sort.ar]) /\ Prefix(arr'[sort.ar], sort.i + 1)
    BY PlaceStep
<1>3. PICK p \in Orders(Len(sort.old[sort.ar])) : arr' = Reordered(p)
    BY PlaceStep
<1>4. sort \in Sort /\ got \in Seq(Elem \cup Int) /\ st \in {"run", "exit"}
    BY DEF IInv, TypeOK, Elem
<1>5. sort.ar \in Array /\ sort.i \in Nat \ {0} /\ s \in Seq(Elem) /\ sort.i < Len(s)
    BY <1>1, WhileSorting
<1>6. CASE sort.i + 1 = Len(s)
  <2> DEFINE none == [x \in Array |-> <<>>]
  <2>1. none \in [Array -> Seq(Value \cup {Junk})]
    OBVIOUS
  <2> HIDE DEF none
  <2>2. Idle = [on |-> FALSE, ar |-> 0, all |-> FALSE, i |-> 0, j |-> 0, best |-> 0, old |-> none]
    BY DEF Idle, none
  <2>3. Idle \in Sort /\ ~Idle.on
    BY <2>1, <2>2 DEF Sort
  <2> HIDE DEF r
  <2>4. sort' = Idle
    BY <1>1, <1>6
  <2> QED BY <1>1, <1>2, <1>4, <2>3, <2>4, IdleInv
<1>7. CASE sort.i + 1 # Len(s)
  <2>1. sort' = r
    BY <1>1, <1>7
  <2>2. r = [on |-> sort.on, ar |-> sort.ar, all |-> sort.all, i |-> sort.i + 1, j |-> sort.i + 2,
             best |-> sort.i + 1, old |-> sort.old]
    <3> DEFINE i == sort.i + 1
               j == sort.i + 2
    <3>1. r = [sort EXCEPT !.i = i, !.j = j, !.best = i]
      OBVIOUS
    <3> HIDE DEF r, i, j
    <3>2. r = [on |-> sort.on, ar |-> sort.ar, all |-> sort.all, i |-> i, j |-> j,
               best |-> i, old |-> sort.old]
      BY <1>4, <3>1 DEF Sort
    <3> QED BY <3>2 DEF i, j
  <2> HIDE DEF r
  <2>3. r \in Sort
    BY <1>4, <1>5, <2>2 DEF Sort
  <2>4. arr'[sort.ar] \in Seq(Elem) /\ \A k \in 1 .. Len(s) : arr'[sort.ar][k] # Junk
    BY <1>2, <1>5 DEF Arrays, Sound
  <2>5. sort.i + 1 < Len(s) /\ Len(s) \in Nat
    BY <1>5, <1>7
  <2>6. /\ sort'.on /\ sort'.ar = sort.ar /\ sort'.i = sort.i + 1 /\ sort'.j = sort.i + 2
        /\ sort'.best = sort.i + 1 /\ sort'.old = sort.old /\ sort'.all = sort.all
    BY <1>1, <2>1, <2>2
  <2>7. TypeOK'
    <3>1. (sort.i + 1) \in DOMAIN arr'[sort.ar]
      BY <1>2, <1>5, <2>4, <2>5
    <3> QED BY <1>1, <1>2, <1>4, <2>1, <2>3, <2>6, <3>1 DEF TypeOK, Arrays, Elem
  <2>8. \A x \in Array : arr'[x] \in Seq(Elem) /\ DOMAIN arr'[x] = 1 .. Len(arr'[x])
    BY <1>2 DEF Arrays
  <2>9. NothingStale' /\ RoomEnough'
    BY <1>2, <2>8 DEF NothingStale, RoomEnough, Arrays, Sound
  <2>10. arr' = Reordered(p)'
    BY <1>3, <2>6 DEF Reordered, Follows
  <2>11. ASSUME Uniform(sort.old[sort.ar])
         PROVE  Least(arr'[sort.ar], sort.i + 1, sort.i + 1, sort.i + 2)
    <3> DEFINE S == arr'[sort.ar]
    <3>1. S \in Seq(Elem) /\ Len(S) = Len(s) /\ (\A k \in 1 .. Len(S) : S[k] # Junk) /\ Uniform(S)
      BY <1>2, <2>4, <2>11
    <3> HIDE DEF S
    <3>2. (sort.i + 1) \in 1 .. Len(S)
      BY <1>5, <2>5, <3>1
    <3>3. Key(S[sort.i + 1]) \in Int
          /\ (Less(S[sort.i + 1], S[sort.i + 1]) <=> Key(S[sort.i + 1]) < Key(S[sort.i + 1]))
      BY <3>1, <3>2, LessIsOrder
    <3>4. \A b \in sort.i + 1 .. sort.i + 2 - 1 : b = sort.i + 1
      BY <1>5
    <3>5. ~Less(S[sort.i + 1], S[sort.i + 1])
      BY <3>3
    <3>6. Least(S, sort.i + 1, sort.i + 1, sort.i + 2)
      BY <1>5, <3>4, <3>5 DEF Least
    <3> QED BY <3>6 DEF S
  <2>12. SortInv'
    BY <1>2, <1>3, <1>5, <2>5, <2>6, <2>10, <2>11 DEF SortInv, Prefix, Least
  <2> QED BY <2>7, <2>9, <2>12 DEF IInv
<1> QED BY <1>6, <1>7

-----------------------------------------------------------------------------
(* Theorems *)

LEMMA NextInv ==
    ASSUME IInv, [Next]_vars
    PROVE  IInv'
<1>1. CASE Command
    BY <1>1, CommandInv
<1>2. CASE SortScan
    BY <1>2, SortScanInv
<1>3. CASE SortPlace
    BY <1>3, SortPlaceInv
<1>4. CASE UNCHANGED vars
  <2>1. UNCHANGED <<arr, room, sort, got, st>>
    BY <1>4 DEF vars
  <2>2. TypeOK' /\ NothingStale' /\ RoomEnough'
    BY <2>1 DEF IInv, TypeOK, NothingStale, RoomEnough
  <2>4. SortInv'
    BY <2>1 DEF IInv, SortInv, Reordered, Follows
  <2> QED BY <2>2, <2>4 DEF IInv
<1> QED BY <1>1, <1>2, <1>3, <1>4 DEF Next, Terminated

\* Everything the proofs rest on is true of every reachable state.
THEOREM ArrayInvariance == Spec => []IInv
<1>1. Init => IInv
    BY InitInv
<1>2. IInv /\ [Next]_vars => IInv'
    BY NextInv
<1> QED BY <1>1, <1>2, PTL DEF Spec

\* The arrays keep their type, and SortArray never points outside of one.
THEOREM ArrayTypeCorrect == Spec => []TypeOK
<1>1. IInv => TypeOK
    BY DEF IInv
<1> QED BY <1>1, ArrayInvariance, PTL

\* No script ever sees what the buffer of an array held before.
THEOREM ArrayNothingStale == Spec => []NothingStale
<1>1. IInv => NothingStale
    BY DEF IInv
<1> QED BY <1>1, ArrayInvariance, PTL

\* PutArray never writes behind the buffer of an array.
THEOREM ArrayRoomEnough == Spec => []RoomEnough
<1>1. IInv => RoomEnough
    BY DEF IInv
<1> QED BY <1>1, ArrayInvariance, PTL

\* The step that ends SortArray places the last element but one.
LEMMA LastPlace ==
    ASSUME IInv, [Next]_vars, Sorts
    PROVE  SortPlace /\ sort.i + 1 = Len(arr[sort.ar])
<1>1. sort.on /\ ~sort'.on
    BY DEF Sorts
<1>2. ~Command /\ ~UNCHANGED vars
    BY <1>1 DEF Command, vars
<1>3. sort \in Sort
    BY DEF IInv, TypeOK
<1>4. ~SortScan
  <2>1. SUFFICES ASSUME SortScan PROVE sort'.on
    BY <1>1
  <2>2. PICK b, c : sort' = [sort EXCEPT !.j = b, !.best = c]
    BY <2>1 DEF SortScan
  <2> QED BY <1>1, <1>3, <2>2 DEF Sort
<1>5. SortPlace
    BY <1>2, <1>4 DEF Next, Terminated
<1>6. CASE sort.i + 1 # Len(arr[sort.ar])
  <2>1. PICK a, b, c : sort' = [sort EXCEPT !.i = a, !.j = b, !.best = c]
    BY <1>5, <1>6 DEF SortPlace
  <2> QED BY <1>1, <1>3, <2>1 DEF Sort
<1> QED BY <1>5, <1>6

\* In the middle of SortArray the arrays are a permutation of the rows they had,
\* and the part that is done is sorted, for arrays of any number and length.
THEOREM ArraySortHalfway == Spec => []SortInv
<1>1. IInv => SortInv
  BY DEF IInv
<1> QED BY <1>1, ArrayInvariance, PTL

\* SortArray leaves every array of numbers, or of texts, in ascending order.
THEOREM ArraySortAscends == Spec => SortAscends
<1>1. ASSUME IInv, [Next]_vars, Sorts, Uniform(sort.old[sort.ar])
      PROVE  Ascending(arr'[sort.ar])
  <2> DEFINE s == arr'[sort.ar]
  <2>1. SortPlace /\ sort.i + 1 = Len(arr[sort.ar])
    BY <1>1, LastPlace
  <2>2. Arrays' /\ Len(s) = Len(arr[sort.ar])
    BY <1>1, <2>1, PlaceStep
  <2>3. Prefix(s, sort.i + 1)
    BY <1>1, <2>1, PlaceStep
  <2>4. sort.ar \in Array
    BY <1>1, WhileSorting DEF Sorts
  <2>5. s \in Seq(Elem)
    BY <2>2, <2>4 DEF Arrays
  <2>6. Len(s) \in Nat /\ DOMAIN s = 1 .. Len(s)
    BY <2>5
  <2>7. Prefix(s, Len(s))
    BY <2>1, <2>2, <2>3
  <2> HIDE DEF s
  <2>8. Ascending(s)
    BY <2>6, <2>7 DEF Ascending, Prefix
  <2> QED BY <2>8 DEF s
<1>2. IInv /\ [Next]_vars => [Sorts /\ Uniform(sort.old[sort.ar]) => Ascending(arr'[sort.ar])]_vars
    BY <1>1
<1> QED BY <1>2, ArrayInvariance, PTL DEF Spec, SortAscends

\* SortArray loses and invents nothing, and with ALL every row stays whole.
THEOREM ArraySortKeepsRows == Spec => SortKeepsRows
<1>1. ASSUME IInv, [Next]_vars, Sorts
      PROVE  \E p \in Orders(Len(sort.old[sort.ar])) : arr' = Reordered(p)
    BY <1>1, LastPlace, PlaceStep
<1>2. IInv /\ [Next]_vars => [Sorts => \E p \in Orders(Len(sort.old[sort.ar])) : arr' = Reordered(p)]_vars
    BY <1>1
<1> QED BY <1>2, ArrayInvariance, PTL DEF Spec, SortKeepsRows
================================================================================
