---------------------------- MODULE MemFile_proofs ----------------------------
(***************************************************************************)
(* Memory files of any number and size, and data of any length: a script   *)
(* that does not Log in insert mode never reads a byte that nobody wrote,  *)
(* no position leaves its file, and every command does to the files what   *)
(* ByteFile says.                                                          *)
(***************************************************************************)
EXTENDS MemFile, TLAPS, SequenceTheorems

\* What is true of a single memory file between two commands.
Good(m) ==
    /\ m \in MemFile
    /\ m.bytes \in Seq(Byte)
    /\ m.pos <= Len(m.bytes)
    /\ ~m.open => m.bytes = <<>>

AllGood(M) == M \in [Files -> MemFile] /\ \A f \in Files : Good(M[f])

\* The inductive invariant.
IInv == AllGood(mem) /\ mode \in Modes /\ st \in {"run", "exit"}

-----------------------------------------------------------------------------
(* Memory *)

\* A resized buffer has the new length; what it held is kept.
LEMMA ResizedType ==
    ASSUME NEW b \in Seq(Cell), NEW n \in Nat
    PROVE  /\ Resized(b, n) \in Seq(Cell)
           /\ Len(Resized(b, n)) = n
           /\ \A i \in 1 .. n : Resized(b, n)[i] = IF i <= Len(b) THEN b[i] ELSE Junk
<1>1. \A i \in 1 .. n : i <= Len(b) => b[i] \in Cell
    BY ElementOfSeq
<1>2. Junk \in Cell
    BY DEF Cell
<1> QED BY <1>1, <1>2 DEF Resized

\* A cleared buffer has the new length and holds written bytes only.
LEMMA ClearedType ==
    ASSUME NEW b \in Seq(Byte), NEW n \in Nat
    PROVE  Cleared(b, n) \in Seq(Byte) /\ Len(Cleared(b, n)) = n
<1>1. \A i \in 1 .. n : i <= Len(b) => b[i] \in Byte
    BY ElementOfSeq
<1> QED BY <1>1, ByteAssumption DEF Cleared

\* Copying keeps the length; a cell holds a byte afterwards if it was written
\* before or is one of those copied to.
LEMMA CopiedType ==
    ASSUME NEW b \in Seq(Cell), NEW at \in Nat, NEW d \in Seq(Byte),
           \A i \in 1 .. Len(b) : b[i] \in Byte \/ (at < i /\ i <= at + Len(d))
    PROVE  Copied(b, at, d) \in Seq(Byte) /\ Len(Copied(b, at, d)) = Len(b)
<1>1. \A i \in 1 .. Len(b) : at < i /\ i <= at + Len(d) => d[i - at] \in Byte
    BY ElementOfSeq
<1> QED BY <1>1 DEF Copied

\* Moving keeps the length and copies cells.
LEMMA MovedType ==
    ASSUME NEW b \in Seq(Cell), NEW to \in Nat, NEW from \in Nat, NEW n \in Nat,
           to + n <= Len(b), from <= to
    PROVE  /\ Moved(b, to, from, n) \in Seq(Cell)
           /\ Len(Moved(b, to, from, n)) = Len(b)
           /\ \A i \in 1 .. Len(b) : Moved(b, to, from, n)[i] =
                 IF to < i /\ i <= to + n THEN b[i - to + from] ELSE b[i]
<1>1. \A i \in 1 .. Len(b) : to < i /\ i <= to + n => i - to + from \in 1 .. Len(b)
    OBVIOUS
<1>2. \A i \in 1 .. Len(b) : b[i] \in Cell
    BY ElementOfSeq
<1> QED BY <1>1, <1>2 DEF Moved

-----------------------------------------------------------------------------
(* Bytes placed in a file *)

\* Where the append mode places n bytes in file m, and how many they replace.
PlaceIn(m)  == IF mode = "append" THEN Len(m.bytes) ELSE IF mode = "before" THEN 0 ELSE m.pos
Replaced(n) == IF mode \in {"append", "before", "insert"} THEN 0 ELSE n

\* Bytes d placed behind the first w bytes of c, in the place of e of them:
\* the file, its length if there are n of them, and its cells.
Spliced(c, w, d, e)      == SubSeq(c, 1, w) \o d \o SubSeq(c, w + 1 + e, Len(c))
SplicedLen(c, w, n, e)   == w + n + (IF w + e <= Len(c) THEN Len(c) - w - e ELSE 0)
SplicedAt(c, w, d, e, i) == IF i <= w THEN c[i]
                            ELSE IF i <= w + Len(d) THEN d[i - w]
                            ELSE c[i - Len(d) + e]

-----------------------------------------------------------------------------
(* One file *)

\* The position is moved to the place of the new bytes, where there is a hole of
\* n cells; the bytes before and behind it are those of the file.
LeavesHole(r, m, n) ==
    /\ r \in MemFile
    /\ r.open = m.open
    /\ r.pos = PlaceIn(m)
    /\ Len(r.bytes) = SplicedLen(m.bytes, PlaceIn(m), n, Replaced(n))
    /\ \A i \in 1 .. Len(r.bytes) :
          /\ i <= PlaceIn(m) => r.bytes[i] = m.bytes[i]
          /\ i > PlaceIn(m) + n => r.bytes[i] = m.bytes[i - n + Replaced(n)]

\* That is what Room does, in every append mode.
LEMMA RoomCells ==
    ASSUME NEW m, Good(m), NEW n \in Nat, mode \in Modes
    PROVE  LeavesHole(Room(m, n), m, n)
<1> DEFINE b == m.bytes  size == Len(b)  pos == m.pos  grown == Resized(b, size + n)
<1>1. /\ m \in MemFile /\ b \in Seq(Byte) /\ b \in Seq(Cell)
      /\ pos \in Nat /\ pos <= size /\ m.open \in BOOLEAN
    BY DEF Good, MemFile
<1>2. size \in Nat
    BY <1>1
<1> HIDE DEF size, b, pos
<1>3. /\ grown \in Seq(Cell) /\ Len(grown) = size + n
      /\ \A i \in 1 .. size : grown[i] = b[i]
    <2>1. size + n \in Nat
        BY <1>2
    <2>2. /\ grown \in Seq(Cell) /\ Len(grown) = size + n
          /\ \A i \in 1 .. size + n : grown[i] = IF i <= Len(b) THEN b[i] ELSE Junk
        BY <1>1, <2>1, ResizedType
    <2> HIDE DEF grown
    <2> QED BY <1>2, <2>2 DEF size
<1>4. \A w, e : SplicedLen(b, w, n, e) = w + n + (IF w + e <= size THEN size - w - e ELSE 0)
    BY DEF SplicedLen, size
<1>5. ASSUME NEW c \in Seq(Cell), NEW p \in Nat, NEW e,
             Room(m, n) = [open |-> m.open, bytes |-> c, pos |-> p],
             PlaceIn(m) = p, Replaced(n) = e, Len(c) = SplicedLen(b, p, n, e),
             \A i \in 1 .. Len(c) : /\ i <= p => c[i] = b[i]
                                    /\ i > p + n => c[i] = b[i - n + e]
      PROVE  LeavesHole(Room(m, n), m, n)
    BY <1>1, <1>5 DEF MemFile, LeavesHole, b
<1>6. CASE mode = "append"
    <2>1. Room(m, n) = [open |-> m.open, bytes |-> grown, pos |-> size]
        BY <1>1, <1>6 DEF Room, MemFile, b, size
    <2>2. PlaceIn(m) = size /\ Replaced(n) = 0
        BY <1>6 DEF PlaceIn, Replaced, size, b
    <2> HIDE DEF grown
    <2>3. Len(grown) = SplicedLen(b, size, n, 0)
        BY <1>2, <1>3, <1>4
    <2>4. \A i \in 1 .. Len(grown) : /\ i <= size => grown[i] = b[i]
                                     /\ i > size + n => grown[i] = b[i - n + 0]
        BY <1>2, <1>3
    <2> QED BY <2>1, <2>2, <2>3, <2>4, <1>2, <1>3, <1>5
<1>7. CASE mode = "before"
    <2> DEFINE moved == Moved(grown, n, 0, size)
    <2>1. Room(m, n) = [open |-> m.open, bytes |-> moved, pos |-> 0]
        BY <1>1, <1>7 DEF Room, MemFile, b, size
    <2>2. PlaceIn(m) = 0 /\ Replaced(n) = 0
        BY <1>7 DEF PlaceIn, Replaced
    <2> HIDE DEF grown
    <2>3. /\ moved \in Seq(Cell) /\ Len(moved) = Len(grown)
          /\ \A i \in 1 .. Len(grown) :
                moved[i] = IF n < i /\ i <= n + size THEN grown[i - n + 0] ELSE grown[i]
        <3>1. n + size <= Len(grown) /\ 0 <= n
            BY <1>2, <1>3
        <3> QED BY <1>2, <1>3, <3>1, MovedType
    <2> HIDE DEF moved
    <2>4. \A i \in 1 .. Len(moved) : /\ i <= 0 => moved[i] = b[i]
                                     /\ i > 0 + n => moved[i] = b[i - n + 0]
        BY <2>3, <1>2, <1>3
    <2>5. Len(moved) = SplicedLen(b, 0, n, 0)
        BY <2>3, <1>2, <1>3, <1>4
    <2> QED BY <2>1, <2>2, <2>3, <2>4, <2>5, <1>5
<1>8. CASE mode = "insert"
    <2> DEFINE to == pos + n  rest == size - pos  moved == Moved(grown, to, pos, rest)
    <2>1. Room(m, n) = [open |-> m.open, bytes |-> moved, pos |-> pos]
        BY <1>1, <1>8 DEF Room, MemFile, b, size, pos
    <2>2. PlaceIn(m) = pos /\ Replaced(n) = 0
        BY <1>8 DEF PlaceIn, Replaced, pos
    <2> HIDE DEF grown
    <2>3. /\ moved \in Seq(Cell) /\ Len(moved) = Len(grown)
          /\ \A i \in 1 .. Len(grown) :
                moved[i] = IF to < i /\ i <= to + rest THEN grown[i - to + pos] ELSE grown[i]
        <3>1. to \in Nat /\ rest \in Nat /\ to + rest <= Len(grown) /\ pos <= to
            BY <1>1, <1>2, <1>3
        <3>2. grown \in Seq(Cell) /\ pos \in Nat
            BY <1>1, <1>3
        <3> HIDE DEF to, rest
        <3> QED BY <3>1, <3>2, MovedType
    <2> HIDE DEF moved
    <2>4. ASSUME NEW i \in 1 .. Len(moved)
          PROVE  (i <= pos => moved[i] = b[i]) /\ (i > pos + n => moved[i] = b[i - n + 0])
        <3>1. CASE i <= pos
            BY <3>1, <2>3, <1>1, <1>2, <1>3
        <3>2. CASE i > pos + n
            <4>1. moved[i] = grown[i - n] /\ i - n \in 1 .. size
                BY <3>2, <2>3, <1>1, <1>2, <1>3
            <4> QED BY <3>2, <4>1, <1>1, <1>3
        <3> QED BY <3>1, <3>2, <1>1
    <2>5. Len(moved) = SplicedLen(b, pos, n, 0)
        BY <2>3, <1>1, <1>2, <1>3, <1>4
    <2> QED BY <2>1, <2>2, <2>3, <2>4, <2>5, <1>1, <1>5
<1>9. CASE mode \in {"none", "overwrite"}
    <2> HIDE DEF grown
    <2>1. PlaceIn(m) = pos /\ Replaced(n) = n
        BY <1>9 DEF PlaceIn, Replaced, pos
    <2>2. CASE pos + n > size
        <3> DEFINE c == Resized(b, pos + n)
        <3>1. Room(m, n) = [open |-> m.open, bytes |-> c, pos |-> pos]
            BY <1>1, <1>9, <2>2 DEF Room, MemFile, b, size, pos
        <3>2. /\ c \in Seq(Cell) /\ Len(c) = pos + n
              /\ \A i \in 1 .. pos + n : c[i] = IF i <= Len(b) THEN b[i] ELSE Junk
            <4>1. pos + n \in Nat
                BY <1>1
            <4> QED BY <1>1, <4>1, ResizedType
        <3> HIDE DEF c
        <3>3. \A i \in 1 .. Len(c) : /\ i <= pos => c[i] = b[i]
                                     /\ i > pos + n => c[i] = b[i - n + n]
            BY <3>2, <1>1, <1>2 DEF size
        <3>4. Len(c) = SplicedLen(b, pos, n, n)
            BY <3>2, <2>2, <1>1, <1>2, <1>4
        <3> QED BY <2>1, <3>1, <3>2, <3>3, <3>4, <1>1, <1>5
    <2>3. CASE ~(pos + n > size)
        <3>1. Room(m, n) = [open |-> m.open, bytes |-> b, pos |-> pos]
            BY <1>9, <2>3, <1>1 DEF Room, b, size, pos, MemFile
        <3>2. \A i \in 1 .. Len(b) : i - n + n = i
            OBVIOUS
        <3>3. size = SplicedLen(b, pos, n, n)
            BY <2>3, <1>1, <1>2, <1>4
        <3> QED BY <2>1, <3>1, <3>2, <3>3, <1>1, <1>5 DEF size
    <2> QED BY <2>2, <2>3
<1> QED BY <1>6, <1>7, <1>8, <1>9 DEF Modes

\* Where bytes are placed is in the file.
LEMMA PlaceInside ==
    ASSUME NEW m, Good(m)
    PROVE  /\ m.bytes \in Seq(Byte) /\ Len(m.bytes) \in Nat
           /\ PlaceIn(m) \in 0 .. Len(m.bytes)
           /\ m.bytes = <<>> => PlaceIn(m) = 0
<1>1. /\ m.bytes \in Seq(Byte) /\ m.pos \in Nat /\ m.pos <= Len(m.bytes)
      /\ Len(m.bytes) \in Nat /\ (m.bytes = <<>> => Len(m.bytes) = 0)
    BY DEF Good, MemFile
<1> QED BY <1>1 DEF PlaceIn

\* All cells but those of the hole are written.
LEMMA RoomType ==
    ASSUME NEW m, Good(m), NEW n \in Nat, mode \in Modes
    PROVE  /\ Room(m, n) \in MemFile
           /\ Room(m, n).open = m.open
           /\ Room(m, n).pos + n <= Len(Room(m, n).bytes)
           /\ \A i \in 1 .. Len(Room(m, n).bytes) :
                 \/ Room(m, n).bytes[i] \in Byte
                 \/ Room(m, n).pos < i /\ i <= Room(m, n).pos + n
           /\ m.bytes = <<>> => Room(m, n).pos = 0
<1> DEFINE r == Room(m, n)  w == PlaceIn(m)  e == Replaced(n)  size == Len(m.bytes)
<1>1. /\ r \in MemFile /\ r.open = m.open /\ r.pos = w
      /\ Len(r.bytes) = SplicedLen(m.bytes, w, n, e)
      /\ \A i \in 1 .. Len(r.bytes) : /\ i <= w => r.bytes[i] = m.bytes[i]
                                      /\ i > w + n => r.bytes[i] = m.bytes[i - n + e]
    BY RoomCells DEF LeavesHole
<1>2. /\ m.bytes \in Seq(Byte) /\ size \in Nat /\ w \in 0 .. size
      /\ (m.bytes = <<>> => w = 0) /\ e \in Nat
    BY PlaceInside DEF Replaced
<1>3. \A i \in 1 .. size : m.bytes[i] \in Byte
    BY <1>2, ElementOfSeq
<1> HIDE DEF r, w, e
<1>4. Len(r.bytes) = w + n + (IF w + e <= size THEN size - w - e ELSE 0)
    BY <1>1 DEF SplicedLen
<1> HIDE DEF size
<1>5. w + n <= Len(r.bytes)
    BY <1>2, <1>4
<1>6. ASSUME NEW i \in 1 .. Len(r.bytes), ~(w < i /\ i <= w + n) PROVE r.bytes[i] \in Byte
    <2>1. CASE i <= w
        BY <1>1, <1>2, <1>3, <2>1
    <2>2. CASE i > w + n
        <3>1. i - n + e \in 1 .. size
            BY <1>2, <1>4, <2>2
        <3> QED BY <1>1, <1>3, <2>2, <3>1
    <2> QED BY <1>2, <1>6, <2>1, <2>2
<1> QED BY <1>1, <1>2, <1>5, <1>6 DEF r, w

\* What replacing fields of a file yields.
LEMMA Fields ==
    ASSUME NEW m \in MemFile, NEW c, NEW p, NEW r
    PROVE  /\ r = [m EXCEPT !.pos = p] => r = [open |-> m.open, bytes |-> m.bytes, pos |-> p]
           /\ r = [m EXCEPT !.bytes = c] => r = [open |-> m.open, bytes |-> c, pos |-> m.pos]
           /\ r = [m EXCEPT !.open = TRUE, !.bytes = c]
                => r = [open |-> TRUE, bytes |-> c, pos |-> m.pos]
<1>1. r = [m EXCEPT !.pos = p] => r = [open |-> m.open, bytes |-> m.bytes, pos |-> p]
    BY DEF MemFile
<1>2. r = [m EXCEPT !.bytes = c] => r = [open |-> m.open, bytes |-> c, pos |-> m.pos]
    BY DEF MemFile
<1>3. r = [m EXCEPT !.open = TRUE, !.bytes = c] => r = [open |-> TRUE, bytes |-> c, pos |-> m.pos]
    BY DEF MemFile
<1> QED BY <1>1, <1>2, <1>3

\* A file whose bytes are all written and reach up to the position is good.
LEMMA FileGood ==
    ASSUME NEW o \in BOOLEAN, NEW c \in Seq(Byte), NEW p \in Nat, p <= Len(c),
           ~o => c = <<>>
    PROVE  Good([open |-> o, bytes |-> c, pos |-> p])
<1>1. c \in Seq(Cell)
    BY DEF Cell
<1> QED BY <1>1 DEF Good, MemFile

\* The same for a file that has a buffer.
LEMMA OpenGood ==
    ASSUME NEW c \in Seq(Byte), NEW p \in Nat, p <= Len(c)
    PROVE  Good([open |-> TRUE, bytes |-> c, pos |-> p])
<1>1. c \in Seq(Cell)
    BY DEF Cell
<1> QED BY <1>1 DEF Good, MemFile

\* Put fills the hole and leaves the position behind its bytes.
LEMMA WrittenGood ==
    ASSUME NEW m, Good(m), m.open, NEW d \in Data, mode \in Modes
    PROVE  Good(Written(m, d))
<1> DEFINE r == Room(m, Len(d))  c == Copied(r.bytes, r.pos, d)
<1>1. d \in Seq(Byte) /\ Len(d) \in Nat
    BY DataAssumption
<1>2. /\ r \in MemFile /\ r.open /\ r.pos + Len(d) <= Len(r.bytes)
      /\ \A i \in 1 .. Len(r.bytes) : r.bytes[i] \in Byte \/ (r.pos < i /\ i <= r.pos + Len(d))
    BY <1>1, RoomType
<1>3. Written(m, d) = [r EXCEPT !.bytes = c, !.pos = r.pos + Len(d)]
    BY DEF Written
<1> HIDE DEF r
<1>4. c \in Seq(Byte) /\ Len(c) = Len(r.bytes) /\ r.pos \in Nat
    BY <1>1, <1>2, CopiedType DEF MemFile
<1> DEFINE p == r.pos + Len(d)
<1>5. Written(m, d) = [open |-> TRUE, bytes |-> c, pos |-> p]
    BY <1>2, <1>3 DEF MemFile
<1>6. p \in Nat /\ p <= Len(c)
    BY <1>1, <1>2, <1>4
<1> HIDE DEF c, p
<1> QED BY <1>4, <1>5, <1>6, OpenGood

\* So does Log, except in mode "insert".
LEMMA DumpedGood ==
    ASSUME NEW m, Good(m), NEW d \in Data, NEW takes \in BOOLEAN, mode \in Modes \ {"insert"}
    PROVE  Good(Dumped(m, d, takes))
<1> DEFINE r == IF mode = "none" THEN [m EXCEPT !.pos = 0, !.bytes = Resized(@, Len(d))]
                ELSE Room(m, Len(d))
<1>1. d \in Seq(Byte) /\ Len(d) \in Nat
    BY DataAssumption
<1>2. /\ r \in MemFile /\ r.pos + Len(d) <= Len(r.bytes)
      /\ \A i \in 1 .. Len(r.bytes) : r.bytes[i] \in Byte \/ (r.pos < i /\ i <= r.pos + Len(d))
      /\ ~m.open => r.pos = 0
    <2>1. CASE mode = "none"
        <3> DEFINE c == Resized(m.bytes, Len(d))
        <3>1. m.bytes \in Seq(Cell) /\ m \in MemFile
            BY DEF Good, MemFile
        <3>2. c \in Seq(Cell) /\ Len(c) = Len(d)
            BY <1>1, <3>1, ResizedType
        <3>3. r = [open |-> m.open, bytes |-> c, pos |-> 0]
            BY <2>1, <3>1 DEF MemFile
        <3> HIDE DEF c, r
        <3> QED BY <1>1, <3>1, <3>2, <3>3 DEF MemFile
    <2>2. CASE mode # "none"
        <3>1. r = Room(m, Len(d))
            BY <2>2
        <3> HIDE DEF r
        <3> QED BY <3>1, <1>1, RoomType DEF Good
    <2> QED BY <2>1, <2>2
<1>3. Dumped(m, d, takes) = IF takes /\ ~m.open
        THEN [r EXCEPT !.open = TRUE, !.bytes = Copied(@, 0, d)]
        ELSE [r EXCEPT !.open = TRUE, !.bytes = Copied(@, r.pos, d),
                       !.pos = IF mode = "none" THEN @ ELSE @ + Len(d)]
    BY DEF Dumped
<1> HIDE DEF r
<1> DEFINE c == Copied(r.bytes, r.pos, d)
<1>4. c \in Seq(Byte) /\ Len(c) = Len(r.bytes) /\ r.pos \in Nat
    BY <1>1, <1>2, CopiedType DEF MemFile
<1>5. CASE takes /\ ~m.open
    <2>1. Dumped(m, d, takes) = [open |-> TRUE, bytes |-> c, pos |-> r.pos]
        BY <1>2, <1>3, <1>5 DEF MemFile
    <2>2. r.pos <= Len(c)
        BY <1>1, <1>2, <1>4
    <2> HIDE DEF c
    <2> QED BY <1>4, <2>1, <2>2, OpenGood
<1>6. CASE ~(takes /\ ~m.open)
    <2> DEFINE p == IF mode = "none" THEN r.pos ELSE r.pos + Len(d)
    <2>1. Dumped(m, d, takes) = [open |-> TRUE, bytes |-> c, pos |-> p]
        BY <1>2, <1>3, <1>6 DEF MemFile
    <2>2. p \in Nat /\ p <= Len(c)
        BY <1>1, <1>2, <1>4 DEF MemFile
    <2> HIDE DEF c, p
    <2> QED BY <1>4, <2>1, <2>2, OpenGood
<1> QED BY <1>5, <1>6

\* A seek that succeeds ends inside the file.
LEMMA SoughtGood ==
    ASSUME NEW m, Good(m), NEW p \in Int, Reachable(m, p), mode \in Modes
    PROVE  Good(Sought(m, p))
<1>1. /\ m \in MemFile /\ m.bytes \in Seq(Byte) /\ m.open \in BOOLEAN
      /\ m.pos \in Nat /\ m.pos <= Len(m.bytes) /\ Len(m.bytes) \in Nat
      /\ ~m.open => m.bytes = <<>>
    BY DEF Good, MemFile
<1>2. CASE p \in 0 .. Len(m.bytes)
    <2>1. Sought(m, p) = [open |-> m.open, bytes |-> m.bytes, pos |-> p]
        BY <1>1, <1>2 DEF Sought, MemFile
    <2> QED BY <1>1, <1>2, <2>1, FileGood
<1>3. CASE p \notin 0 .. Len(m.bytes) /\ mode = "append"
    <2>1. Sought(m, p) = [open |-> m.open, bytes |-> m.bytes, pos |-> Len(m.bytes)]
        BY <1>1, <1>3 DEF Sought, MemFile
    <2> QED BY <1>1, <2>1, FileGood
<1>4. CASE p \notin 0 .. Len(m.bytes) /\ mode # "append"
    <2> DEFINE c == Cleared(m.bytes, p)
    <2>1. p \in Nat
        BY <1>1, <1>4 DEF Reachable
    <2>2. c \in Seq(Byte) /\ Len(c) = p
        BY <1>1, <2>1, ClearedType
    <2>3. Sought(m, p) = [open |-> TRUE, bytes |-> c, pos |-> p]
        BY <1>1, <1>4 DEF Sought, MemFile
    <2> HIDE DEF c
    <2>4. p <= Len(c)
        BY <2>1, <2>2
    <2> QED BY <2>1, <2>2, <2>3, <2>4, OpenGood
<1> QED BY <1>2, <1>3, <1>4
-----------------------------------------------------------------------------
(* The invariant *)

\* Replacing one file by a good one.
LEMMA SetGood ==
    ASSUME NEW M, AllGood(M), NEW f \in Files, NEW m, Good(m)
    PROVE  AllGood([M EXCEPT ![f] = m])
<1>1. m \in MemFile
    BY DEF Good
<1> QED BY <1>1 DEF AllGood

\* Reading n bytes moves the position behind them.
LEMMA ReadGood ==
    ASSUME NEW m, Good(m), m.open, NEW n \in Nat, m.pos + n <= Len(m.bytes)
    PROVE  Good([m EXCEPT !.pos = @ + n])
<1> DEFINE p == m.pos + n
<1>1. /\ m \in MemFile /\ m.open \in BOOLEAN /\ m.bytes \in Seq(Byte)
      /\ p \in Nat /\ p <= Len(m.bytes)
    BY DEF Good, MemFile
<1> DEFINE r == [m EXCEPT !.pos = p]
<1>2. r = [m EXCEPT !.pos = p] /\ r = [m EXCEPT !.pos = @ + n]
    OBVIOUS
<1> HIDE DEF p, r
<1>3. r = [open |-> m.open, bytes |-> m.bytes, pos |-> p]
    BY <1>1, <1>2, Fields
<1>4. Good(r)
    BY <1>1, <1>3, FileGood DEF Good
<1> QED BY <1>2, <1>4

\* The commands of a script, Log in insert mode excepted, keep the invariant.
LEMMA Inductive == IInv /\ [PlainNext]_vars => IInv'
<1> SUFFICES ASSUME IInv, [PlainNext]_vars PROVE IInv'
    OBVIOUS
<1>0. AllGood(mem) /\ (\A f \in Files : Good(mem[f])) /\ mode \in Modes /\ st \in {"run", "exit"}
    BY DEF IInv, AllGood
<1>1. ASSUME NEW f \in Files, NEW m, Set(f, m), Good(m) PROVE IInv'
    <2>1. AllGood(mem') /\ UNCHANGED <<mode, st>>
        BY <1>0, <1>1, SetGood DEF Set
    <2> QED BY <1>0, <2>1 DEF IInv, AllGood, Good
<1>2. ASSUME Exit PROVE IInv'
    BY <1>0, <1>2 DEF Exit, IInv, AllGood, Good
<1>3. CASE Append_
    BY <1>0, <1>3 DEF Append_, Modes, IInv, AllGood, Good
<1>4. CASE Restart
    <2>1. ASSUME NEW f \in Files PROVE Good(mem'[f]) /\ mem'[f] \in MemFile
        <3> DEFINE o == mem[f].open
        <3>1. o \in BOOLEAN /\ mem'[f] = [open |-> o, bytes |-> <<>>, pos |-> 0]
            BY <1>0, <1>4 DEF Restart, Good, MemFile
        <3> HIDE DEF o
        <3>2. <<>> \in Seq(Byte) /\ Len(<<>>) = 0
            OBVIOUS
        <3>3. Good(mem'[f])
            BY <3>1, <3>2 DEF Good, MemFile
        <3> QED BY <3>3 DEF Good
    <2>2. mem' \in [Files -> MemFile] /\ mode' \in Modes /\ st' = st
        BY <1>4, <2>1 DEF Restart, Modes
    <2> QED BY <1>0, <2>1, <2>2 DEF IInv, AllGood, Good
<1>5. ASSUME NEW f \in Files, Put(f) PROVE IInv'
    BY <1>0, <1>1, <1>2, <1>5, WrittenGood DEF Put
<1>6. ASSUME NEW f \in Files, Get(f) PROVE IInv'
    <2>1. 0 .. MaxSize \subseteq Nat
        BY MaxSizeAssumption
    <2> QED BY <1>0, <1>1, <1>2, <1>6, <2>1, ReadGood DEF Get
<1>7. ASSUME NEW f \in Files, GoTo(f) PROVE IInv'
    <2>1. PICK offset \in Offsets :
            LET end == Len(mem[f].bytes) + (IF offset > 0 THEN -offset ELSE offset)
            IN  \E p \in {offset, mem[f].pos + offset, end} :
                    IF Reachable(mem[f], p) THEN Set(f, Sought(mem[f], p)) ELSE Exit
        BY <1>7 DEF GoTo
    <2>2. PICK p \in Int : IF Reachable(mem[f], p) THEN Set(f, Sought(mem[f], p)) ELSE Exit
        <3>1. offset \in Int /\ mem[f].pos \in Int /\ Len(mem[f].bytes) \in Int
            BY <1>0, OffsetsAssumption DEF MemFile, Good
        <3> QED BY <2>1, <3>1
    <2> QED BY <1>0, <1>1, <1>2, <2>2, SoughtGood
<1>8. ASSUME NEW f \in Files, PutVarChr(f) PROVE IInv'
    <2> DEFINE m == mem[f]
    <2>1. PICK offset \in Offsets, d \in Data :
            LET at == IF offset < 0 THEN Len(m.bytes) + offset ELSE offset
            IN  IF at < 0 THEN Exit
                ELSE IF at + Len(d) > Len(m.bytes)
                THEN Set(f, [m EXCEPT !.open = TRUE, !.bytes = Copied(Cleared(@, at + Len(d)), at, d)])
                ELSE Set(f, [m EXCEPT !.bytes = Copied(@, at, d)])
        BY <1>8 DEF PutVarChr
    <2> DEFINE at == IF offset < 0 THEN Len(m.bytes) + offset ELSE offset  n == at + Len(d)
               grown == Cleared(m.bytes, n)
    <2>2. /\ m \in MemFile /\ m.open \in BOOLEAN /\ m.bytes \in Seq(Byte) /\ m.bytes \in Seq(Cell)
          /\ m.pos \in Nat /\ m.pos <= Len(m.bytes) /\ (~m.open => m.bytes = <<>>)
          /\ Len(m.bytes) \in Nat /\ (m.bytes = <<>> => Len(m.bytes) = 0)
        BY <1>0 DEF MemFile, Good
    <2>3. d \in Seq(Byte) /\ Len(d) \in Nat /\ at \in Int
        BY <2>2, DataAssumption, OffsetsAssumption
    <2>4. \A i \in 1 .. Len(m.bytes) : m.bytes[i] \in Byte
        BY <2>2, ElementOfSeq
    <2> HIDE DEF m
    <2>5. CASE at < 0
        BY <1>2, <2>1, <2>5
    <2>6. CASE at >= 0 /\ n > Len(m.bytes)
        <3> DEFINE c == Copied(grown, at, d)
        <3>1. Set(f, [m EXCEPT !.open = TRUE, !.bytes = c])
            BY <2>1, <2>3, <2>6
        <3> HIDE DEF at
        <3>2. at \in Nat /\ n \in Nat
            BY <2>3, <2>6
        <3>3. grown \in Seq(Byte) /\ Len(grown) = n
            BY <2>2, <3>2, ClearedType
        <3> HIDE DEF grown
        <3>4. grown \in Seq(Cell) /\ \A i \in 1 .. Len(grown) : grown[i] \in Byte
            BY <3>3, ElementOfSeq DEF Cell
        <3>5. c \in Seq(Byte) /\ Len(c) = Len(grown)
            BY <2>3, <3>2, <3>4, CopiedType
        <3>6. m.pos <= Len(c)
            BY <2>2, <2>6, <3>2, <3>3, <3>5
        <3> HIDE DEF c, n
        <3>7. SUFFICES ASSUME NEW r, r = [m EXCEPT !.open = TRUE, !.bytes = c] PROVE Good(r)
            BY <1>1, <3>1
        <3>8. r = [open |-> TRUE, bytes |-> c, pos |-> m.pos]
            BY <2>2, <3>7, Fields
        <3> QED BY <2>2, <3>5, <3>6, <3>8, OpenGood
    <2>7. CASE at >= 0 /\ ~(n > Len(m.bytes))
        <3> DEFINE c == Copied(m.bytes, at, d)
        <3>1. Set(f, [m EXCEPT !.bytes = c])
            BY <2>1, <2>3, <2>7
        <3> HIDE DEF at
        <3>2. at \in Nat
            BY <2>3, <2>7
        <3>3. c \in Seq(Byte) /\ Len(c) = Len(m.bytes)
            BY <2>2, <2>3, <2>4, <3>2, CopiedType
        <3> HIDE DEF c
        <3>4. m.pos <= Len(c) /\ (~m.open => c = <<>>)
            BY <2>2, <3>3
        <3>5. SUFFICES ASSUME NEW r, r = [m EXCEPT !.bytes = c] PROVE Good(r)
            BY <1>1, <3>1
        <3>6. r = [open |-> m.open, bytes |-> c, pos |-> m.pos]
            BY <2>2, <3>5, Fields
        <3> QED BY <2>2, <3>3, <3>4, <3>6, FileGood
    <2> QED BY <2>3, <2>5, <2>6, <2>7
<1>9. ASSUME NEW f \in Files, mode # "insert", Dump(f) PROVE IInv'
    <2>1. mode \in Modes \ {"insert"} /\ Good(mem[f])
        BY <1>0, <1>9
    <2> QED BY <1>1, <1>9, <2>1, DumpedGood DEF Dump
<1>10. ASSUME NEW src \in Files, NEW dst \in Files, mode # "insert", LogFrom(src, dst) PROVE IInv'
    <2>1. CASE Exit
        BY <1>2, <2>1
    <2>2. CASE ~Exit
        <3>1. PICK offset \in Offsets, n \in 0 .. MaxSize :
                LET old    == mem[src].pos
                    sought == [mem EXCEPT ![src] = Sought(@, offset)]
                    d      == SubSeq(sought[src].bytes, sought[src].pos + 1, sought[src].pos + n)
                    read   == [sought EXCEPT ![src].pos = @ + n]
                    dumped == [read EXCEPT ![dst] = Dumped(@, d, TRUE)]
                IN  IF \/ ~Reachable(mem[src], offset)
                       \/ ~sought[src].open \/ sought[src].pos + n > Len(sought[src].bytes)
                       \/ ~Reachable(dumped[src], old)
                    THEN Exit
                    ELSE /\ d \in Data
                         /\ mem' = [dumped EXCEPT ![src] = Sought(@, old)]
                         /\ \A f \in Files : Fits(mem'[f])
                         /\ UNCHANGED <<mode, st>>
            BY <1>10 DEF LogFrom
        <3> DEFINE old    == mem[src].pos
                   m      == Sought(mem[src], offset)
                   sought == [mem EXCEPT ![src] = m]
                   d      == SubSeq(m.bytes, m.pos + 1, m.pos + n)
                   r      == [m EXCEPT !.pos = @ + n]
                   read   == [sought EXCEPT ![src] = r]
                   dumped == [read EXCEPT ![dst] = Dumped(read[dst], d, TRUE)]
                   back   == Sought(dumped[src], old)
        <3>2. offset \in Int /\ n \in Nat /\ old \in Int
            BY <1>0, OffsetsAssumption, MaxSizeAssumption DEF Good, MemFile
        <3>3. sought[src] = m /\ read = [sought EXCEPT ![src].pos = @ + n]
            BY <1>0 DEF AllGood
        <3>4. /\ Reachable(mem[src], offset) /\ m.open /\ ~(m.pos + n > Len(m.bytes))
              /\ Reachable(dumped[src], old) /\ d \in Data
              /\ mem' = [dumped EXCEPT ![src] = back] /\ UNCHANGED <<mode, st>>
            BY <2>2, <3>1, <3>3
        <3> HIDE DEF old
        <3>5. AllGood(sought) /\ Good(m)
            BY <1>0, <3>2, <3>4, SoughtGood, SetGood
        <3> HIDE DEF m
        <3>6. Good(r)
            <4>1. m.pos + n <= Len(m.bytes)
                BY <3>2, <3>4, <3>5 DEF Good, MemFile
            <4> QED BY <3>2, <3>4, <3>5, <4>1, ReadGood
        <3> HIDE DEF r, sought, d
        <3>7. AllGood(read)
            BY <3>5, <3>6, SetGood
        <3> HIDE DEF read
        <3>8. AllGood(dumped)
            <4>1. Good(read[dst]) /\ mode \in Modes \ {"insert"}
                BY <1>0, <1>10, <3>7 DEF AllGood
            <4>2. Good(Dumped(read[dst], d, TRUE))
                BY <3>4, <4>1, DumpedGood
            <4> QED BY <3>7, <4>2, SetGood
        <3> HIDE DEF dumped
        <3>9. Good(back)
            <4>1. Good(dumped[src])
                BY <3>8 DEF AllGood
            <4> QED BY <1>0, <3>2, <3>4, <4>1, SoughtGood
        <3> HIDE DEF back
        <3>10. AllGood(mem')
            BY <3>4, <3>8, <3>9, SetGood
        <3> QED BY <1>0, <3>4, <3>10 DEF IInv, AllGood, Good
    <2> QED BY <2>1, <2>2
<1>11. CASE UNCHANGED vars
    BY <1>0, <1>11 DEF vars, IInv, AllGood, Good
<1> QED BY <1>3, <1>4, <1>5, <1>6, <1>7, <1>8, <1>9, <1>10, <1>11
        DEF PlainNext, Logging, Other, Terminated

\* The invariant holds at every step of such a script.
THEOREM Invariant == PlainSpec => []IInv
<1>1. Init => IInv
    <2> SUFFICES ASSUME Init PROVE IInv
        OBVIOUS
    <2>1. \A f \in Files : mem[f] = [open |-> FALSE, bytes |-> <<>>, pos |-> 0]
        BY DEF Init
    <2>2. <<>> \in Seq(Byte) /\ FALSE \in BOOLEAN /\ 0 \in Nat /\ 0 <= Len(<<>>)
        OBVIOUS
    <2>3. \A f \in Files : Good(mem[f])
        BY <2>1, <2>2, FileGood
    <2>4. \A f \in Files : mem[f] \in MemFile
        BY <2>3 DEF Good
    <2> QED BY <2>3, <2>4 DEF Init, IInv, AllGood, Modes
<1> QED BY <1>1, Inductive, PTL DEF PlainSpec

\* The variables keep their types.
THEOREM MemTypeCorrect == PlainSpec => []TypeOK
<1>1. IInv => TypeOK
    BY DEF IInv, AllGood, TypeOK
<1> QED BY <1>1, Invariant, PTL

\* No file holds a byte that nobody wrote.
THEOREM MemNothingUnwritten == PlainSpec => []NothingUnwritten
<1>1. IInv => NothingUnwritten
    <2> SUFFICES ASSUME IInv, NEW f \in Files, NEW i \in DOMAIN mem[f].bytes
                 PROVE  mem[f].bytes[i] \in Byte
        BY DEF NothingUnwritten
    <2>1. mem[f].bytes \in Seq(Byte)
        BY DEF IInv, AllGood, Good
    <2> QED BY <2>1, ElementOfSeq
<1> QED BY <1>1, Invariant, PTL

\* No position leaves its file.
THEOREM MemPosInside == PlainSpec => []PosInside
<1>1. IInv => PosInside
    BY DEF IInv, AllGood, Good, PosInside
<1> QED BY <1>1, Invariant, PTL
-----------------------------------------------------------------------------
(* The files of the manual: what each command does to the bytes of a file,  *)
(* and that ByteFile allows it.                                              *)

\* The spliced file, cell by cell.
LEMMA SplicedCells ==
    ASSUME NEW c \in Seq(Byte), NEW w \in 0 .. Len(c), NEW d \in Seq(Byte), NEW e \in Nat
    PROVE  /\ Spliced(c, w, d, e) \in Seq(Byte)
           /\ Len(Spliced(c, w, d, e)) = SplicedLen(c, w, Len(d), e)
           /\ \A i \in 1 .. SplicedLen(c, w, Len(d), e) : Spliced(c, w, d, e)[i] = SplicedAt(c, w, d, e, i)
<1> DEFINE k == w + 1 + e
           x == SubSeq(c, 1, w)  y == SubSeq(c, k, Len(c))  xd == x \o d  r == xd \o y
<1>1. Len(c) \in Nat /\ w \in Nat /\ w <= Len(c) /\ Len(d) \in Nat /\ k \in Nat
    OBVIOUS
<1>2. \A i \in 1 .. Len(c) : c[i] \in Byte
    BY ElementOfSeq
<1>3. x \in Seq(Byte) /\ Len(x) = w /\ \A i \in 1 .. w : x[i] = c[i]
    <2>1. \A i \in 1 .. w : c[i] \in Byte
        BY <1>1, <1>2
    <2>2. /\ x \in Seq(Byte) /\ Len(x) = (IF 1 <= w THEN w - 1 + 1 ELSE 0)
          /\ \A i \in 1 .. w - 1 + 1 : x[i] = c[1 + i - 1]
        BY <1>1, <2>1, SubSeqProperties
    <2> HIDE DEF x
    <2> QED BY <1>1, <2>2
<1>4. /\ y \in Seq(Byte) /\ Len(y) = (IF w + e <= Len(c) THEN Len(c) - w - e ELSE 0)
      /\ \A i \in 1 .. Len(y) : y[i] = c[w + e + i]
    <2>1. \A i \in k .. Len(c) : c[i] \in Byte
        BY <1>1, <1>2
    <2> HIDE DEF k
    <2>2. /\ y \in Seq(Byte) /\ Len(y) = (IF k <= Len(c) THEN Len(c) - k + 1 ELSE 0)
          /\ \A i \in 1 .. Len(c) - k + 1 : y[i] = c[k + i - 1]
        BY <1>1, <2>1, SubSeqProperties
    <2> HIDE DEF y
    <2> QED BY <1>1, <2>2 DEF k
<1> HIDE DEF x, y
<1>5. /\ xd \in Seq(Byte) /\ Len(xd) = w + Len(d)
      /\ \A i \in 1 .. w + Len(d) : xd[i] = IF i <= w THEN x[i] ELSE d[i - w]
    BY <1>3, ConcatProperties
<1> HIDE DEF xd
<1>6. /\ r \in Seq(Byte) /\ Len(r) = Len(xd) + Len(y)
      /\ \A i \in 1 .. Len(xd) + Len(y) : r[i] = IF i <= Len(xd) THEN xd[i] ELSE y[i - Len(xd)]
    BY <1>4, <1>5, ConcatProperties
<1>7. r = Spliced(c, w, d, e)
    BY DEF Spliced, xd, x, y
<1> HIDE DEF r
<1>8. Len(r) = SplicedLen(c, w, Len(d), e)
    BY <1>1, <1>4, <1>5, <1>6 DEF SplicedLen
<1>9. ASSUME NEW i \in 1 .. Len(r) PROVE r[i] = SplicedAt(c, w, d, e, i)
    <2>1. CASE i <= w + Len(d)
        BY <1>1, <1>3, <1>5, <1>6, <2>1 DEF SplicedAt
    <2>2. CASE i > w + Len(d)
        <3> DEFINE j == i - (w + Len(d))
        <3>1. Len(y) \in Nat /\ Len(r) = w + Len(d) + Len(y)
            BY <1>4, <1>5, <1>6
        <3>2. j \in 1 .. Len(y)
            BY <1>1, <2>2, <3>1
        <3>3. r[i] = y[j]
            BY <1>1, <1>5, <1>6, <2>2
        <3>4. r[i] = c[w + e + j]
            BY <1>4, <3>2, <3>3
        <3>5. w + e + j = i - Len(d) + e
            BY <1>1
        <3> QED BY <1>1, <2>2, <3>4, <3>5 DEF SplicedAt
    <2> QED BY <1>1, <1>6, <2>1, <2>2
<1> QED BY <1>6, <1>7, <1>8, <1>9

\* A file with those cells is the spliced one.
LEMMA SplicedIs ==
    ASSUME NEW c \in Seq(Byte), NEW w \in 0 .. Len(c), NEW d \in Seq(Byte), NEW e \in Nat,
           NEW r \in Seq(Byte), Len(r) = SplicedLen(c, w, Len(d), e),
           \A i \in 1 .. Len(r) : r[i] = SplicedAt(c, w, d, e, i)
    PROVE  r = Spliced(c, w, d, e)
<1> DEFINE s == Spliced(c, w, d, e)
<1>1. /\ s \in Seq(Byte) /\ Len(s) = SplicedLen(c, w, Len(d), e)
      /\ \A i \in 1 .. SplicedLen(c, w, Len(d), e) : s[i] = SplicedAt(c, w, d, e, i)
    BY SplicedCells
<1> HIDE DEF s
<1>2. r = s
    BY <1>1, SeqEqual
<1> QED BY <1>2 DEF s

\* The cells behind the new bytes come from the file.
LEMMA KeptCell ==
    ASSUME NEW size \in Nat, NEW w \in Nat, w <= size, NEW n \in Nat, NEW e \in Nat,
           NEW i \in 1 .. w + n + (IF w + e <= size THEN size - w - e ELSE 0), i > w + n
    PROVE  i - n + e \in 1 .. size
OBVIOUS

\* Copying bytes into a hole splices them in.
LEMMA CopiedIs ==
    ASSUME NEW c \in Seq(Byte), NEW w \in 0 .. Len(c), NEW d \in Seq(Byte), NEW e \in Nat,
           NEW b \in Seq(Cell), Len(b) = SplicedLen(c, w, Len(d), e),
           \A i \in 1 .. Len(b) : /\ i <= w => b[i] = c[i]
                                  /\ i > w + Len(d) => b[i] = c[i - Len(d) + e]
    PROVE  Copied(b, w, d) = Spliced(c, w, d, e)
<1> DEFINE r == Copied(b, w, d)
<1>1. Len(c) \in Nat /\ w \in Nat /\ w <= Len(c) /\ Len(d) \in Nat
    OBVIOUS
<1>2. Len(b) = w + Len(d) + (IF w + e <= Len(c) THEN Len(c) - w - e ELSE 0)
    BY DEF SplicedLen
<1>3. \A i \in 1 .. Len(c) : c[i] \in Byte
    BY ElementOfSeq
<1>4. ASSUME NEW i \in 1 .. Len(b) PROVE b[i] \in Byte \/ (w < i /\ i <= w + Len(d))
    <2>1. CASE i <= w
        BY <1>1, <1>3, <2>1
    <2>2. CASE i > w + Len(d)
        <3>1. i - Len(d) + e \in 1 .. Len(c)
            BY <1>1, <1>2, <2>2, KeptCell
        <3> QED BY <1>3, <2>2, <3>1
    <2> QED BY <1>1, <2>1, <2>2
<1>5. r \in Seq(Byte) /\ Len(r) = Len(b)
    BY <1>1, <1>4, CopiedType
<1>6. \A i \in 1 .. Len(b) : r[i] = IF w < i /\ i <= w + Len(d) THEN d[i - w] ELSE b[i]
    BY DEF Copied
<1> HIDE DEF r
<1>7. \A i \in 1 .. Len(r) : r[i] = SplicedAt(c, w, d, e, i)
    BY <1>1, <1>5, <1>6 DEF SplicedAt
<1>8. r = Spliced(c, w, d, e)
    BY <1>5, <1>7, SplicedIs
<1> QED BY <1>8 DEF r

\* What a write leaves in a file, in every append mode.
LEMMA FilledIs ==
    ASSUME NEW m, Good(m), NEW d \in Seq(Byte), mode \in Modes
    PROVE  Copied(Room(m, Len(d)).bytes, PlaceIn(m), d)
                = Spliced(m.bytes, PlaceIn(m), d, Replaced(Len(d)))
<1> DEFINE r == Room(m, Len(d))  w == PlaceIn(m)  e == Replaced(Len(d))
<1>1. Len(d) \in Nat /\ e \in Nat
    BY DEF Replaced
<1>2. m.bytes \in Seq(Byte) /\ w \in 0 .. Len(m.bytes)
    BY PlaceInside
<1>3. LeavesHole(r, m, Len(d))
    BY <1>1, RoomCells
<1>4. /\ r.bytes \in Seq(Cell)
      /\ Len(r.bytes) = SplicedLen(m.bytes, w, Len(d), e)
      /\ \A i \in 1 .. Len(r.bytes) : /\ i <= w => r.bytes[i] = m.bytes[i]
                                      /\ i > w + Len(d) => r.bytes[i] = m.bytes[i - Len(d) + e]
    BY <1>3 DEF LeavesHole, MemFile
<1> HIDE DEF r, w, e
<1>5. Copied(r.bytes, w, d) = Spliced(m.bytes, w, d, e)
    BY <1>1, <1>2, <1>4, CopiedIs
<1> QED BY <1>5 DEF r, w, e

\* Nothing placed leaves the file as it is.
LEMMA SplicedNothing ==
    ASSUME NEW c \in Seq(Byte), NEW w \in 0 .. Len(c)
    PROVE  Spliced(c, w, <<>>, 0) = c
<1> DEFINE none == <<>>
<1>1. none \in Seq(Byte) /\ Len(none) = 0 /\ Len(c) \in Nat /\ 0 \in Nat
    OBVIOUS
<1> HIDE DEF none
<1>2. Len(c) = SplicedLen(c, w, Len(none), 0)
    BY <1>1 DEF SplicedLen
<1>3. \A i \in 1 .. Len(c) : c[i] = SplicedAt(c, w, none, 0, i)
    BY <1>1 DEF SplicedAt
<1>4. c = Spliced(c, w, none, 0)
    BY <1>1, <1>2, <1>3, SplicedIs
<1> QED BY <1>4 DEF none

\* Put writes at the place of the mode and goes on behind its bytes.
LEMMA WrittenIs ==
    ASSUME NEW m, Good(m), NEW d \in Data, mode \in Modes
    PROVE  /\ Written(m, d).bytes = Spliced(m.bytes, PlaceIn(m), d, Replaced(Len(d)))
           /\ Written(m, d).pos = PlaceIn(m) + Len(d)
<1> DEFINE r == Room(m, Len(d))
<1>1. d \in Seq(Byte) /\ Len(d) \in Nat
    BY DataAssumption
<1>2. r \in MemFile /\ r.pos = PlaceIn(m)
    BY <1>1, RoomCells DEF LeavesHole
<1>3. Written(m, d) = [r EXCEPT !.bytes = Copied(r.bytes, r.pos, d), !.pos = r.pos + Len(d)]
    BY DEF Written
<1> HIDE DEF r
<1>4. Written(m, d).bytes = Copied(r.bytes, r.pos, d) /\ Written(m, d).pos = r.pos + Len(d)
    BY <1>2, <1>3 DEF MemFile
<1> QED BY <1>1, <1>2, <1>4, FilledIs DEF r

\* Log writes what Put would, or replaces the file without an append mode.
LEMMA DumpedIs ==
    ASSUME NEW m, Good(m), NEW d \in Data, NEW takes \in BOOLEAN, mode \in Modes \ {"insert"}
    PROVE  Dumped(m, d, takes).bytes =
               IF mode = "none" THEN d ELSE Spliced(m.bytes, PlaceIn(m), d, Replaced(Len(d)))
<1>1. d \in Seq(Byte) /\ Len(d) \in Nat
    BY DataAssumption
<1>2. /\ m \in MemFile /\ m.bytes \in Seq(Byte) /\ m.bytes \in Seq(Cell)
      /\ (~m.open => m.bytes = <<>>)
    BY DEF Good, MemFile
<1>3. CASE mode = "none"
    <2> DEFINE b == Resized(m.bytes, Len(d))  c == Copied(b, 0, d)
    <2>1. b \in Seq(Cell) /\ Len(b) = Len(d)
        BY <1>1, <1>2, ResizedType
    <2>2. Dumped(m, d, takes).bytes = c
        BY <1>2, <1>3 DEF Dumped, MemFile
    <2> HIDE DEF b
    <2>3. c \in Seq(Byte) /\ Len(c) = Len(b)
        BY <1>1, <2>1, CopiedType
    <2>4. \A i \in 1 .. Len(b) : c[i] = d[i]
        BY <1>1, <2>1 DEF Copied
    <2> HIDE DEF c
    <2>5. c = d
        BY <1>1, <2>1, <2>3, <2>4, SeqEqual
    <2> QED BY <1>3, <2>2, <2>5
<1>4. CASE mode # "none"
    <2> DEFINE r == Room(m, Len(d))
    <2>1. r \in MemFile /\ r.pos = PlaceIn(m) /\ (~m.open => PlaceIn(m) = 0)
        BY <1>1, <1>2, RoomCells, PlaceInside DEF LeavesHole
    <2>2. Dumped(m, d, takes) = IF takes /\ ~m.open
            THEN [r EXCEPT !.open = TRUE, !.bytes = Copied(@, 0, d)]
            ELSE [r EXCEPT !.open = TRUE, !.bytes = Copied(@, r.pos, d), !.pos = @ + Len(d)]
        BY <1>4 DEF Dumped
    <2> HIDE DEF r
    <2>3. Dumped(m, d, takes).bytes = Copied(r.bytes, PlaceIn(m), d)
        BY <2>1, <2>2 DEF MemFile
    <2> QED BY <1>1, <1>4, <2>3, FilledIs DEF r
<1> QED BY <1>3, <1>4

\* The gap a seek fills, cell by cell.
LEMMA PaddedCells ==
    ASSUME NEW b \in Seq(Byte), NEW n \in Nat
    PROVE  /\ File!Padded(b, n) \in Seq(Byte)
           /\ Len(File!Padded(b, n)) = IF n > Len(b) THEN n ELSE Len(b)
           /\ \A i \in 1 .. Len(File!Padded(b, n)) :
                 File!Padded(b, n)[i] = IF i <= Len(b) THEN b[i] ELSE Zero
<1> DEFINE gap == [i \in 1 .. n - Len(b) |-> Zero]  r == b \o gap
<1>1. Len(b) \in Nat
    OBVIOUS
<1>2. CASE n > Len(b)
    <2>1. gap \in Seq(Byte) /\ Len(gap) = n - Len(b) /\ \A i \in 1 .. Len(gap) : gap[i] = Zero
        <3>1. n - Len(b) \in Nat
            BY <1>1, <1>2
        <3> QED BY <3>1, ByteAssumption
    <2> HIDE DEF gap
    <2>2. /\ r \in Seq(Byte) /\ Len(r) = Len(b) + Len(gap)
          /\ \A i \in 1 .. Len(b) + Len(gap) : r[i] = IF i <= Len(b) THEN b[i] ELSE gap[i - Len(b)]
        BY <2>1, ConcatProperties
    <2>3. File!Padded(b, n) = r
        BY DEF File!Padded, gap
    <2> HIDE DEF r
    <2>4. Len(r) = n
        BY <1>1, <2>1, <2>2
    <2>5. ASSUME NEW i \in 1 .. Len(r) PROVE r[i] = IF i <= Len(b) THEN b[i] ELSE Zero
        <3>1. CASE i <= Len(b)
            BY <1>1, <2>2, <2>4, <3>1
        <3>2. CASE ~(i <= Len(b))
            <4>1. i - Len(b) \in 1 .. Len(gap) /\ i \in 1 .. Len(b) + Len(gap)
                BY <1>1, <2>1, <2>4, <3>2
            <4>2. r[i] = gap[i - Len(b)] /\ gap[i - Len(b)] = Zero
                BY <2>1, <2>2, <3>2, <4>1
            <4> QED BY <3>2, <4>2
        <3> QED BY <3>1, <3>2
    <2> QED BY <1>2, <2>2, <2>3, <2>4, <2>5
<1>3. CASE ~(n > Len(b))
    <2>1. gap = <<>>
        BY <1>1, <1>3
    <2>2. File!Padded(b, n) = b
        BY <2>1, ConcatEmptySeq DEF File!Padded
    <2> QED BY <1>1, <1>3, <2>2
<1> QED BY <1>2, <1>3

\* Clearing pads.
LEMMA ClearedIs ==
    ASSUME NEW b \in Seq(Byte), NEW n \in Nat, n >= Len(b)
    PROVE  Cleared(b, n) = File!Padded(b, n)
<1> DEFINE c == Cleared(b, n)  r == File!Padded(b, n)
<1>1. c \in Seq(Byte) /\ Len(c) = n /\ Len(b) \in Nat
    BY ClearedType
<1>2. \A i \in 1 .. n : c[i] = IF i <= Len(b) THEN b[i] ELSE Zero
    BY DEF Cleared
<1>3. /\ r \in Seq(Byte) /\ Len(r) = (IF n > Len(b) THEN n ELSE Len(b))
      /\ \A i \in 1 .. Len(r) : r[i] = IF i <= Len(b) THEN b[i] ELSE Zero
    BY PaddedCells
<1> HIDE DEF c, r
<1>4. c = r
    <2>1. Len(c) = Len(r)
        BY <1>1, <1>3
    <2>2. \A i \in 1 .. Len(c) : c[i] = r[i]
        BY <1>1, <1>2, <1>3, <2>1
    <2> QED BY <1>1, <1>3, <2>1, <2>2, SeqEqual
<1> QED BY <1>4 DEF c, r

\* A seek ends at a position of the file, or it fills the gap up to one behind.
LEMMA SoughtIs ==
    ASSUME NEW m, Good(m), NEW p \in Int, Reachable(m, p), mode \in Modes
    PROVE  \/ /\ Sought(m, p).bytes = m.bytes /\ Sought(m, p).pos \in 0 .. Len(m.bytes)
              /\ p \in 0 .. Len(m.bytes) => Sought(m, p).pos = p
           \/ /\ mode \in {"overwrite", "insert", "before"}
              /\ p \in Nat /\ p > Len(m.bytes)
              /\ Sought(m, p).bytes = File!Padded(m.bytes, p)
              /\ Len(Sought(m, p).bytes) = p /\ Sought(m, p).pos = p
<1>1. m \in MemFile /\ m.bytes \in Seq(Byte) /\ Len(m.bytes) \in Nat
    BY DEF Good, MemFile
<1>2. CASE p \in 0 .. Len(m.bytes)
    BY <1>1, <1>2 DEF Sought, MemFile
<1>3. CASE p \notin 0 .. Len(m.bytes) /\ mode = "append"
    <2>1. Sought(m, p) = [open |-> m.open, bytes |-> m.bytes, pos |-> Len(m.bytes)]
        BY <1>1, <1>3 DEF Sought, MemFile
    <2> QED BY <1>1, <1>3, <2>1
<1>4. CASE p \notin 0 .. Len(m.bytes) /\ mode # "append"
    <2>1. p \in Nat /\ p > Len(m.bytes) /\ mode \in {"overwrite", "insert", "before"}
        BY <1>1, <1>4 DEF Reachable, Modes
    <2>2. Sought(m, p) = [open |-> TRUE, bytes |-> Cleared(m.bytes, p), pos |-> p]
        BY <1>1, <1>4 DEF Sought, MemFile
    <2>3. Cleared(m.bytes, p) = File!Padded(m.bytes, p) /\ Len(Cleared(m.bytes, p)) = p
        <3>1. p >= Len(m.bytes)
            BY <1>1, <2>1
        <3>2. Cleared(m.bytes, p) = File!Padded(m.bytes, p)
            BY <1>1, <2>1, <3>1, ClearedIs
        <3>3. Len(Cleared(m.bytes, p)) = p
            BY <1>1, <2>1, ClearedType
        <3> QED BY <3>2, <3>3
    <2> QED BY <2>1, <2>2, <2>3
<1> QED BY <1>2, <1>3, <1>4

-----------------------------------------------------------------------------
(* The steps of ByteFile *)

Content  == [f \in Files |-> mem[f].bytes]
Position == [f \in Files |-> mem[f].pos]

\* What replacing one memory file does to the files of the manual.
LEMMA SetMaps ==
    ASSUME IInv, NEW f \in Files, NEW m, Set(f, m)
    PROVE  /\ Content' = [Content EXCEPT ![f] = m.bytes]
           /\ Position' = [Position EXCEPT ![f] = m.pos]
           /\ Len(m.bytes) <= MaxSize /\ UNCHANGED <<mode, st>>
BY DEF IInv, AllGood, Set, Fits, Content, Position

\* How the abstract places compare with those of the code.
LEMMA FilePlaces ==
    ASSUME NEW f \in Files, NEW d
    PROVE  /\ File!Place(f) = PlaceIn(mem[f])
           /\ File!Written(f, d) = Spliced(mem[f].bytes, PlaceIn(mem[f]), d, Replaced(Len(d)))
           /\ \A c, w : File!Placed(c, w, d, FALSE) = Spliced(c, w, d, Len(d))
BY DEF File!Place, File!Written, File!Placed, PlaceIn, Replaced, Spliced

\* Put is a Put.
LEMMA PutRefines ==
    ASSUME IInv, NEW f \in Files, NEW d \in Data, Set(f, Written(mem[f], d))
    PROVE  File!Put(f)
<1> DEFINE m == Written(mem[f], d)
<1>1. m.bytes = File!Written(f, d) /\ m.pos = File!Place(f) + Len(d)
    BY WrittenIs, FilePlaces DEF IInv, AllGood
<1>2. /\ Content' = [Content EXCEPT ![f] = m.bytes]
      /\ Position' = [Position EXCEPT ![f] = m.pos] /\ UNCHANGED <<mode, st>>
    BY SetMaps
<1> HIDE DEF m
<1> QED BY <1>1, <1>2 DEF File!Put, Content, Position

\* Get moves the position inside the file.
LEMMA GetRefines ==
    ASSUME IInv, NEW f \in Files, NEW n \in Nat, mem[f].pos + n <= Len(mem[f].bytes),
           Set(f, [mem[f] EXCEPT !.pos = @ + n])
    PROVE  File!Get(f)
<1> DEFINE m == [mem[f] EXCEPT !.pos = @ + n]
<1>1. mem[f] \in MemFile
    BY DEF IInv, AllGood, Good
<1>2. m.bytes = mem[f].bytes /\ m.pos = mem[f].pos + n /\ mem[f].pos \in Nat
    BY <1>1 DEF MemFile
<1>3. /\ Content' = [Content EXCEPT ![f] = m.bytes]
      /\ Position' = [Position EXCEPT ![f] = m.pos] /\ UNCHANGED <<mode, st>>
    BY SetMaps
<1> HIDE DEF m
<1>4. Content' = Content
    BY <1>2, <1>3 DEF Content
<1>5. m.pos \in mem[f].pos .. Len(mem[f].bytes)
    <2>1. Len(mem[f].bytes) \in Nat
        BY <1>1 DEF MemFile
    <2> QED BY <1>2, <2>1
<1> QED BY <1>3, <1>4, <1>5 DEF File!Get, Content, Position

\* A seek is a GoTo or, behind the end, one that fills the gap.
LEMMA GoToRefines ==
    ASSUME IInv, NEW f \in Files, NEW p \in Int, Reachable(mem[f], p), Set(f, Sought(mem[f], p))
    PROVE  File!GoTo(f) \/ File!GoToBehind(f)
<1> DEFINE m == Sought(mem[f], p)
<1>1. Good(mem[f]) /\ mode \in Modes
    BY DEF IInv, AllGood
<1>2. /\ Content' = [Content EXCEPT ![f] = m.bytes]
      /\ Position' = [Position EXCEPT ![f] = m.pos]
      /\ Len(m.bytes) <= MaxSize /\ UNCHANGED <<mode, st>>
    BY SetMaps
<1>3. \/ m.bytes = mem[f].bytes /\ m.pos \in 0 .. Len(mem[f].bytes)
      \/ /\ mode \in {"overwrite", "insert", "before"}
         /\ p \in Nat /\ p > Len(mem[f].bytes)
         /\ m.bytes = File!Padded(mem[f].bytes, p) /\ Len(m.bytes) = p /\ m.pos = p
    BY <1>1, SoughtIs
<1> HIDE DEF m
<1>4. CASE m.bytes = mem[f].bytes /\ m.pos \in 0 .. Len(mem[f].bytes)
    <2>1. Content' = Content
        BY <1>2, <1>4 DEF Content
    <2>2. File!GoTo(f)
        BY <1>2, <1>4, <2>1 DEF File!GoTo, Content, Position
    <2> QED BY <2>2
<1>5. CASE /\ mode \in {"overwrite", "insert", "before"}
           /\ p \in Nat /\ p > Len(mem[f].bytes)
           /\ m.bytes = File!Padded(mem[f].bytes, p) /\ Len(m.bytes) = p /\ m.pos = p
    <2>1. p \in 0 .. MaxSize
        BY <1>2, <1>5, MaxSizeAssumption
    <2>2. File!GoToBehind(f)
        BY <1>2, <1>5, <2>1 DEF File!GoToBehind, Content, Position
    <2> QED BY <2>2
<1> QED BY <1>3, <1>4, <1>5

\* c is what is around d in r.
Surrounds(c, r, at, d) ==
    /\ c \in Seq(Cell) /\ Len(c) = SplicedLen(r, at, Len(d), Len(d))
    /\ \A i \in 1 .. Len(c) : /\ i <= at => c[i] = r[i]
                              /\ i > at + Len(d) => c[i] = r[i - Len(d) + Len(d)]

LEMMA CopiedOver ==
    ASSUME NEW r \in Seq(Byte), NEW at \in 0 .. Len(r), NEW d \in Seq(Byte), NEW c,
           Surrounds(c, r, at, d)
    PROVE  Copied(c, at, d) = Spliced(r, at, d, Len(d))
<1>1. Len(d) \in Nat
    OBVIOUS
<1> QED BY <1>1, CopiedIs DEF Surrounds

\* The buffer of a PutVarChr.
Longer(b, n) == IF n > Len(b) THEN Cleared(b, n) ELSE b

\* Bytes stored at an offset, by PutVarChr, are placed in the padded file.
LEMMA StoredIs ==
    ASSUME NEW b \in Seq(Byte), NEW at \in Nat, NEW d \in Seq(Byte)
    PROVE  Copied(Longer(b, at + Len(d)), at, d) = Spliced(File!Padded(b, at), at, d, Len(d))
<1> DEFINE r == File!Padded(b, at)  n == Len(d)  size == Len(b)  c == Longer(b, at + n)
<1>1. n \in Nat /\ size \in Nat /\ c \in Seq(Cell)
    <2>1. at + n \in Nat
        OBVIOUS
    <2>2. c \in Seq(Byte)
        BY <2>1, ClearedType DEF Longer
    <2> QED BY <2>2 DEF Cell
<1>2. /\ r \in Seq(Byte) /\ Len(r) = (IF at > size THEN at ELSE size)
      /\ \A i \in 1 .. Len(r) : r[i] = IF i <= size THEN b[i] ELSE Zero
    BY PaddedCells
<1>3. /\ Len(c) = IF at + n > size THEN at + n ELSE size
      /\ \A i \in 1 .. Len(c) : c[i] = IF i <= size THEN b[i] ELSE Zero
    <2>1. CASE at + n > size
        <3>1. at + n \in Nat
            BY <1>1
        <3>2. c = Cleared(b, at + n)
            BY <2>1 DEF Longer
        <3>3. Len(c) = at + n
            BY <3>1, <3>2, ClearedType
        <3>4. \A i \in 1 .. at + n : c[i] = IF i <= size THEN b[i] ELSE Zero
            BY <3>2 DEF Cleared
        <3> QED BY <2>1, <3>3, <3>4
    <2>2. CASE ~(at + n > size)
        <3>1. c = b
            BY <2>2 DEF Longer
        <3> QED BY <2>2, <3>1
    <2> QED BY <2>1, <2>2
<1> HIDE DEF r, n, size, c
<1>4. at \in 0 .. Len(r) /\ Len(r) \in Nat /\ Len(c) \in Nat
    BY <1>1, <1>2, <1>3
<1>5. Len(c) = SplicedLen(r, at, n, n)
    BY <1>1, <1>2, <1>3 DEF SplicedLen
<1>6. \A i \in 1 .. Len(c) : /\ i <= at => c[i] = r[i]
                             /\ i > at + n => c[i] = r[i - n + n]
    <2>1. ASSUME NEW i \in 1 .. Len(c), i <= at \/ i > at + n PROVE c[i] = r[i] /\ i - n + n = i
        <3>1. i \in 1 .. Len(r)
            BY <1>1, <1>2, <1>3, <2>1
        <3>2. c[i] = IF i <= size THEN b[i] ELSE Zero
            BY <1>3
        <3>3. r[i] = IF i <= size THEN b[i] ELSE Zero
            BY <1>2, <3>1
        <3> QED BY <1>1, <3>2, <3>3
    <2> QED BY <2>1
<1>7. Surrounds(c, r, at, d)
    BY <1>1, <1>5, <1>6 DEF Surrounds, n
<1>8. r \in Seq(Byte) /\ at \in 0 .. Len(r)
    BY <1>2, <1>4
<1>9. Copied(c, at, d) = Spliced(r, at, d, Len(d))
    BY <1>7, <1>8, CopiedOver
<1> QED BY <1>9 DEF r, c, n

\* PutVarChr is a PutVarChr.
LEMMA PutVarChrRefines ==
    ASSUME IInv, NEW f \in Files, NEW at \in Nat, NEW d \in Data, NEW m,
           Set(f, m), m.pos = mem[f].pos,
           \/ at + Len(d) > Len(mem[f].bytes)
              /\ m.bytes = Copied(Cleared(mem[f].bytes, at + Len(d)), at, d)
           \/ ~(at + Len(d) > Len(mem[f].bytes)) /\ m.bytes = Copied(mem[f].bytes, at, d)
    PROVE  File!PutVarChr(f)
<1> DEFINE b == mem[f].bytes  n == at + Len(d)  c == IF n > Len(b) THEN Cleared(b, n) ELSE b
<1>1. b \in Seq(Byte) /\ d \in Seq(Byte) /\ Len(d) \in Nat /\ n \in Nat /\ Len(b) \in Nat
    BY DataAssumption DEF IInv, AllGood, Good, MemFile
<1>2. c \in Seq(Byte) /\ Len(c) = IF n > Len(b) THEN n ELSE Len(b)
    BY <1>1, ClearedType
<1>3. m.bytes = Copied(c, at, d)
    OBVIOUS
<1>4. c = Longer(b, at + Len(d))
    BY DEF Longer
<1>5. /\ Content' = [Content EXCEPT ![f] = m.bytes]
      /\ Position' = [Position EXCEPT ![f] = m.pos]
      /\ Len(m.bytes) <= MaxSize /\ UNCHANGED <<mode, st>>
    BY SetMaps
<1> HIDE DEF c
<1>6. m.bytes = File!Placed(File!Padded(b, at), at, d, FALSE)
    <2>1. Copied(c, at, d) = Spliced(File!Padded(b, at), at, d, Len(d))
        BY <1>1, <1>4, StoredIs
    <2> QED BY <1>3, <2>1, FilePlaces
<1>7. at \in 0 .. MaxSize
    <2>1. Len(Copied(c, at, d)) = Len(c)
        <3>1. \A i \in 1 .. Len(c) : c[i] \in Byte
            BY <1>2, ElementOfSeq
        <3>2. Byte \subseteq Cell
            BY DEF Cell
        <3>3. c \in Seq(Cell)
            <4> HIDE DEF Cell
            <4> QED BY <1>2, <3>2
        <3> QED BY <1>1, <3>1, <3>3, CopiedType
    <2>2. Len(m.bytes) = Len(c) /\ Len(c) >= n
        BY <1>1, <1>2, <1>3, <2>1
    <2> QED BY <1>1, <1>5, <2>2, MaxSizeAssumption
<1>8. Position' = Position
    BY <1>5 DEF Position
<1>9. Content' = [Content EXCEPT ![f] = File!Placed(File!Padded(@, at), at, d, FALSE)]
    <2>1. Content[f] = b
        BY DEF Content
    <2> QED BY <1>5, <1>6, <2>1
<1> QED BY <1>5, <1>7, <1>8, <1>9 DEF File!PutVarChr, Content, Position

\* A Log from a file or a variable is a Log.
LEMMA DumpRefines ==
    ASSUME IInv, mode # "insert", NEW f \in Files, NEW d \in Data, NEW takes \in BOOLEAN,
           Set(f, Dumped(mem[f], d, takes))
    PROVE  File!Log(f)
<1> DEFINE m == Dumped(mem[f], d, takes)
<1>1. Good(mem[f]) /\ mode \in Modes \ {"insert"}
    BY DEF IInv, AllGood
<1>2. m.bytes = IF mode = "none" THEN d ELSE File!Written(f, d)
    <2>1. m.bytes = IF mode = "none" THEN d
                    ELSE Spliced(mem[f].bytes, PlaceIn(mem[f]), d, Replaced(Len(d)))
        BY <1>1, DumpedIs
    <2> QED BY <2>1, FilePlaces
<1>3. m.pos \in 0 .. Len(m.bytes)
    BY <1>1, DumpedGood DEF Good, MemFile
<1>4. /\ Content' = [Content EXCEPT ![f] = m.bytes]
      /\ Position' = [Position EXCEPT ![f] = m.pos] /\ UNCHANGED <<mode, st>>
    BY SetMaps
<1> HIDE DEF m
<1>5. Content'[f] = m.bytes
    BY <1>4 DEF Content
<1> QED BY <1>2, <1>3, <1>4, <1>5 DEF File!Log, Content, Position

\* A file is not shorter once bytes have been placed in it.
LEMMA SplicedGrows ==
    ASSUME NEW c \in Seq(Byte), NEW w \in 0 .. Len(c), NEW d \in Seq(Byte)
    PROVE  /\ Spliced(c, w, d, Replaced(Len(d))) \in Seq(Byte)
           /\ Len(Spliced(c, w, d, Replaced(Len(d)))) >= Len(c)
<1> DEFINE e == Replaced(Len(d))
<1>1. Len(c) \in Nat /\ w \in Nat /\ w <= Len(c) /\ Len(d) \in Nat /\ e \in Nat /\ e <= Len(d)
    BY DEF Replaced
<1> HIDE DEF e
<1>2. Spliced(c, w, d, e) \in Seq(Byte) /\ Len(Spliced(c, w, d, e)) = SplicedLen(c, w, Len(d), e)
    BY <1>1, SplicedCells
<1>3. SplicedLen(c, w, Len(d), e) >= Len(c)
    <2>1. SplicedLen(c, w, Len(d), e) = w + Len(d) + (IF w + e <= Len(c) THEN Len(c) - w - e ELSE 0)
        BY DEF SplicedLen
    <2>2. CASE w + e <= Len(c)
        BY <1>1, <2>1, <2>2
    <2>3. CASE ~(w + e <= Len(c))
        BY <1>1, <2>1, <2>3
    <2> QED BY <2>2, <2>3
<1> QED BY <1>2, <1>3 DEF e

\* Placing no bytes in a file leaves it as it is, in every mode.
LEMMA NothingPlaced ==
    ASSUME NEW m, Good(m), NEW d, d = <<>>
    PROVE  Spliced(m.bytes, PlaceIn(m), d, Replaced(Len(d))) = m.bytes
<1>1. Len(d) = 0
    OBVIOUS
<1>2. Replaced(Len(d)) = 0
    BY <1>1 DEF Replaced
<1> QED BY <1>2, PlaceInside, SplicedNothing

\* A seek inside the file moves the position only.
LEMMA SeekInside ==
    ASSUME NEW m, Good(m), NEW p \in 0 .. Len(m.bytes)
    PROVE  Sought(m, p).bytes = m.bytes /\ Sought(m, p).pos = p
BY DEF Sought, Good, MemFile

\* The position of a good file.
LEMMA GoodPlace ==
    ASSUME NEW m, Good(m)
    PROVE  /\ m \in MemFile /\ m.bytes \in Seq(Byte) /\ Len(m.bytes) \in Nat
           /\ m.pos \in 0 .. Len(m.bytes)
BY DEF Good, MemFile

\* A position inside a file is inside a longer one.
LEMMA Within ==
    ASSUME NEW i \in Nat, NEW j \in Nat, NEW p \in 0 .. i, j >= i
    PROVE  p \in 0 .. j
OBVIOUS

\* d are the n bytes at the position of m.
ReadsFrom(m, n, d) == /\ m.pos + n <= Len(m.bytes)
                      /\ d = SubSeq(m.bytes, m.pos + 1, m.pos + n)

\* A Log from a memory file into another is a Log; if its seek has padded the
\* source, there was nothing to read.
LEMMA LogFromOther ==
    ASSUME IInv, mode # "insert", NEW src \in Files, NEW dst \in Files, src # dst,
           NEW offset \in Int, Reachable(mem[src], offset), NEW n \in Nat,
           NEW m, m = Sought(mem[src], offset), NEW d \in Data, ReadsFrom(m, n, d),
           NEW x, x = Dumped(mem[dst], d, TRUE),
           NEW y, y.bytes = m.bytes, y.pos = mem[src].pos,
           mem' = [mem EXCEPT ![src] = y, ![dst] = x],
           \A f \in Files : Fits(mem'[f]), UNCHANGED <<mode, st>>
    PROVE  File!Log(dst) \/ File!LogNothing(dst, src)
<1>1. /\ Good(mem[src]) /\ Good(mem[dst]) /\ mode \in Modes \ {"insert"}
      /\ mem \in [Files -> MemFile]
    BY DEF IInv, AllGood
<1>2. x.bytes = IF mode = "none" THEN d ELSE File!Written(dst, d)
    <2>1. x.bytes = IF mode = "none" THEN d
                    ELSE Spliced(mem[dst].bytes, PlaceIn(mem[dst]), d, Replaced(Len(d)))
        BY <1>1, DumpedIs
    <2> QED BY <2>1, FilePlaces
<1>3. x.pos \in 0 .. Len(x.bytes)
    <2>1. Good(x)
        BY <1>1, DumpedGood
    <2> QED BY <2>1, GoodPlace
<1>4. Position' = [Position EXCEPT ![dst] = x.pos]
    BY <1>1 DEF Position
<1>5. Content' = [f \in Files |-> IF f = dst THEN x.bytes ELSE IF f = src THEN m.bytes ELSE mem[f].bytes]
    BY <1>1 DEF Content
<1>6. Content'[dst] = x.bytes /\ Content[src] = mem[src].bytes /\ Content[dst] = mem[dst].bytes
    BY <1>5 DEF Content
<1>7. CASE m.bytes = mem[src].bytes
    <2>1. Content' = [Content EXCEPT ![dst] = x.bytes]
        <3>1. Content' = [f \in Files |-> IF f = dst THEN x.bytes ELSE mem[f].bytes]
            BY <1>5, <1>7
        <3> QED BY <3>1 DEF Content
    <2>2. File!Log(dst)
        BY <1>2, <1>3, <1>4, <1>6, <2>1 DEF File!Log, Content, Position
    <2> QED BY <2>2
<1>8. CASE m.bytes # mem[src].bytes
    <2>1. /\ mode \in {"overwrite", "insert", "before"} /\ offset \in Nat
          /\ m.bytes = File!Padded(mem[src].bytes, offset)
          /\ Len(m.bytes) = offset /\ m.pos = offset
        BY <1>1, <1>8, SoughtIs
    <2>2. d = <<>>
        <3>1. n = 0
            BY <2>1 DEF ReadsFrom
        <3> QED BY <2>1, <3>1, SubSeqEmpty DEF ReadsFrom
    <2>3. x.bytes = mem[dst].bytes
        <3>1. x.bytes = Spliced(mem[dst].bytes, PlaceIn(mem[dst]), d, Replaced(Len(d)))
            BY <1>2, <2>1, FilePlaces
        <3>2. Good(mem[dst])
            BY <1>1
        <3> QED BY <2>2, <3>1, <3>2, NothingPlaced
    <2>4. offset \in 0 .. MaxSize
        <3>1. mem'[src].bytes = m.bytes
            BY <1>1
        <3>2. Len(m.bytes) <= MaxSize
            BY <3>1 DEF Fits
        <3> QED BY <2>1, <3>2, MaxSizeAssumption
    <2>5. Content' = [Content EXCEPT ![src] = File!Padded(@, offset)]
        <3>1. Content' = [f \in Files |-> IF f = src THEN m.bytes ELSE mem[f].bytes]
            BY <1>5, <2>3
        <3>2. Content' = [Content EXCEPT ![src] = m.bytes]
            BY <3>1 DEF Content
        <3> QED BY <1>6, <2>1, <3>2
    <2>6. File!LogNothing(dst, src)
        BY <1>3, <1>4, <1>6, <2>1, <2>4, <2>5 DEF File!LogNothing, Content, Position
    <2> QED BY <2>6
<1> QED BY <1>7, <1>8

\* So is a Log from a memory file into itself, but in overwrite mode: there it
\* writes behind what it has read, wherever the position of the file is, as
\* PutVarChr does.
LEMMA LogFromItself ==
    ASSUME IInv, mode # "insert", NEW f \in Files,
           NEW offset \in Int, Reachable(mem[f], offset), NEW n \in Nat,
           NEW m, m = Sought(mem[f], offset), NEW d \in Data, ReadsFrom(m, n, d),
           NEW r, Good(r), r.bytes = m.bytes, r.pos = m.pos + n,
           NEW x, x = Dumped(r, d, TRUE), Reachable(x, mem[f].pos),
           NEW y, y = Sought(x, mem[f].pos), Set(f, y)
    PROVE  File!Log(f) \/ File!LogNothing(f, f) \/ File!PutVarChr(f)
<1> DEFINE old == mem[f].pos  b == mem[f].bytes
<1>0. Good(mem[f]) /\ mode \in Modes \ {"insert"}
    BY DEF IInv, AllGood
<1>1. /\ Good(mem[f]) /\ mode \in Modes \ {"insert"} /\ d \in Seq(Byte)
      /\ b \in Seq(Byte) /\ Len(b) \in Nat /\ old \in 0 .. Len(b) /\ Len(d) \in Nat
    BY <1>0, GoodPlace, DataAssumption
<1>2. x.bytes = IF mode = "none" THEN d ELSE Spliced(r.bytes, PlaceIn(r), d, Replaced(Len(d)))
    BY <1>1, DumpedIs
<1>3. Good(x)
    BY <1>1, DumpedGood
<1>4. Good(y)
    <2>1. old \in Int
        BY <1>1
    <2> QED BY <1>1, <1>3, <2>1, SoughtGood
<1>5. /\ Content' = [Content EXCEPT ![f] = y.bytes]
      /\ Position' = [Position EXCEPT ![f] = y.pos]
      /\ Len(y.bytes) <= MaxSize /\ UNCHANGED <<mode, st>>
    BY SetMaps
<1>6. y.pos \in 0 .. Len(y.bytes) /\ Content'[f] = y.bytes /\ Content[f] = b /\ Position[f] = old
    BY <1>4, <1>5, GoodPlace DEF Content, Position
<1> HIDE DEF old, b
<1>7. ASSUME m.bytes = b, mode # "overwrite" PROVE File!Log(f)
    <2>1. y.bytes = x.bytes
        <3>1. CASE mode = "none"
            <4>1. old \in 0 .. Len(x.bytes)
                BY <3>1 DEF Reachable, old
            <4> QED BY <1>3, <4>1, SeekInside DEF old
        <3>2. CASE mode = "append"
            BY <1>3, <3>2, GoodPlace DEF Sought, MemFile
        <3>3. CASE mode = "before"
            <4>1. Len(x.bytes) >= Len(b) /\ Len(x.bytes) \in Nat
                BY <1>1, <1>2, <1>3, <1>7, <3>3, PlaceInside, SplicedGrows, GoodPlace
            <4>2. old \in 0 .. Len(x.bytes)
                BY <1>1, <4>1, Within
            <4> QED BY <1>3, <4>2, SeekInside DEF old
        <3> QED BY <1>1, <1>7, <3>1, <3>2, <3>3 DEF Modes
    <2>2. mode # "none" => PlaceIn(r) = PlaceIn(mem[f])
        BY <1>1, <1>7 DEF PlaceIn, Modes, b
    <2>3. y.bytes = IF mode = "none" THEN d ELSE File!Written(f, d)
        BY <1>2, <1>7, <2>1, <2>2, FilePlaces DEF b
    <2> QED BY <1>5, <1>6, <2>3 DEF File!Log, Content, Position
<1>8. ASSUME m.bytes = b, mode = "overwrite" PROVE File!PutVarChr(f)
    <2> DEFINE at == m.pos + n
    <2>1. PlaceIn(r) = at /\ Replaced(Len(d)) = Len(d)
        BY <1>8 DEF PlaceIn, Replaced
    <2>2. at \in 0 .. Len(b)
        BY <1>8, <2>1, PlaceInside
    <2> HIDE DEF at
    <2>3. x.bytes = Spliced(b, at, d, Len(d))
        BY <1>2, <1>8, <2>1
    <2>4. Len(x.bytes) >= Len(b) /\ Len(x.bytes) \in Nat
        BY <1>1, <1>3, <2>1, <2>2, <2>3, SplicedGrows, GoodPlace
    <2>5. y.bytes = x.bytes /\ y.pos = old
        <3>1. old \in 0 .. Len(x.bytes)
            BY <1>1, <2>4, Within
        <3> QED BY <1>3, <3>1, SeekInside DEF old
    <2>6. File!Padded(b, at) = b
        <3>1. at - Len(b) <= 0
            BY <1>1, <2>2
        <3>2. [i \in 1 .. at - Len(b) |-> Zero] = <<>>
            BY <1>1, <2>2, <3>1
        <3> QED BY <1>1, <3>2, ConcatEmptySeq DEF File!Padded
    <2>7. at \in 0 .. MaxSize
        <3>1. Len(x.bytes) <= MaxSize
            BY <1>5, <2>5
        <3>2. at \in 0 .. Len(x.bytes)
            BY <1>1, <2>2, <2>4, Within
        <3> QED BY <2>4, <3>1, <3>2, MaxSizeAssumption, Within
    <2>8. Content' = [Content EXCEPT ![f] = File!Placed(File!Padded(@, at), at, d, FALSE)]
        <3>1. y.bytes = File!Placed(b, at, d, FALSE)
            BY <2>3, <2>5, FilePlaces
        <3> QED BY <1>5, <1>6, <2>6, <3>1
    <2>9. Position' = Position
        BY <1>5, <1>6, <2>5 DEF Position
    <2> QED BY <1>5, <2>7, <2>8, <2>9 DEF File!PutVarChr, Content, Position
<1>9. ASSUME m.bytes # b PROVE File!LogNothing(f, f)
    <2>1. /\ mode \in {"overwrite", "insert", "before"} /\ offset \in Nat /\ offset > Len(b)
          /\ m.bytes = File!Padded(b, offset) /\ Len(m.bytes) = offset /\ m.pos = offset
        BY <1>1, <1>9, SoughtIs DEF b
    <2>2. d = <<>>
        <3>1. n = 0
            BY <2>1 DEF ReadsFrom
        <3> QED BY <2>1, <3>1, SubSeqEmpty DEF ReadsFrom
    <2>3. x.bytes = m.bytes
        BY <1>2, <2>1, <2>2, NothingPlaced
    <2>4. y.bytes = m.bytes
        <3>1. old \in 0 .. Len(x.bytes)
            <4>1. offset >= Len(b)
                BY <1>1, <2>1
            <4> QED BY <1>1, <2>1, <2>3, <4>1, Within
        <3> QED BY <1>3, <2>3, <3>1, SeekInside DEF old
    <2>5. offset \in 0 .. MaxSize
        <3>1. Len(m.bytes) <= MaxSize
            BY <1>5, <2>4
        <3> QED BY <2>1, <3>1, MaxSizeAssumption
    <2>6. Content' = [Content EXCEPT ![f] = File!Padded(@, offset)]
        BY <1>5, <1>6, <2>1, <2>4
    <2> QED BY <1>5, <1>6, <2>1, <2>5, <2>6 DEF File!LogNothing, Content, Position
<1> QED BY <1>7, <1>8, <1>9

\* A Log from a memory file that does not fail.
LEMMA LogFromRefines ==
    ASSUME IInv, mode # "insert", NEW src \in Files, NEW dst \in Files, LogFrom(src, dst), ~Exit
    PROVE  File!Log(dst) \/ File!LogNothing(dst, src) \/ File!PutVarChr(dst)
<1>1. PICK offset \in Offsets, n \in 0 .. MaxSize :
        LET old    == mem[src].pos
            sought == [mem EXCEPT ![src] = Sought(@, offset)]
            d      == SubSeq(sought[src].bytes, sought[src].pos + 1, sought[src].pos + n)
            read   == [sought EXCEPT ![src].pos = @ + n]
            dumped == [read EXCEPT ![dst] = Dumped(@, d, TRUE)]
        IN  IF \/ ~Reachable(mem[src], offset)
               \/ ~sought[src].open \/ sought[src].pos + n > Len(sought[src].bytes)
               \/ ~Reachable(dumped[src], old)
            THEN Exit
            ELSE /\ d \in Data
                 /\ mem' = [dumped EXCEPT ![src] = Sought(@, old)]
                 /\ \A f \in Files : Fits(mem'[f])
                 /\ UNCHANGED <<mode, st>>
    BY DEF LogFrom
<1> DEFINE old    == mem[src].pos
           m      == Sought(mem[src], offset)
           sought == [mem EXCEPT ![src] = m]
           d      == SubSeq(m.bytes, m.pos + 1, m.pos + n)
           r      == [m EXCEPT !.pos = @ + n]
           read   == [sought EXCEPT ![src] = r]
           x      == Dumped(read[dst], d, TRUE)
           dumped == [read EXCEPT ![dst] = x]
           y      == Sought(dumped[src], old)
<1>2. /\ offset \in Int /\ n \in Nat /\ mode \in Modes \ {"insert"}
      /\ mem \in [Files -> MemFile] /\ Good(mem[src])
    BY OffsetsAssumption, MaxSizeAssumption DEF IInv, AllGood
<1>3. sought[src] = m /\ read = [sought EXCEPT ![src].pos = @ + n]
    BY <1>2
<1>4. /\ Reachable(mem[src], offset) /\ m.open /\ ~(m.pos + n > Len(m.bytes))
      /\ Reachable(dumped[src], old) /\ d \in Data
      /\ mem' = [dumped EXCEPT ![src] = y] /\ UNCHANGED <<mode, st>>
      /\ \A f \in Files : Fits(mem'[f])
    BY <1>1, <1>3
<1>5. Good(m) /\ old \in Int
    <2>1. mode \in Modes
        BY <1>2
    <2>2. old \in Int
        BY <1>2, GoodPlace
    <2>3. Good(m)
        BY <1>2, <1>4, <2>1, SoughtGood
    <2> QED BY <2>2, <2>3
<1>6. ReadsFrom(m, n, d)
    <2>1. m.pos \in Int /\ Len(m.bytes) \in Int
        BY <1>5, GoodPlace
    <2>2. ~(m.pos + n > Len(m.bytes))
        BY <1>4
    <2> HIDE DEF m
    <2>3. m.pos + n <= Len(m.bytes)
        BY <1>2, <2>1, <2>2
    <2> QED BY <2>3 DEF ReadsFrom
<1>7. r.bytes = m.bytes /\ r.pos = m.pos + n /\ Good(r)
    <2> HIDE DEF m
    <2>1. m.pos + n <= Len(m.bytes)
        BY <1>6 DEF ReadsFrom
    <2>2. Good(r)
        BY <1>2, <1>4, <1>5, <2>1, ReadGood
    <2>3. m \in MemFile
        BY <1>5, GoodPlace
    <2> QED BY <2>2, <2>3 DEF MemFile
<1> HIDE DEF r
<1>8. read = [mem EXCEPT ![src] = r]
    BY <1>2
<1> HIDE DEF d, read
<1>9. CASE src # dst
    <2>1. read[dst] = mem[dst] /\ dumped[src] = r
        BY <1>2, <1>8, <1>9
    <2> HIDE DEF m, x, y
    <2>2. mem' = [mem EXCEPT ![src] = y, ![dst] = x]
        <3>1. mem' = [[[mem EXCEPT ![src] = r] EXCEPT ![dst] = x] EXCEPT ![src] = y]
            BY <1>4, <1>8
        <3> QED BY <1>2, <1>9, <3>1
    <2>3. y.bytes = m.bytes /\ y.pos = old
        <3> USE DEF m, y
        <3>1. Len(m.bytes) >= Len(mem[src].bytes)
            BY <1>2, <1>4, SoughtIs, GoodPlace
        <3>2. old \in 0 .. Len(r.bytes)
            BY <1>2, <1>5, <1>7, <3>1, GoodPlace, Within
        <3> QED BY <1>7, <2>1, <3>2, SeekInside
    <2>4. x = Dumped(mem[dst], d, TRUE)
        BY <2>1 DEF x
    <2>5. m = Sought(mem[src], offset)
        BY DEF m
    <2>6. Reachable(mem[src], offset) /\ d \in Data /\ UNCHANGED <<mode, st>> /\ \A f \in Files : Fits(mem'[f])
        BY <1>4
    <2> QED BY <1>2, <1>6, <1>9, <2>2, <2>3, <2>4, <2>5, <2>6, LogFromOther
<1>10. CASE src = dst
    <2>1. read[dst] = r /\ dumped[src] = x
        BY <1>2, <1>8, <1>10
    <2>2. Set(src, y)
        <3>1. mem' = [mem EXCEPT ![src] = y]
            BY <1>2, <1>4, <1>8, <1>10
        <3>2. mem'[src] = y
            BY <1>2, <3>1
        <3> QED BY <1>4, <3>1, <3>2 DEF Set
    <2>3. x = Dumped(r, d, TRUE) /\ y = Sought(x, mem[src].pos) /\ Reachable(x, mem[src].pos)
        BY <1>4, <2>1
    <2> HIDE DEF m, x, y
    <2> QED BY <1>2, <1>4, <1>6, <1>7, <1>10, <2>2, <2>3, LogFromItself DEF m
<1> QED BY <1>9, <1>10

\* A script that does not Log in insert mode does to its memory files what the
\* manual says of files: every command is a step of ByteFile.
LEMMA StepRefines == IInv /\ [PlainNext]_vars => [File!Next]_(File!vars)
<1> SUFFICES ASSUME IInv, [PlainNext]_vars PROVE [File!Next]_(File!vars)
    OBVIOUS
<1>0. (\A f \in Files : Good(mem[f])) /\ mode \in Modes
    BY DEF IInv, AllGood
<1>1. ASSUME st = "run", Exit PROVE File!Next
    BY <1>1 DEF Exit, File!Next, File!Exit
<1>2. ASSUME st = "run", NEW f \in Files, File!Put(f) PROVE File!Next
    BY <1>2 DEF File!Next
<1>3. ASSUME st = "run", NEW f \in Files, NEW g \in Files,
             File!Log(f) \/ File!LogNothing(f, g) \/ File!PutVarChr(f)
      PROVE  File!Next
    BY <1>3 DEF File!Next
<1>4. ASSUME st = "run", NEW f \in Files, File!Get(f) \/ File!GoTo(f) \/ File!GoToBehind(f)
      PROVE  File!Next
    BY <1>4 DEF File!Next
<1>5. CASE st = "run" /\ Append_
    <2>1. File!Append_
        BY <1>5 DEF Append_, File!Append_, File!Modes
    <2> QED BY <1>5, <2>1 DEF File!Next
<1>6. CASE st = "run" /\ Restart
    <2>1. \A f \in Files : mem'[f].bytes = <<>> /\ mem'[f].pos = 0
        BY <1>0, <1>6 DEF Restart, Good, MemFile
    <2>2. File!Restart
        BY <1>6, <2>1 DEF Restart, File!Restart
    <2> QED BY <1>6, <2>2 DEF File!Next
<1>7. ASSUME st = "run", NEW f \in Files, Put(f) PROVE File!Next
    BY <1>1, <1>2, <1>7, PutRefines DEF Put
<1>8. ASSUME st = "run", NEW f \in Files, Get(f) PROVE File!Next
    <2>1. 0 .. MaxSize \subseteq Nat
        BY MaxSizeAssumption
    <2> QED BY <1>1, <1>4, <1>8, <2>1, GetRefines DEF Get
<1>9. ASSUME st = "run", NEW f \in Files, GoTo(f) PROVE File!Next
    <2>1. PICK offset \in Offsets :
            LET end == Len(mem[f].bytes) + (IF offset > 0 THEN -offset ELSE offset)
            IN  \E p \in {offset, mem[f].pos + offset, end} :
                    IF Reachable(mem[f], p) THEN Set(f, Sought(mem[f], p)) ELSE Exit
        BY <1>9 DEF GoTo
    <2>2. PICK p \in Int : IF Reachable(mem[f], p) THEN Set(f, Sought(mem[f], p)) ELSE Exit
        <3>1. offset \in Int /\ mem[f].pos \in Int /\ Len(mem[f].bytes) \in Int
            BY <1>0, OffsetsAssumption, GoodPlace
        <3> QED BY <2>1, <3>1
    <2> QED BY <1>1, <1>4, <1>9, <2>2, GoToRefines
<1>10. ASSUME st = "run", NEW f \in Files, PutVarChr(f) PROVE File!Next
    <2> DEFINE m == mem[f]
    <2>1. PICK offset \in Offsets, d \in Data :
            LET at == IF offset < 0 THEN Len(m.bytes) + offset ELSE offset
            IN  IF at < 0 THEN Exit
                ELSE IF at + Len(d) > Len(m.bytes)
                THEN Set(f, [m EXCEPT !.open = TRUE, !.bytes = Copied(Cleared(@, at + Len(d)), at, d)])
                ELSE Set(f, [m EXCEPT !.bytes = Copied(@, at, d)])
        BY <1>10 DEF PutVarChr
    <2> DEFINE at == IF offset < 0 THEN Len(m.bytes) + offset ELSE offset
    <2>2. m \in MemFile /\ at \in Int
        BY <1>0, OffsetsAssumption, GoodPlace
    <2>3. CASE at < 0
        BY <1>1, <1>10, <2>1, <2>3
    <2>4. CASE at >= 0 /\ at + Len(d) > Len(m.bytes)
        <3> DEFINE c == Copied(Cleared(m.bytes, at + Len(d)), at, d)
                   r == [m EXCEPT !.open = TRUE, !.bytes = c]
        <3>1. Set(f, r)
            BY <2>1, <2>2, <2>4
        <3>2. r.bytes = c /\ r.pos = m.pos
            BY <2>2 DEF MemFile
        <3>3. at \in Nat
            BY <2>2, <2>4
        <3> HIDE DEF at, r
        <3>4. File!PutVarChr(f)
            BY <2>4, <3>1, <3>2, <3>3, PutVarChrRefines
        <3> QED BY <1>3, <1>10, <3>4
    <2>5. CASE at >= 0 /\ ~(at + Len(d) > Len(m.bytes))
        <3> DEFINE c == Copied(m.bytes, at, d)  r == [m EXCEPT !.bytes = c]
        <3>1. Set(f, r)
            BY <2>1, <2>2, <2>5
        <3>2. r.bytes = c /\ r.pos = m.pos
            BY <2>2 DEF MemFile
        <3>3. at \in Nat
            BY <2>2, <2>5
        <3> HIDE DEF at, r
        <3>4. File!PutVarChr(f)
            BY <2>5, <3>1, <3>2, <3>3, PutVarChrRefines
        <3> QED BY <1>3, <1>10, <3>4
    <2> QED BY <2>2, <2>3, <2>4, <2>5
<1>11. ASSUME st = "run", NEW f \in Files, mode # "insert", Dump(f) PROVE File!Next
    BY <1>3, <1>11, DumpRefines DEF Dump
<1>12. ASSUME st = "run", NEW src \in Files, NEW dst \in Files, mode # "insert", LogFrom(src, dst)
       PROVE  File!Next
    <2>1. CASE Exit
        BY <1>1, <1>12, <2>1
    <2>2. CASE ~Exit
        BY <1>3, <1>12, <2>2, LogFromRefines
    <2> QED BY <2>1, <2>2
<1>13. CASE UNCHANGED vars
    BY <1>13 DEF vars, File!vars
<1> QED BY <1>5, <1>6, <1>7, <1>8, <1>9, <1>10, <1>11, <1>12, <1>13
        DEF PlainNext, Logging, Other, Terminated

\* Memory files implement the files of the manual, for any number of files and
\* whatever is written to them.
THEOREM MemImplementsByteFile == PlainSpec => ImplementsByteFile
<1>1. Init => File!Init
    BY DEF Init, File!Init
<1>2. IInv /\ [PlainNext]_vars => [File!Next]_(File!vars)
    BY StepRefines
<1> QED BY <1>1, <1>2, Invariant, PTL DEF PlainSpec, ImplementsByteFile, File!Spec
===============================================================================
